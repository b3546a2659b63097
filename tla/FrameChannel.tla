---------------------------- MODULE FrameChannel ----------------------------
(***************************************************************************)
(* What the point cloud path of the Livox driver promises for each lidar:  *)
(* a bounded FIFO between the thread that assembles frames and the thread  *)
(* that publishes them.  A frame is either stored behind the frames that   *)
(* already wait, or discarded (a step that leaves the channel unchanged);  *)
(* a stored frame is published once, in order, as it was stored.           *)
(***************************************************************************)
EXTENDS Naturals, Sequences

CONSTANTS Lidars, Frames, NoFrame, Capacity

VARIABLES
  queue,     \* queue[l]: the frames stored for l and not yet published
  published  \* published[l]: the last frame published for l

vars == <<queue, published>>

Init ==
  /\ queue = [l \in Lidars |-> <<>>]
  /\ published = [l \in Lidars |-> NoFrame]

Store(l, f) ==
  /\ Len(queue[l]) < Capacity
  /\ queue' = [queue EXCEPT ![l] = Append(@, f)]
  /\ UNCHANGED published

Publish(l) ==
  /\ queue[l] # <<>>
  /\ published' = [published EXCEPT ![l] = Head(queue[l])]
  /\ queue' = [queue EXCEPT ![l] = Tail(@)]

Next == \E l \in Lidars : Publish(l) \/ \E f \in Frames : Store(l, f)

Spec == Init /\ [][Next]_vars
=============================================================================
