---------------------- MODULE FrameAssemblyProperties ----------------------
(***************************************************************************)
(* What must hold of FrameAssembly.                                        *)
(***************************************************************************)
EXTENDS FrameAssembly

(* Every variable has its type, and RawDataProcess holds a packet exactly  *)
(* while it processes one: raw_data is read after the lock is released.    *)
TypeOK ==
  /\ now \in Nat /\ is_quit \in BOOLEAN
  /\ raw_packet_queue \in Seq(Packets) /\ is_timestamp_sync \in BOOLEAN
  /\ pc \in {"loop", "lock", "wait", "process", "end"}
  /\ raw_data \in Seq(Packets) /\ Len(raw_data) = (IF pc = "process" THEN 1 ELSE 0)
  /\ points_clouds \in [Lidars -> Seq(Packets)]
  /\ points \in [Lidars -> Seq(Packets)]
  /\ published \in [Lidars -> Seq(Packets)]
  /\ first \in BOOLEAN /\ last_pub_time \in Nat
  /\ count \in [Lidars -> Nat] /\ packets \in Nat
  /\ unsynced \in BOOLEAN /\ start \in Nat /\ ticks \in Nat

-----------------------------------------------------------------------------
(* What the driver has of a lidar, from the front of the stream to its     *)
(* end: published, waiting for a frame, waiting to be processed.           *)
Assembled(l) == published[l] \o points_clouds[l]
Waiting == raw_data \o raw_packet_queue

Numbered(s, l) == \A i \in DOMAIN s : s[i].no = i /\ s[i].id = l

(* However the lidars switch between the two ways of closing a frame, the  *)
(* frames published and the points that wait for one are the packets       *)
(* received: GetLidarPointClouds swaps the points with a vector that must  *)
(* have been cleared, and each packet is taken from the queue once.        *)
FramesInOrder == \A l \in Lidars : Numbered(Assembled(l), l)

\* In w the packets lo + 1 .. hi of l are all there, in order, and no others.
Holds(w, l, lo, hi) ==
  LET Mine == {i \in DOMAIN w : w[i].id = l /\ w[i].no # 0}
  IN /\ lo <= hi
     /\ \A n \in lo + 1 .. hi : \E i \in Mine : w[i].no = n
     /\ \A i \in Mine : w[i].no \in lo + 1 .. hi
     /\ \A i, j \in Mine : i < j => w[i].no < w[j].no

(* The packets of a lidar that are not assembled yet wait in the order in  *)
(* which they came, and none of them has been lost.                        *)
NothingLost == \A l \in Lidars : Holds(Waiting, l, Len(Assembled(l)), count[l])

StreamIntact == FramesInOrder /\ NothingLost

-----------------------------------------------------------------------------
Ms(t) == t \div PerMs

(* No millisecond passes without the end of a packet.                      *)
GapFree(s) ==
  /\ s # <<>> => Ms(s[1].end) <= Ms(s[1].beg) + 1
  /\ \A i \in 1 .. Len(s) - 1 :
       s[i].end <= s[i + 1].end /\ Ms(s[i + 1].end) <= Ms(s[i].end) + 1

Short(s) == s # <<>> /\ GapFree(s) => Last(s).end - s[1].beg < 2 * Interval

(* "publish_freq: the frequency of point cloud publish": with synchronised *)
(* lidars that miss no millisecond, points never wait for a frame that     *)
(* spans two intervals, although CheckTimer only looks at the stamp of the *)
(* last point, when a packet has come, and takes the frame only in a       *)
(* millisecond that the interval divides.                                  *)
FramesShort ==
  ~unsynced => \A l \in Lidars : Short(points_clouds[l]) /\ Short(points[l])

(* Without synchronisation no frame is closed ahead of the clock, however  *)
(* the timer catches up after a pause: last_pub_time_ is never in the      *)
(* future and there are no more frames than intervals.                     *)
NeverAhead ==
  ~first => last_pub_time <= now /\ ticks * Interval <= now - start

(* After Uninit asks it to, the thread ends, although nothing notifies the *)
(* condition variable it may wait for: Uninit joins it.                    *)
ExitCompletes == is_quit ~> pc = "end"
=============================================================================
