------------------------ MODULE PointCloudProperties ------------------------
(***************************************************************************)
(* What must hold of PointCloudPipeline: the properties TLC checks, and    *)
(* the invariants PointCloudProofs proves.                                 *)
(***************************************************************************)
EXTENDS PointCloudPipeline

StorePCs   == {"idle", "full?", "write", "advance", "empty?", "count?", "signal"}
PollPCs    == {"distribute", "wait", "scan", "poll", "publish", "copy", "update",
               "future?", "done"}
AtLidarPCs == {"poll", "publish", "copy", "update"}

(* Every variable has its type; poll_lidar reaches LidarCount only at the  *)
(* end of the scan.                                                        *)
TypeOK ==
  /\ setup \in Setups
  /\ connect_state \in [Lidars -> {"Off", "Sampling"}]
  /\ allocated \in [Lidars -> BOOLEAN]
  /\ storage_packet \in [Lidars -> [Slots -> Frames \union {NoFrame}]]
  /\ wr_idx \in [Lidars -> Indices] /\ wr_own \in [Lidars -> Indices]
  /\ rd_idx \in [Lidars -> Indices] /\ rd_own \in [Lidars -> Indices]
  /\ count \in Nat
  /\ request_exit \in BOOLEAN /\ exit_signal \in BOOLEAN
  /\ store_pc \in StorePCs /\ store_lidar \in Lidars
  /\ store_frame \in Frames \union {NoFrame}
  /\ poll_pc \in PollPCs /\ poll_lidar \in 0 .. LidarCount
  /\ poll_pc \in AtLidarPCs => poll_lidar \in Lidars
  /\ pkg \in Frames \union {NoFrame}
  /\ main_pc \in {"run", "set_value", "join", "joined"}
  /\ published \in [Lidars -> Frames \union {NoFrame}]
  /\ late \in SUBSET Lidars

-----------------------------------------------------------------------------
(* The ring: its four indices keep the cyclic order                        *)
(* rd_idx <= rd_own <= wr_idx <= wr_own <= rd_idx + Size through every     *)
(* wrap of the 32-bit counters and every delay of a store, so the storage  *)
(* thread never overruns a frame that has not been taken.                  *)
Gap(a, b, c, d) == Used(b, a) + Used(c, b) + Used(d, c)
Span(l) == Gap(rd_idx[l], rd_own[l], wr_idx[l], wr_own[l])

RingWindow == \A l \in Lidars : Span(l) <= Size

(* QueuePushAny and QueuePrePop copy frames with memcpy and no lock: the   *)
(* two threads are never in the same slot of the same ring.                *)
NoSlotRace ==
  ~ /\ store_pc = "write"
    /\ poll_pc = "copy"
    /\ store_lidar = poll_lidar
    /\ Slot(wr_own[store_lidar]) = Slot(rd_own[poll_lidar])

(* GetCount is read without the mutex and then acted upon, yet with one    *)
(* storage thread Signal never raises the count above one: the semaphore   *)
(* cannot pile up wake-ups while the poll thread is busy.                  *)
SemaphoreBinary == count <= 1

Waiting(l) == wr_own[l] # rd_own[l]

(* The poll thread still has to look at the ring of l in this scan.        *)
WillVisit(l) == poll_pc \in {"scan"} \union AtLidarPCs /\ poll_lidar <= l

(* The storage thread is between storing a frame for l and its wake-up.    *)
WillSignal(l) == store_lidar = l /\ store_pc \in {"empty?", "count?", "signal"}

(* No lost wake-up: Signal is skipped when the count is already positive,  *)
(* and still a frame in the ring of a sampling lidar is never left behind: *)
(* a wake-up is pending or about to be sent, or the current scan will get  *)
(* there.  Only a lidar that began sampling on a ring that already held    *)
(* frames (late) waits for its next frame.  It takes a machine that does   *)
(* not delay the stores of the indices.                                    *)
NoLostWakeup ==
  ~setup.store_buffer => \A l \in Lidars :
    (connect_state[l] = "Sampling" /\ Waiting(l) /\ l \notin late /\ ~request_exit)
      => count > 0 \/ WillSignal(l) \/ WillVisit(l)

(* The invariants that make the three properties above inductive.          *)
RingInv ==
  /\ RingWindow
  /\ store_pc \in {"write", "advance"} => Span(store_lidar) < Size
  /\ poll_pc \in {"copy", "update"} => wr_idx[poll_lidar] # rd_own[poll_lidar]

SemaphoreInv ==
  /\ count \in {0, 1}
  /\ store_pc = "signal" => count = 0

WakeupInv == ~setup.store_buffer =>
  /\ \A l \in Lidars : rd_idx[l] = rd_own[l] /\ wr_idx[l] = wr_own[l]
  /\ \A l \in Lidars : ~allocated[l] => wr_own[l] = rd_own[l]
  /\ store_pc # "idle" => allocated[store_lidar]
  /\ NoLostWakeup

-----------------------------------------------------------------------------
(* The refinement: the frames between rd_own and wr_own, oldest first.     *)
Ahead(r, n) == IF r + n < Width THEN r + n ELSE r + n - Width

StoredIn(l) ==
  [i \in 1 .. Used(wr_own[l], rd_own[l]) |->
     storage_packet[l][Slot(Ahead(rd_own[l], i - 1))]]

StoredFrames == [l \in Lidars |-> StoredIn(l)]

Channel == INSTANCE FrameChannel WITH queue <- StoredFrames, Capacity <- Size

(* The rings, indices and two threads implement a bounded FIFO per lidar:  *)
(* no frame is duplicated, reordered, torn or lost once stored.            *)
ImplementsFrameChannel == Channel!Spec

(* What the two threads hold while they copy: the invariant the refinement *)
(* needs beside RingInv.                                                   *)
ContentInv ==
  /\ store_pc # "idle" => store_frame \in Frames
  /\ store_pc = "advance" =>
       storage_packet[store_lidar][Slot(wr_own[store_lidar])] = store_frame
  /\ poll_pc = "update" =>
       pkg = storage_packet[poll_lidar][Slot(rd_own[poll_lidar])]

-----------------------------------------------------------------------------
(* A wake-up does its work: once frames stop arriving, every frame stored  *)
(* for a sampling lidar is published, unless the node is exiting.          *)
QuietMeansDrained ==
  ~setup.store_buffer /\ <>[](store_pc = "idle") =>
    \A l \in Lidars :
      <>[](connect_state[l] = "Sampling" /\ l \notin late /\ ~request_exit => ~Waiting(l))

(* The poll thread is not for ever at one lidar: it drains a ring faster   *)
(* than the lidar fills it.                                                *)
PublisherKeepsUp == ~<>[](poll_pc \in AtLidarPCs)

(* While frames keep arriving, a frame that waits in the ring of a         *)
(* sampling lidar is reached, whatever wake-up a delayed store has lost.   *)
StreamIsServed ==
  setup.streaming /\ PublisherKeepsUp =>
    \A l \in Lidars :
      (connect_state[l] = "Sampling" /\ Waiting(l))
        ~> ((poll_pc \in {"copy", "update"} /\ poll_lidar = l) \/ request_exit)

(* ~DriverNode: while frames keep arriving, RequestExit is followed by the *)
(* end of the poll thread and its join returns.  (The join of the IMU      *)
(* thread, which comes next, is not modelled.)                             *)
ShutdownCompletes ==
  setup.streaming /\ PublisherKeepsUp => (request_exit ~> main_pc = "joined")

(* With xfer_format 2 a ROS 2 build takes nothing from the ring and spins  *)
(* on the first lidar that holds a frame: it spins only until the exit is  *)
(* requested, so while frames arrive the node can still be stopped.        *)
SpinStillExits ==
  setup.streaming /\ setup.xfer_format = "pcl" => (request_exit ~> main_pc = "joined")
=============================================================================
