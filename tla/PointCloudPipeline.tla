------------------------- MODULE PointCloudPipeline -------------------------
(***************************************************************************)
(* The point cloud path of livox_ros_driver2, from Lds::PushLidarData to   *)
(* the ROS publisher, with the threads that run it:                        *)
(*                                                                         *)
(*  - the storage thread (PubHandler::RawDataProcess) hands finished       *)
(*    frames to Lds::StoragePointData, which pushes each into the ring of  *)
(*    its lidar and wakes the poll thread through pcd_semaphore_;          *)
(*  - the poll thread (DriverNode::PointCloudDataPollThread) waits on the  *)
(*    semaphore, scans every lidar, and empties the rings of those that    *)
(*    are sampling;                                                        *)
(*  - an SDK thread moves a lidar to kConnectStateSampling;                *)
(*  - the main thread destroys the node and joins the poll thread.         *)
(*                                                                         *)
(* The rings are lock-free: rd_idx and wr_idx are volatile, with no fence  *)
(* between a store to one and the load of the semaphore's count.  With     *)
(* store_buffer in the setup each thread's index store may stay in the core's     *)
(* store buffer, where only that thread sees it (wr_own, rd_own), until it *)
(* drains or the thread takes a mutex; FALSE is a sequentially consistent  *)
(* machine.                                                                *)
(***************************************************************************)
EXTENDS RingIndex, Sequences

CONSTANTS
  LidarCount,      \* lidar_count_ (kMaxSourceLidar)
  Frames,          \* frame contents: (base_time, points)
  NoFrame,         \* the content of a slot that was never written
  Setups           \* the builds, machines and lidars the driver may meet

ASSUME PipelineAssumption ==
  /\ LidarCount \in Nat \ {0}
  /\ NoFrame \notin Frames
  /\ Setups \subseteq [xfer_format : {"cloud2", "custom", "pcl"},  \* 0, 1, 2
                       store_buffer : BOOLEAN,  \* may index stores be delayed?
                       streaming : BOOLEAN]     \* do the lidars keep sending?

Lidars == 0 .. LidarCount - 1

VARIABLES
  setup,           \* where the driver runs; it never changes
  connect_state,   \* lidars_[l].connect_state
  allocated,       \* lidars_[l].data.storage_packet # nullptr
  storage_packet,  \* the slots of the ring of l
  wr_idx, rd_idx,  \* the indices in memory
  wr_own,          \* wr_idx as the storage thread sees it
  rd_own,          \* rd_idx as the poll thread sees it
  count,           \* pcd_semaphore_.count_
  request_exit,    \* request_exit_
  exit_signal,     \* exit_signal_ has its value
  store_pc, store_lidar, store_frame,  \* the storage thread
  poll_pc, poll_lidar, pkg,            \* the poll thread
  main_pc,                             \* the main thread
  published,       \* the last frame published for l
  late             \* history: lidars that began sampling on a non-empty ring

ringVars  == <<allocated, storage_packet, wr_idx, rd_idx, wr_own, rd_own>>
storeVars == <<store_pc, store_lidar, store_frame>>
pollVars  == <<poll_pc, poll_lidar, pkg, published>>
mainVars  == <<main_pc, request_exit, exit_signal>>
vars == <<setup, connect_state, ringVars, count, storeVars, pollVars, mainVars, late>>

Init ==
  /\ setup \in Setups
  /\ connect_state = [l \in Lidars |-> "Off"]
  /\ allocated = [l \in Lidars |-> FALSE]
  /\ storage_packet = [l \in Lidars |-> [s \in Slots |-> NoFrame]]
  /\ wr_idx = [l \in Lidars |-> 0] /\ wr_own = [l \in Lidars |-> 0]
  /\ rd_idx = [l \in Lidars |-> 0] /\ rd_own = [l \in Lidars |-> 0]
  /\ count = 0
  /\ request_exit = FALSE /\ exit_signal = FALSE
  /\ store_pc = "idle" /\ store_lidar = 0 /\ store_frame = NoFrame
  /\ poll_pc = "distribute" /\ poll_lidar = 0 /\ pkg = NoFrame
  /\ main_pc = "run"
  /\ published = [l \in Lidars |-> NoFrame]
  /\ late = {}

-----------------------------------------------------------------------------
(* The storage thread: Lds::PushLidarData.                                 *)

\* A frame for l enters PushLidarData; the first one allocates the ring.
BeginPush(l, f) ==
  /\ store_pc = "idle"
  /\ store_pc' = "full?" /\ store_lidar' = l /\ store_frame' = f
  /\ allocated' = [allocated EXCEPT ![l] = TRUE]
  /\ UNCHANGED <<setup, connect_state, storage_packet, wr_idx, rd_idx, wr_own, rd_own,
                 count, pollVars, mainVars, late>>

\* Mutant of CheckFull: a discarded frame does not signal.
CheckFullSilent ==
  /\ store_pc = "full?"
  /\ store_pc' = IF QueueIsFull(wr_own[store_lidar], rd_idx[store_lidar])
                 THEN "idle" ELSE "write"
  /\ UNCHANGED <<setup, connect_state, ringVars, count, store_lidar, store_frame,
                 pollVars, mainVars, late>>

\* A full ring discards the new frame and goes straight to the semaphore.
CheckFull ==
  /\ store_pc = "full?"
  /\ store_pc' = IF QueueIsFull(wr_own[store_lidar], rd_idx[store_lidar])
                 THEN "count?" ELSE "write"
  /\ UNCHANGED <<setup, connect_state, ringVars, count, store_lidar, store_frame,
                 pollVars, mainVars, late>>

\* QueuePushAny copies the frame into its slot ...
WriteSlot ==
  /\ store_pc = "write"
  /\ store_pc' = "advance"
  /\ storage_packet' =
       [storage_packet EXCEPT ![store_lidar][Slot(wr_own[store_lidar])] = store_frame]
  /\ UNCHANGED <<setup, connect_state, allocated, wr_idx, rd_idx, wr_own, rd_own, count,
                 store_lidar, store_frame, pollVars, mainVars, late>>

\* ... and then advances wr_idx.
AdvanceWr ==
  /\ store_pc = "advance"
  /\ store_pc' = "empty?"
  /\ wr_own' = [wr_own EXCEPT ![store_lidar] = Succ(@)]
  /\ wr_idx' = IF setup.store_buffer THEN wr_idx ELSE wr_own'
  /\ late' = late \ {store_lidar}
  /\ UNCHANGED <<setup, connect_state, allocated, storage_packet, rd_idx, rd_own, count,
                 store_lidar, store_frame, pollVars, mainVars>>

\* The poll thread may already have taken the frame.
CheckEmpty ==
  /\ store_pc = "empty?"
  /\ store_pc' = IF QueueIsEmpty(wr_own[store_lidar], rd_idx[store_lidar])
                 THEN "idle" ELSE "count?"
  /\ UNCHANGED <<setup, connect_state, ringVars, count, store_lidar, store_frame,
                 pollVars, mainVars, late>>

\* Mutant of ReadCount: it signals only below zero.
ReadCountNegative ==
  /\ store_pc = "count?"
  /\ store_pc' = IF count < 0 THEN "signal" ELSE "idle"
  /\ UNCHANGED <<setup, connect_state, ringVars, count, store_lidar, store_frame,
                 pollVars, mainVars, late>>

\* GetCount reads count_ without the semaphore's mutex.
ReadCount ==
  /\ store_pc = "count?"
  /\ store_pc' = IF count <= 0 THEN "signal" ELSE "idle"
  /\ UNCHANGED <<setup, connect_state, ringVars, count, store_lidar, store_frame,
                 pollVars, mainVars, late>>

\* Semaphore::Signal; its mutex drains the thread's store buffer.
Signal ==
  /\ store_pc = "signal"
  /\ wr_idx = wr_own
  /\ count' = count + 1
  /\ store_pc' = "idle"
  /\ UNCHANGED <<setup, connect_state, ringVars, store_lidar, store_frame, pollVars,
                 mainVars, late>>

\* A delayed store of wr_idx reaches memory.
DrainWr(l) ==
  /\ wr_idx[l] # wr_own[l]
  /\ wr_idx' = [wr_idx EXCEPT ![l] = Succ(@)]
  /\ UNCHANGED <<setup, connect_state, allocated, storage_packet, rd_idx, wr_own, rd_own,
                 count, storeVars, pollVars, mainVars, late>>

-----------------------------------------------------------------------------
(* The poll thread: PointCloudDataPollThread, DistributePointCloudData,    *)
(* PollingLidarPointCloudData and Publish{Pointcloud2,CustomPointcloud}.   *)

CheckExit ==
  /\ poll_pc = "distribute"
  /\ poll_pc' = IF request_exit THEN "future?" ELSE "wait"
  /\ UNCHANGED <<setup, connect_state, ringVars, count, storeVars, poll_lidar, pkg,
                 published, mainVars, late>>

\* Mutant of Wait: the scan goes on where the last one stopped.
WaitNoRewind ==
  /\ poll_pc = "wait"
  /\ rd_idx = rd_own
  /\ count > 0
  /\ count' = count - 1
  /\ poll_pc' = "scan"
  /\ UNCHANGED <<setup, connect_state, ringVars, storeVars, poll_lidar, pkg, published,
                 mainVars, late>>

\* Semaphore::Wait; its mutex drains the thread's store buffer.
Wait ==
  /\ poll_pc = "wait"
  /\ rd_idx = rd_own
  /\ count > 0
  /\ count' = count - 1
  /\ poll_pc' = "scan" /\ poll_lidar' = 0
  /\ UNCHANGED <<setup, connect_state, ringVars, storeVars, pkg, published, mainVars, late>>

\* The loop over lidars_: only a sampling lidar with a ring is polled.
Scan ==
  /\ poll_pc = "scan"
  /\ IF poll_lidar = LidarCount
     THEN poll_pc' = "future?" /\ UNCHANGED poll_lidar
     ELSE IF connect_state[poll_lidar] = "Sampling" /\ allocated[poll_lidar]
     THEN poll_pc' = "poll" /\ UNCHANGED poll_lidar
     ELSE poll_pc' = "scan" /\ poll_lidar' = poll_lidar + 1
  /\ UNCHANGED <<setup, connect_state, ringVars, count, storeVars, pkg, published,
                 mainVars, late>>

\* Mutant of Poll: the exit request is not looked at.
PollRegardless ==
  /\ poll_pc = "poll"
  /\ IF ~QueueIsEmpty(wr_idx[poll_lidar], rd_own[poll_lidar])
     THEN /\ poll_pc' = IF setup.xfer_format = "pcl" THEN "poll" ELSE "publish"
          /\ UNCHANGED poll_lidar
     ELSE poll_pc' = "scan" /\ poll_lidar' = poll_lidar + 1
  /\ UNCHANGED <<setup, connect_state, ringVars, count, storeVars, pkg, published,
                 mainVars, late>>

\* while (!IsRequestExit() && !QueueIsEmpty(p_queue)).  PublishPclMsg returns
\* without taking anything from the ring when built for ROS 2.
Poll ==
  /\ poll_pc = "poll"
  /\ IF ~request_exit /\ ~QueueIsEmpty(wr_idx[poll_lidar], rd_own[poll_lidar])
     THEN /\ poll_pc' = IF setup.xfer_format = "pcl" THEN "poll" ELSE "publish"
          /\ UNCHANGED poll_lidar
     ELSE poll_pc' = "scan" /\ poll_lidar' = poll_lidar + 1
  /\ UNCHANGED <<setup, connect_state, ringVars, count, storeVars, pkg, published,
                 mainVars, late>>

\* while (!QueueIsEmpty(queue)) of the publisher: it does not look at the exit.
CheckQueue ==
  /\ poll_pc = "publish"
  /\ poll_pc' = IF QueueIsEmpty(wr_idx[poll_lidar], rd_own[poll_lidar])
                THEN "poll" ELSE "copy"
  /\ UNCHANGED <<setup, connect_state, ringVars, count, storeVars, poll_lidar, pkg,
                 published, mainVars, late>>

\* Mutant of CopySlot: the index is advanced before the slot is read.
CopySlotAhead ==
  /\ poll_pc = "copy"
  /\ poll_pc' = "update"
  /\ pkg' = storage_packet[poll_lidar][Slot(Succ(rd_own[poll_lidar]))]
  /\ UNCHANGED <<setup, connect_state, ringVars, count, storeVars, poll_lidar, published,
                 mainVars, late>>

\* QueuePrePop copies the slot out of the ring ...
CopySlot ==
  /\ poll_pc = "copy"
  /\ poll_pc' = "update"
  /\ pkg' = storage_packet[poll_lidar][Slot(rd_own[poll_lidar])]
  /\ UNCHANGED <<setup, connect_state, ringVars, count, storeVars, poll_lidar, published,
                 mainVars, late>>

\* ... QueuePopUpdate gives the slot back, and the copy is published.
PopUpdate ==
  /\ poll_pc = "update"
  /\ poll_pc' = "publish"
  /\ rd_own' = [rd_own EXCEPT ![poll_lidar] = Succ(@)]
  /\ rd_idx' = IF setup.store_buffer THEN rd_idx ELSE rd_own'
  /\ published' = [published EXCEPT ![poll_lidar] = pkg]
  /\ UNCHANGED <<setup, connect_state, allocated, storage_packet, wr_idx, wr_own, count,
                 storeVars, poll_lidar, pkg, mainVars, late>>

\* Mutant of CheckFuture: the exit signal is ignored.
CheckFutureNever ==
  /\ poll_pc = "future?"
  /\ poll_pc' = "distribute"
  /\ UNCHANGED <<setup, connect_state, ringVars, count, storeVars, poll_lidar, pkg,
                 published, mainVars, late>>

\* future_.wait_for(0) == timeout: another round.
CheckFuture ==
  /\ poll_pc = "future?"
  /\ poll_pc' = IF exit_signal THEN "done" ELSE "distribute"
  /\ UNCHANGED <<setup, connect_state, ringVars, count, storeVars, poll_lidar, pkg,
                 published, mainVars, late>>

\* A delayed store of rd_idx reaches memory.
DrainRd(l) ==
  /\ rd_idx[l] # rd_own[l]
  /\ rd_idx' = [rd_idx EXCEPT ![l] = Succ(@)]
  /\ UNCHANGED <<setup, connect_state, allocated, storage_packet, wr_idx, wr_own, rd_own,
                 count, storeVars, pollVars, mainVars, late>>

-----------------------------------------------------------------------------
(* The SDK thread and the main thread.                                     *)

\* The last pending setting of l is acknowledged.
StartSampling(l) ==
  /\ connect_state[l] # "Sampling"
  /\ connect_state' = [connect_state EXCEPT ![l] = "Sampling"]
  /\ late' = IF wr_own[l] = rd_own[l] THEN late ELSE late \union {l}
  /\ UNCHANGED <<setup, ringVars, count, storeVars, pollVars, mainVars>>

\* ~DriverNode: RequestExit, set_value, and the join of the point cloud thread.  The
\* join of the IMU thread, which sleeps on a semaphore of its own, comes after that
\* and is left out.
RequestExit ==
  /\ main_pc = "run"
  /\ main_pc' = "set_value"
  /\ request_exit' = TRUE
  /\ UNCHANGED <<setup, connect_state, ringVars, count, storeVars, pollVars, exit_signal, late>>

SetValue ==
  /\ main_pc = "set_value"
  /\ main_pc' = "join"
  /\ exit_signal' = TRUE
  /\ UNCHANGED <<setup, connect_state, ringVars, count, storeVars, pollVars, request_exit, late>>

Join ==
  /\ main_pc = "join"
  /\ poll_pc = "done"
  /\ main_pc' = "joined"
  /\ UNCHANGED <<setup, connect_state, ringVars, count, storeVars, pollVars, request_exit,
                 exit_signal, late>>

-----------------------------------------------------------------------------
PushStep == CheckFull \/ WriteSlot \/ AdvanceWr \/ CheckEmpty \/ ReadCount \/ Signal

PollStep == CheckExit \/ Wait \/ Scan \/ Poll \/ CheckQueue \/ CopySlot
              \/ PopUpdate \/ CheckFuture

MainStep == RequestExit \/ SetValue \/ Join

Drain == \E l \in Lidars : DrainWr(l) \/ DrainRd(l)

NewFrame == \E l \in Lidars, f \in Frames : BeginPush(l, f)

Next ==
  \/ NewFrame
  \/ PushStep
  \/ PollStep
  \/ Drain
  \/ \E l \in Lidars : StartSampling(l)
  \/ MainStep

Spec == Init /\ [][Next]_vars

(* The operating system runs each thread, store buffers drain, and the     *)
(* destructor, once begun, goes on.  A lidar of a streaming setup keeps    *)
(* sending; nothing makes another send, or start sampling, or the user     *)
(* stop the node.                                                          *)
Fairness ==
  /\ WF_vars(PushStep)
  /\ WF_vars(PollStep)
  /\ \A l \in Lidars : WF_vars(DrainWr(l)) /\ WF_vars(DrainRd(l))
  /\ WF_vars(SetValue \/ Join)
  /\ WF_vars(setup.streaming /\ NewFrame)

FairSpec == Spec /\ Fairness
=============================================================================
