--------------------------- MODULE FrameAssembly ---------------------------
(***************************************************************************)
(* How the Livox driver (comm/pub_handler.cpp) assembles the packets of    *)
(* its lidars into frames, the input of the point cloud path.              *)
(*                                                                         *)
(* The SDK's data thread appends each packet to raw_packet_queue_.  One    *)
(* thread, RawDataProcess, takes them, appends their points to the lidar   *)
(* they came from and closes a frame when CheckTimer says so: by the       *)
(* lidar's own stamps when the last packet received, from whatever lidar,  *)
(* had a synchronised one, and by the host's clock when it had not.        *)
(*                                                                         *)
(* Times count units, PerMs of them to a millisecond.  The points of a     *)
(* packet are one record: the stamps of its first and of its last point.   *)
(***************************************************************************)
EXTENDS Integers, Sequences

CONSTANTS
  Lidars,
  PerMs,       \* kRatioOfMsToNs: units of time in a millisecond
  Interval,    \* publish_interval_
  Lengths,     \* from the first point of a packet to its last
  Syncs,       \* whether packets have synchronised stamps: TRUE, FALSE, both
  Stamps,      \* what a synchronised lidar may stamp a packet with
  MaxTime,     \* bound: the host's clock
  MaxPackets   \* bound: packets received

ASSUME FrameAssumption ==
  /\ PerMs \in Nat \ {0}
  /\ Interval \in Nat /\ Interval >= PerMs
  /\ Lengths \subseteq Nat /\ Stamps \subseteq Nat
  /\ Syncs \subseteq BOOLEAN
  /\ MaxTime \in Nat /\ MaxPackets \in Nat

VARIABLES
  now,                 \* high_resolution_clock
  raw_packet_queue,    \* raw_packet_queue_
  is_timestamp_sync,   \* is_timestamp_sync_, one for all lidars
  is_quit,             \* is_quit_
  pc,                  \* where RawDataProcess is
  raw_data,            \* the packet it has taken
  points_clouds,       \* points_clouds_ of each LidarPubHandler
  points,              \* points_: the points of each lidar's last frame
  first, last_pub_time,  \* the static first; last_pub_time_
  published,           \* history: what has been published of each lidar
  count, packets,      \* history: packets with points by lidar; all packets
  unsynced,            \* history: a packet without synchronisation came
  start, ticks         \* history: when the timer was set, how often it ran out

packetVars == <<raw_packet_queue, is_timestamp_sync, count, packets, unsynced>>
cloudVars  == <<points_clouds, points, published>>
timerVars  == <<first, last_pub_time, start, ticks>>
threadVars == <<pc, raw_data, cloudVars, timerVars>>
vars == <<now, is_quit, packetVars, threadVars>>

Packets == [id : Lidars, no : Nat, beg : Nat, end : Nat]

Init ==
  /\ now = 0 /\ is_quit = FALSE
  /\ raw_packet_queue = <<>> /\ is_timestamp_sync = FALSE
  /\ pc = "loop" /\ raw_data = <<>>
  /\ points_clouds = [l \in Lidars |-> <<>>]
  /\ points = [l \in Lidars |-> <<>>]
  /\ first = TRUE /\ last_pub_time = 0
  /\ published = [l \in Lidars |-> <<>>]
  /\ count = [l \in Lidars |-> 0] /\ packets = 0
  /\ unsynced = FALSE /\ start = 0 /\ ticks = 0

-----------------------------------------------------------------------------
(* The SDK's data thread.                                                  *)

\* OnLivoxLidarPointCloudCallback with points.  A packet of an unknown data
\* type has none and keeps the number 0.  Only a synchronised stamp is the
\* lidar's own.
Receive(l, sync, known, t, d) ==
  /\ packets < MaxPackets /\ packets' = packets + 1
  /\ is_timestamp_sync' = sync
  /\ unsynced' = (unsynced \/ ~sync)
  /\ count' = [count EXCEPT ![l] = IF known THEN @ + 1 ELSE @]
  /\ LET beg == IF sync THEN t ELSE now
     IN raw_packet_queue' = Append(raw_packet_queue,
          [id |-> l, no |-> IF known THEN count[l] + 1 ELSE 0, beg |-> beg, end |-> beg + d])
  /\ UNCHANGED <<now, is_quit, threadVars>>

\* The same callback with a measurement of the IMU: it goes the way of the
\* IMU data, and sets the flag all the same.
ReceiveImu(sync) ==
  /\ packets < MaxPackets /\ packets' = packets + 1
  /\ is_timestamp_sync' = sync
  /\ unsynced' = (unsynced \/ ~sync)
  /\ UNCHANGED <<now, is_quit, raw_packet_queue, count, threadVars>>

-----------------------------------------------------------------------------
(* RawDataProcess.                                                         *)

\* The front of the queue is taken under packet_mutex_.
TakeFront ==
  /\ raw_packet_queue # <<>>
  /\ raw_data' = <<Head(raw_packet_queue)>>
  /\ raw_packet_queue' = Tail(raw_packet_queue)
  /\ pc' = "process"

CheckQuit ==
  /\ pc = "loop"
  /\ pc' = IF is_quit THEN "end" ELSE "lock"
  /\ UNCHANGED <<now, is_quit, packetVars, raw_data, cloudVars, timerVars>>

LockQueue ==
  /\ pc = "lock"
  /\ \/ TakeFront
     \/ /\ raw_packet_queue = <<>>
        /\ pc' = "wait"
        /\ UNCHANGED <<raw_packet_queue, raw_data>>
  /\ UNCHANGED <<now, is_quit, is_timestamp_sync, count, packets, unsynced,
                 cloudVars, timerVars>>

\* Mutant of Wake: wait in place of wait_for.
WakeNotified ==
  /\ pc = "wait" /\ TakeFront
  /\ UNCHANGED <<now, is_quit, is_timestamp_sync, count, packets, unsynced,
                 cloudVars, timerVars>>

\* wait_for comes back when notified, after 500 ms, or for no reason.
Wake ==
  /\ pc = "wait"
  /\ \/ TakeFront
     \/ /\ raw_packet_queue = <<>>
        /\ pc' = "loop"
        /\ UNCHANGED <<raw_packet_queue, raw_data>>
  /\ UNCHANGED <<now, is_quit, is_timestamp_sync, count, packets, unsynced,
                 cloudVars, timerVars>>

-----------------------------------------------------------------------------
(* PointCloudProcess and CheckTimer, for the packet taken.                 *)

\* points_clouds_ once the packet is processed.
Added(p) ==
  [points_clouds EXCEPT ![p.id] = IF p.no = 0 THEN @ ELSE Append(@, p)]

Last(s) == s[Len(s)]

\* Mutant of GetRecentTimeStamp: the front of the vector, not the back.
GetRecentTimeStampFront(s) == IF s = <<>> THEN 0 ELSE s[1].end

GetRecentTimeStamp(s) == IF s = <<>> THEN 0 ELSE Last(s).end
GetLidarBaseTime(s)   == IF s = <<>> THEN 0 ELSE s[1].beg

\* The stamps call for a frame.  The difference is unsigned: stamps that went
\* back make it huge.
SyncDue(s) ==
  LET recent == GetRecentTimeStamp(s)
  IN /\ (recent \div PerMs) % (Interval \div PerMs) = 0
     /\ recent \div PerMs # 0
     /\ \/ recent < GetLidarBaseTime(s)
        \/ recent - GetLidarBaseTime(s) >= Interval - PerMs

\* Mutant of Close: points_[id] is not cleared before it is swapped.
CloseSwapped(clouds, ids) ==
  /\ points_clouds' = [l \in Lidars |-> IF l \in ids THEN points[l] ELSE clouds[l]]
  /\ points' = [l \in Lidars |-> IF l \in ids THEN clouds[l] ELSE points[l]]
  /\ published' = [l \in Lidars |->
                     IF l \in ids THEN published[l] \o clouds[l] ELSE published[l]]

\* Frames are closed for the lidars ids: their points are swapped with the
\* cleared points_ and published, in one callback.  A lidar without points is
\* left out.
Close(clouds, ids) ==
  /\ points_clouds' = [l \in Lidars |-> IF l \in ids THEN <<>> ELSE clouds[l]]
  /\ points' = [l \in Lidars |-> IF l \in ids THEN clouds[l] ELSE points[l]]
  /\ published' = [l \in Lidars |->
                     IF l \in ids THEN published[l] \o clouds[l] ELSE published[l]]

Keep(clouds) == points_clouds' = clouds /\ UNCHANGED <<points, published>>

\* CheckTimer with synchronisation: one lidar, by its own stamps.
CheckStamps(clouds, id) ==
  /\ IF SyncDue(clouds[id]) THEN Close(clouds, {id}) ELSE Keep(clouds)
  /\ UNCHANGED timerVars

\* Mutant of CheckClock: the first call publishes.
CheckClockAtOnce(clouds) ==
  \/ /\ first \/ now - last_pub_time >= Interval
     /\ first' = FALSE
     /\ last_pub_time' = IF first THEN now + Interval ELSE last_pub_time + Interval
     /\ start' = IF first THEN now ELSE start
     /\ ticks' = ticks + 1
     /\ Close(clouds, Lidars)
  \/ /\ ~first /\ now - last_pub_time < Interval
     /\ Keep(clouds) /\ UNCHANGED timerVars

\* CheckTimer without: all lidars, every Interval of the host's clock, and as
\* often as that had run out when no packet came.
CheckClock(clouds) ==
  \/ /\ first /\ first' = FALSE
     /\ last_pub_time' = now /\ start' = now
     /\ Keep(clouds) /\ UNCHANGED ticks
  \/ /\ ~first /\ now - last_pub_time < Interval
     /\ Keep(clouds) /\ UNCHANGED timerVars
  \/ /\ ~first /\ now - last_pub_time >= Interval
     /\ last_pub_time' = last_pub_time + Interval
     /\ ticks' = ticks + 1
     /\ Close(clouds, Lidars) /\ UNCHANGED <<first, start>>

Process ==
  /\ pc = "process"
  /\ LET p == raw_data[1]
     IN IF is_timestamp_sync THEN CheckStamps(Added(p), p.id) ELSE CheckClock(Added(p))
  /\ raw_data' = <<>> /\ pc' = "loop"
  /\ UNCHANGED <<now, is_quit, packetVars>>

-----------------------------------------------------------------------------
\* Uninit.
RequestExit ==
  /\ ~is_quit /\ is_quit' = TRUE
  /\ UNCHANGED <<now, packetVars, threadVars>>

Tick ==
  /\ now < MaxTime /\ now' = now + 1
  /\ UNCHANGED <<is_quit, packetVars, threadVars>>

RawDataProcess == CheckQuit \/ LockQueue \/ Wake \/ Process

Next ==
  \/ \E l \in Lidars, sync \in Syncs, known \in BOOLEAN, t \in Stamps, d \in Lengths :
       Receive(l, sync, known, t, d)
  \/ \E sync \in Syncs : ReceiveImu(sync)
  \/ RawDataProcess
  \/ RequestExit
  \/ Tick

Spec == Init /\ [][Next]_vars

FairSpec == Spec /\ WF_vars(RawDataProcess)
=============================================================================
