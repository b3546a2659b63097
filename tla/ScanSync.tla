------------------------------ MODULE ScanSync ------------------------------
(***************************************************************************)
(* How the LiDAR-inertial odometry (spark_fast_lio.cpp) pairs LiDAR scans  *)
(* with the IMU measurements taken while they were recorded.               *)
(*                                                                         *)
(* The subscriptions fill the buffers, a 1 ms timer runs syncPackages and, *)
(* when a scan and its measurements are complete, processLidarAndImu.      *)
(* Each of them runs to its end under buffer_mutex_ or in the node's       *)
(* mutually exclusive callback group, so each is one action; what can go   *)
(* wrong is the order of the messages and of their stamps.                 *)
(***************************************************************************)
EXTENDS Naturals, Sequences, FiniteSets

CONSTANTS
  MaxTime,     \* bound: stamps are 1 .. MaxTime
  Durations,   \* how long a scan takes (from its last point, or the mean)
  MaxScans,    \* bound: scans received
  MaxImu       \* bound: IMU measurements received

ASSUME SyncAssumption ==
  /\ MaxTime \in Nat /\ MaxScans \in Nat /\ MaxImu \in Nat
  /\ Durations \subseteq Nat

Stamps  == 1 .. MaxTime
Scans   == [stamp : Stamps, dur : Durations]
NoScan  == [stamp |-> 0, dur |-> 0]
NoGroup == [lidar |-> NoScan, beg |-> 0, end |-> 0, imu |-> <<>>]

VARIABLES
  lidar_buffer,    \* lidar_buffer_
  time_buffer,     \* time_buffer_
  imu_buffer,      \* imu_buffer_, by stamp
  last_lidar,      \* last_lidar_timestamp_
  last_imu,        \* last_imu_timestamp_
  lidar_pushed,    \* lidar_pushed_
  meas,            \* Measures_; meas.end is lidar_end_time_
  preintegration,  \* kf_for_preintegration_ has a value
  imu_queue,       \* the static queue of integrateIMU
  group,           \* the last group handed to processLidarAndImu
  integrated,      \* the last pair integrateIMU integrated over
  used, seen,      \* history: IMU measurements handed over, received
  looped,          \* history: whose stamps have jumped back between messages
  scans, imus      \* how many messages came

imuVars    == <<imu_buffer, last_imu, imu_queue, integrated, seen, imus>>
lidarVars  == <<lidar_buffer, time_buffer, last_lidar, scans>>
vars == <<lidarVars, imuVars, lidar_pushed, meas, preintegration, group, used, looped>>

\* The two time stamps start at now(), which a replayed message may precede.
Init ==
  /\ lidar_buffer = <<>> /\ time_buffer = <<>> /\ imu_buffer = <<>>
  /\ last_lidar \in 0 .. MaxTime /\ last_imu \in last_lidar .. MaxTime
  /\ lidar_pushed = FALSE /\ meas = NoGroup
  /\ preintegration = FALSE /\ imu_queue = <<>>
  /\ group = NoGroup /\ integrated = <<>>
  /\ used = <<>> /\ seen = <<>> /\ looped = {}
  /\ scans = 0 /\ imus = 0

-----------------------------------------------------------------------------
(* standardLiDARCallback.                                                  *)

\* Mutant of LidarCallback: a scan that is not newer than the last is skipped,
\* its stamp is not.
LidarCallbackSkip(s, d) ==
  /\ scans < MaxScans /\ scans' = scans + 1
  /\ looped' = IF scans > 0 /\ s < last_lidar THEN looped \union {"lidar"} ELSE looped
  /\ lidar_buffer' = IF s <= last_lidar THEN lidar_buffer
                     ELSE Append(lidar_buffer, [stamp |-> s, dur |-> d])
  /\ time_buffer' = Append(time_buffer, s)
  /\ last_lidar' = s
  /\ UNCHANGED <<imuVars, lidar_pushed, meas, preintegration, group, used>>

\* A scan that jumps back empties the buffer of scans, and only that.
LidarCallback(s, d) ==
  /\ scans < MaxScans /\ scans' = scans + 1
  /\ looped' = IF scans > 0 /\ s < last_lidar THEN looped \union {"lidar"} ELSE looped
  /\ lidar_buffer' = Append(IF s < last_lidar THEN <<>> ELSE lidar_buffer,
                            [stamp |-> s, dur |-> d])
  /\ time_buffer' = Append(time_buffer, s)
  /\ last_lidar' = s
  /\ UNCHANGED <<imuVars, lidar_pushed, meas, preintegration, group, used>>

-----------------------------------------------------------------------------
(* imuCallback and integrateIMU.                                           *)

\* Two measurements are integrated over and the older one leaves the queue.
Integrate(t) ==
  LET queue == Append(imu_queue, t) IN
  IF Len(queue) < 2
  THEN imu_queue' = queue /\ UNCHANGED integrated
  ELSE /\ imu_queue' = Tail(queue)
       /\ integrated' = IF queue[2] > queue[1] THEN <<queue[1], queue[2]>> ELSE integrated

\* A measurement that jumps back empties the buffer and ends the preintegration.
ImuCallback(t) ==
  /\ imus < MaxImu /\ imus' = imus + 1
  /\ looped' = IF imus > 0 /\ t < last_imu THEN looped \union {"imu"} ELSE looped
  /\ last_imu' = t
  /\ IF t < last_imu
     THEN /\ imu_buffer' = <<t>> /\ seen' = Append(used, t)
          /\ preintegration' = FALSE
          /\ UNCHANGED <<imu_queue, integrated>>
     ELSE /\ imu_buffer' = Append(imu_buffer, t) /\ seen' = Append(seen, t)
          /\ IF preintegration THEN Integrate(t) ELSE UNCHANGED <<imu_queue, integrated>>
          /\ UNCHANGED preintegration
  /\ UNCHANGED <<lidarVars, lidar_pushed, meas, group, used>>

-----------------------------------------------------------------------------
(* main: syncPackages and processLidarAndImu.                              *)

Ready == lidar_buffer # <<>> /\ imu_buffer # <<>>

\* The scan at the front is held until its measurements are there.
Held ==
  IF lidar_pushed THEN meas
  ELSE [meas EXCEPT !.lidar = Head(lidar_buffer), !.beg = Head(time_buffer),
                    !.end = Head(time_buffer) + Head(lidar_buffer).dur]

Hold ==
  /\ Ready
  /\ last_imu < Held.end
  /\ meas' = Held /\ lidar_pushed' = TRUE
  /\ UNCHANGED <<lidarVars, imuVars, preintegration, group, used, looped>>

\* Mutant of Taken: the loop stops half way.
TakenHalf(end) ==
  Cardinality({i \in DOMAIN imu_buffer : 2 * imu_buffer[i] <= end})

\* How many measurements the loop takes: those before the end of the scan, and
\* one at the end if any came before it.
Taken(end) ==
  IF imu_buffer[1] >= end THEN 0
  ELSE Cardinality({i \in DOMAIN imu_buffer :
                      imu_buffer[i] <= end /\ \A j \in 1 .. i - 1 : imu_buffer[j] < end})

\* What stays in the buffer after n measurements were taken from its front.
Rest(n) == SubSeq(imu_buffer, n + 1, Len(imu_buffer))

\* Mutant of Take: the measurements need only reach the beginning of the scan.
TakeEarly ==
  /\ Ready
  /\ last_imu >= Held.beg
  /\ LET n == Taken(Held.end)
     IN /\ group' = [Held EXCEPT !.imu = SubSeq(imu_buffer, 1, n)]
        /\ meas' = group'
        /\ imu_buffer' = Rest(n)
        /\ used' = used \o group'.imu
  /\ lidar_buffer' = Tail(lidar_buffer) /\ time_buffer' = Tail(time_buffer)
  /\ lidar_pushed' = FALSE
  /\ UNCHANGED <<last_lidar, scans, last_imu, imu_queue, integrated, seen, imus, looped>>

\* syncPackages: the group is complete; its measurements leave the buffer.
Take ==
  /\ Ready
  /\ last_imu >= Held.end
  /\ LET n == Taken(Held.end)
     IN /\ group' = [Held EXCEPT !.imu = SubSeq(imu_buffer, 1, n)]
        /\ meas' = group'
        /\ imu_buffer' = Rest(n)
        /\ used' = used \o group'.imu
  /\ lidar_buffer' = Tail(lidar_buffer) /\ time_buffer' = Tail(time_buffer)
  /\ lidar_pushed' = FALSE
  /\ UNCHANGED <<last_lidar, scans, last_imu, imu_queue, integrated, seen, imus, looped>>

\* The filter of the preintegration is set unless processing ends early.
Emit == Take /\ preintegration' \in {preintegration, TRUE}

-----------------------------------------------------------------------------
Next ==
  \/ \E s \in Stamps, d \in Durations : LidarCallback(s, d)
  \/ \E t \in Stamps : ImuCallback(t)
  \/ Hold
  \/ Emit

Spec == Init /\ [][Next]_vars
=============================================================================
