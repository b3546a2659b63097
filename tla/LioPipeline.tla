------------------------------ MODULE LioPipeline ------------------------------
(***************************************************************************)
(* What spark_fast_lio does with the groups of ScanSync: it skips the first *)
(* scan, initializes the filter from IMU measurements, and then, scan by    *)
(* scan, predicts the filter to the end of the scan (imu_processing.hpp),    *)
(* corrects it, aligns it with gravity and adds the scan to the map.        *)
(*                                                                         *)
(* Poses are left out: of the filter and of the state that imuCallback       *)
(* integrates on, the model keeps the time they stand for.  What the map is  *)
(* trimmed to is in LocalMap, how it is stored in IkdTree.                   *)
(***************************************************************************)
EXTENDS ScanSync, Integers

CONSTANTS
  MaxInit,      \* MAX_INI_COUNT
  InitTime,     \* INIT_TIME
  MovingThr,    \* num_moving_frames_thr_
  GravityThr,   \* num_gravity_measurements_thr_
  Alignments    \* whether gravity alignment is on: the values in question

ASSUME LioAssumption ==
  /\ MaxInit \in Nat /\ InitTime \in Nat /\ MovingThr \in Nat /\ GravityThr \in Nat
  /\ Alignments \subseteq BOOLEAN

VARIABLES
  align,        \* enable_gravity_alignment_ and a base frame; never changes
  first_scan,   \* flg_first_scan_
  first_time,   \* first_lidar_time_
  ekf_inited,   \* flg_EKF_inited_
  need_init,    \* imu_need_init_
  init_iter,    \* init_iter_num, up to the value that ends the initialization
  last_used,    \* the stamp of last_imu_
  last_end,     \* last_lidar_end_time_
  undistorted,  \* history: UndistortPcl has set last_lidar_end_time_
  filter_time,  \* history: the time the filter kf_ stands for
  pose_time,    \* history: the time kf_for_preintegration_ stands for
  cloud,        \* feats_undistort_, as the scan it was made of
  tree,         \* ikd_tree_ has a Root_Node
  map,          \* the scans in the tree, in the order they came
  moving,       \* num_consecutive_moving_frames, up to one more than its threshold
  gravity,      \* size of global_gravity_directions_
  aligned       \* is_gravity_aligned_

imuProcess == <<need_init, init_iter, last_used, last_end, undistorted, filter_time>>
alignment  == <<moving, gravity, aligned>>
startup    == <<align, first_scan, first_time>>
lioVars == <<vars, startup, ekf_inited, imuProcess, pose_time, cloud, tree, map, alignment>>

\* flg_EKF_inited_ and last_lidar_end_time_ are not initialized.
LioInit ==
  /\ Init
  /\ align \in Alignments
  /\ first_scan = TRUE /\ first_time = 0
  /\ ekf_inited \in BOOLEAN
  /\ need_init = TRUE /\ init_iter = 1 /\ last_used = 0
  /\ last_end \in {0, MaxTime, MaxTime + 9}
  /\ undistorted = FALSE /\ filter_time = 0 /\ pose_time = 0
  /\ cloud = NoScan /\ tree = FALSE /\ map = <<>>
  /\ moving = 0 /\ gravity = 0 /\ aligned = FALSE

Least(m, n) == IF m < n THEN m ELSE n
Abs(n) == IF n < 0 THEN -n ELSE n

-----------------------------------------------------------------------------
(* The subscriptions.                                                      *)

LidarCb(s, d) ==
  /\ LidarCallback(s, d)
  /\ UNCHANGED <<startup, ekf_inited, imuProcess, pose_time, cloud, tree, map, alignment>>

\* A pair that is integrated takes the pose on by the time between the two.
ImuCb(t) ==
  LET pair == preintegration /\ t >= last_imu /\ imu_queue # <<>> /\ t > imu_queue[1]
  IN  /\ ImuCallback(t)
      /\ pose_time' = IF pair THEN pose_time + t - imu_queue[1] ELSE pose_time
      /\ UNCHANGED <<startup, ekf_inited, imuProcess, cloud, tree, map, alignment>>

HoldScan ==
  /\ Hold
  /\ UNCHANGED <<startup, ekf_inited, imuProcess, pose_time, cloud, tree, map, alignment>>

-----------------------------------------------------------------------------
(* UndistortPcl, as far as the time of the filter goes.                    *)

\* Mutant of Predicted: the interval to the last scan's end counts again.
PredictedAgain(head, tail) == IF tail < last_end THEN 0 ELSE tail - head

\* How far the filter is predicted between two measurements: not over the time
\* before the end of the last scan.
Predicted(head, tail) ==
  IF tail < last_end THEN 0
  ELSE IF head < last_end THEN tail - last_end ELSE tail - head

\* The loop over v_imu: how far the filter has got at each of its measurements.
Elapsed(v_imu) ==
  LET upto[i \in 1 .. Len(v_imu)] ==
        IF i = 1 THEN 0 ELSE upto[i - 1] + Predicted(v_imu[i - 1], v_imu[i])
  IN  upto[Len(v_imu)]

\* The measurements of a group, after the last one of the group before; and
\* from the last of them to the end of the scan.
Span(imu, end) == Elapsed(<<last_used>> \o imu) + Abs(end - imu[Len(imu)])

UndistortPcl ==
  /\ last_used' = group'.imu[Len(group'.imu)]
  /\ last_end' = group'.end
  /\ undistorted' = TRUE
  /\ filter_time' = IF undistorted THEN filter_time + Span(group'.imu, group'.end)
                    ELSE group'.end
  /\ UNCHANGED <<need_init, init_iter>>

-----------------------------------------------------------------------------
(* processLidarAndImu, by where it ends.                                   *)

\* The first scan only tells the time.
FirstScan ==
  /\ Take
  /\ first_scan
  /\ first_scan' = FALSE /\ first_time' = group'.beg
  /\ UNCHANGED <<align, preintegration, ekf_inited, imuProcess, pose_time, cloud, tree, map,
                 alignment>>

\* Mutant of Cleared: what is left of the last scan stays.
ClearedNot == cloud

\* The clouds are cleared before the scan is looked at.
Cleared == NoScan

Later == Take /\ ~first_scan /\ UNCHANGED startup

\* Process does nothing with a group without measurements.
NoImu ==
  /\ Later
  /\ group'.imu = <<>>
  /\ cloud' = Cleared
  /\ UNCHANGED imuProcess

\* IMU_init
InitImu ==
  /\ Later
  /\ group'.imu # <<>> /\ need_init
  /\ cloud' = Cleared
  /\ init_iter' = Least(init_iter + Len(group'.imu), MaxInit + 1)
  /\ need_init' = (init_iter' <= MaxInit)
  /\ last_used' = group'.imu[Len(group'.imu)]
  /\ UNCHANGED <<last_end, undistorted, filter_time>>

\* UndistortPcl; a scan may have no points.
Undistort ==
  /\ Later
  /\ group'.imu # <<>> /\ ~need_init
  /\ UndistortPcl
  /\ cloud' \in {NoScan, group'.lidar}

Cleaned == NoImu \/ InitImu \/ Undistort

\* "No point, skip this scan!"
NoPoints ==
  /\ Cleaned
  /\ cloud' = NoScan
  /\ UNCHANGED <<preintegration, ekf_inited, pose_time, tree, map, alignment>>

\* What every scan with points goes through: motion is looked for while
\* alignment is due.
Points ==
  /\ Cleaned
  /\ cloud' # NoScan
  /\ IF align /\ ~aligned /\ ekf_inited
     THEN moving' \in {0, Least(moving + 1, MovingThr + 1)} ELSE UNCHANGED moving
  /\ ekf_inited' = (group'.beg - first_time >= InitTime)

\* A scan with at most five points left starts no tree, and one with less than
\* five corrects nothing.
FewPoints ==
  /\ Points
  /\ UNCHANGED <<preintegration, pose_time, tree, map, gravity, aligned>>

\* The first scan with more than five points is the map, uncorrected.
Build ==
  /\ Points
  /\ ~tree /\ tree' = TRUE
  /\ map' = <<[scan |-> cloud', aligned |-> FALSE]>>
  /\ UNCHANGED <<preintegration, pose_time, gravity, aligned>>

\* Gravity is measured while the robot moves, and then the map aligned to it.
Align ==
  IF align /\ ~aligned /\ moving' > MovingThr
  THEN IF gravity < GravityThr THEN gravity' = gravity + 1 /\ UNCHANGED aligned
       ELSE aligned' = TRUE /\ UNCHANGED gravity
  ELSE UNCHANGED <<gravity, aligned>>

\* update_iterated_dyn_share_modified and what follows: odometry, preintegration
\* from here on, and, unless alignment is due, the map.
Update ==
  /\ Points
  /\ tree /\ UNCHANGED tree
  /\ Align
  /\ preintegration' = TRUE
  /\ pose_time' = filter_time'
  /\ map' = IF align /\ ~aligned' THEN map
            ELSE Append(map, [scan |-> cloud', aligned |-> aligned'])

-----------------------------------------------------------------------------
LioNext ==
  \/ \E s \in Stamps, d \in Durations : LidarCb(s, d)
  \/ \E t \in Stamps : ImuCb(t)
  \/ HoldScan
  \/ FirstScan \/ NoPoints \/ FewPoints \/ Build \/ Update

LioSpec == LioInit /\ [][LioNext]_lioVars
=============================================================================
