--------------------------------- MODULE MCLio ---------------------------------
(* Messages that come in order, up to the first that jumps back.               *)
EXTENDS LioProperties

Increasing(s) == \A i \in 1 .. Len(s) - 1 : s[i] < s[i + 1]

\* Stamps increase, and the odometry keeps up.
InOrder ==
  /\ looped = {}
  /\ Len(lidar_buffer) <= 1 /\ Len(imu_buffer) <= 3
  /\ Increasing(time_buffer) /\ Increasing(imu_buffer)

\* Without the histories, which no action reads, and without last_end while it has
\* a value that was never assigned: the first undistortion does not depend on it.
State == <<lidarVars, imu_buffer, last_imu, imu_queue, integrated, imus, lidar_pushed,
           meas, group, preintegration, looped, startup, ekf_inited, need_init, init_iter,
           last_used, IF undistorted THEN <<last_end, filter_time>> ELSE <<>>,
           pose_time, cloud, tree, Len(map), alignment>>
=============================================================================
