----------------------------- MODULE LioProperties -----------------------------
(* What must hold of LioPipeline, besides what ScanSync promises it.          *)
EXTENDS LioPipeline, ScanSyncProperties

\* imu_processing.hpp, 238-327: each scan takes the filter from the end of the
\* last one to its own, however the measurements fall and whichever groups had
\* none: what is predicted over adds up without a gap or an overlap.
FilterAtScanEnd == undistorted /\ "imu" \notin looped => filter_time = last_end

\* integrateIMU, 464-493: the pose that is published with the stamp of a
\* measurement is not one of a later time.  It is one of an earlier time by what
\* came in between the end of the last scan and its processing.
PoseNotAhead == preintegration /\ "imu" \notin looped => pose_time <= last_imu

\* mapIncremental, 663: what is added to the map is the scan that has just come,
\* undistorted with its own measurements.
MapsOwnScan ==
  [][map' # map => /\ map'[Len(map')].scan = group'.lidar
                   /\ group' = meas' /\ group'.imu # <<>>]_lioVars
=============================================================================
