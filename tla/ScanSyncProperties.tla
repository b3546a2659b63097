------------------------- MODULE ScanSyncProperties -------------------------
(***************************************************************************)
(* What must hold of ScanSync.                                             *)
(***************************************************************************)
EXTENDS ScanSync

Groups == [lidar : Scans \union {NoScan}, beg : Nat, end : Nat, imu : Seq(Stamps)]

(* Every variable has its type, and a scan waits only together with its    *)
(* stamp: syncPackages takes both fronts after looking at lidar_buffer_.   *)
TypeOK ==
  /\ lidar_buffer \in Seq(Scans) /\ time_buffer \in Seq(Stamps)
  /\ Len(time_buffer) >= Len(lidar_buffer)
  /\ imu_buffer \in Seq(Stamps)
  /\ last_lidar \in Nat /\ last_imu \in Nat
  /\ lidar_pushed \in BOOLEAN /\ meas \in Groups
  /\ preintegration \in BOOLEAN /\ imu_queue \in Seq(Stamps)
  /\ group \in Groups
  /\ integrated \in Seq(Stamps)
  /\ used \in Seq(Stamps) /\ seen \in Seq(Stamps)
  /\ looped \in SUBSET {"lidar", "imu"}
  /\ scans \in Nat /\ imus \in Nat

-----------------------------------------------------------------------------
(* "Lidar loopback detected, clearing buffers": the group handed to the    *)
(* filter carries the time of its own scan, always; a scan with the time   *)
(* of another is undistorted with the wrong measurements.                  *)
ScanHasItsTime == group.beg = group.lidar.stamp

(* The two buffers hold the same scans, so their fronts belong together.   *)
BuffersAligned ==
  /\ Len(time_buffer) = Len(lidar_buffer)
  /\ \A i \in DOMAIN lidar_buffer : time_buffer[i] = lidar_buffer[i].stamp

(* The scan syncPackages holds while it waits for the IMU is the one it    *)
(* will take out of the buffer.                                            *)
HeldIsFirst ==
  lidar_pushed => /\ lidar_buffer # <<>>
                  /\ meas.lidar = Head(lidar_buffer)
                  /\ meas.beg = meas.lidar.stamp

Paired == BuffersAligned /\ HeldIsFirst /\ ScanHasItsTime

(* Until a scan jumps back, every scan reaches the filter with its own     *)
(* time, however long it is held and however many scans queue up behind.   *)
PairingInv == "lidar" \notin looped => Paired

-----------------------------------------------------------------------------
(* No measurement is lost, repeated or reordered between the subscription  *)
(* and the filter, but for those an IMU loopback throws away.              *)
ImuInOrder == seen = used \o imu_buffer

(* A group has all the measurements up to the end of its scan: until the   *)
(* IMU jumps back, what is left in the buffer, and what is still to come,  *)
(* is not older than the end of the last scan handed over.                 *)
ImuComplete ==
  "imu" \notin looped => /\ last_imu >= group.end
                         /\ \A i \in DOMAIN imu_buffer : imu_buffer[i] >= group.end

-----------------------------------------------------------------------------
(* "Assume that timestamps are sufficiently close": a pair integrateIMU    *)
(* integrates over starts at the measurement received just before.         *)
FromTheLast == integrated' # integrated => integrated'[1] = last_imu

(* It is so until the IMU jumps back, which leaves the static queue as it  *)
(* is: the first pair afterwards starts at a measurement from before.      *)
IntegratesNeighbours == [][("imu" \notin looped) => FromTheLast]_vars
=============================================================================
