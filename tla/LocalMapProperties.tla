-------------------------- MODULE LocalMapProperties ---------------------------
(* What the odometry expects of the map it keeps.                            *)
EXTENDS LocalMap

Cubes == [Dims -> [min : Int, max : Int]]

\* Every variable has its type, and the cube its size along every axis: both of
\* its corners move.
TypeOK ==
  /\ pos_lid \in Vectors /\ initialized \in BOOLEAN /\ built \in BOOLEAN
  /\ cube \in Cubes /\ map \subseteq World
  /\ segmented \in Vectors /\ blind \in BOOLEAN /\ outrun \in BOOLEAN
  /\ initialized => \A i \in Dims : cube[i].max - cube[i].min = Edge

\* The cube is wide enough for the range of the lidar.
Roomy == Edge > 2 * Threshold + mov_dist

\* The filter corrects the predicted position by no more than half of the range.
Steady == \A c \in Corrections, i \in Dims : Abs(c[i]) <= 10 * DET_RANGE

\* lasermap_fov_segment, 247-272: after a scan with points, all the lidar can see
\* lies in the cube, however it moved, as long as no two calls were too far apart.
\* The test compares distances with fabs: a lidar that is once outside of the cube
\* by more than the threshold is not followed any more.  Scans without points,
\* which move the lidar and not the cube (986-992), may make up such a distance.
SurroundsLidar ==
  initialized /\ ~blind /\ ~outrun =>
    \A i \in Dims : /\ cube[i].min <= pos_lid[i] - Sight
                   /\ pos_lid[i] + Sight < cube[i].max

\* lasermap_fov_segment, 261-272: until two calls were too far apart, the tree
\* holds no point outside of the cube.  A point that is outside is in none of the
\* boxes that are deleted later, and would stay for ever.
MapInCube == ~outrun => \A p \in map : InBox(p, cube)

\* timer_callback, 996, "Segment the map in lidar FOV": no point is deleted that
\* the lidar can see, wherever it has gone.
SeenStays == [][\A p \in map : Near(p, pos_lid') => p \in map']_mapVars
=============================================================================
