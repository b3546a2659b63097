------------------------------- MODULE LocalMap -------------------------------
(***************************************************************************)
(* The part of the map FAST_LIO_ROS2 keeps: a cube that follows the lidar,    *)
(* lasermap_fov_segment, and the points of the ikd-Tree, as a set (PointMap    *)
(* is what the tree stands for).                                            *)
(*                                                                         *)
(* cube_side_length and mapping.det_range are in metres; positions, edges of  *)
(* the cube and points are in twentieths, in which MOV_THRESHOLD * DET_RANGE  *)
(* and mov_dist are whole.                                                  *)
(***************************************************************************)
EXTENDS Integers

CONSTANTS
  Dims,         \* the three axes
  cube_len,     \* cube_side_length
  DET_RANGE,    \* mapping.det_range: the lidar sees no farther
  Steps,        \* how the lidar may move between two scans, as predicted
  Corrections,  \* by how much the filter may correct the prediction
  World,        \* the points there are to be seen
  Far           \* bound: the lidar stays so near to the origin

Vectors == [Dims -> Int]

ASSUME MapAssumption ==
  /\ cube_len \in Nat \ {0} /\ DET_RANGE \in Nat \ {0} /\ Far \in Nat
  /\ Steps \subseteq Vectors /\ Corrections \subseteq Vectors /\ World \subseteq Vectors

VARIABLES
  pos_lid,      \* where the lidar is
  initialized,  \* Localmap_Initialized
  cube,         \* LocalMap_Points
  built,        \* there is a Root_Node
  map,          \* the points in the tree
  segmented,    \* history: where lasermap_fov_segment was last called
  blind,        \* history: the last scan had no points
  outrun        \* history: lasermap_fov_segment was once called too far from there

mapVars == <<pos_lid, initialized, cube, built, map, segmented, blind, outrun>>

-----------------------------------------------------------------------------
Threshold == 30 * DET_RANGE
Edge == 20 * cube_len
Sight == 20 * DET_RANGE

mov_dist == IF 9 * (cube_len - 3 * DET_RANGE) >= 10 * DET_RANGE
            THEN 9 * (cube_len - 3 * DET_RANGE) ELSE 10 * DET_RANGE

Abs(x) == IF x < 0 THEN -x ELSE x
Plus(v, w) == [i \in Dims |-> v[i] + w[i]]
Near(p, at) == \A i \in Dims : Abs(p[i] - at[i]) <= Sight

\* Delete_Point_Boxes: the upper bound is not part of a box.
InBox(p, b) == \A i \in Dims : b[i].min <= p[i] /\ p[i] < b[i].max

\* The axes along which the lidar is near to the lower edge of the cube, and,
\* of the others, those along which it is near to the upper one.
Low(at) == {i \in Dims : Abs(at[i] - cube[i].min) <= Threshold}
High(at) == {i \in Dims \ Low(at) : Abs(at[i] - cube[i].max) <= Threshold}

\* Mutant of Moved: always towards the lower edge.
MovedDown(at) ==
  [i \in Dims |->
    IF i \in Low(at) \union High(at)
    THEN [min |-> cube[i].min - mov_dist, max |-> cube[i].max - mov_dist]
    ELSE cube[i]]

\* New_LocalMap_Points
Moved(at) ==
  [i \in Dims |->
    IF i \in Low(at) THEN [min |-> cube[i].min - mov_dist, max |-> cube[i].max - mov_dist]
    ELSE IF i \in High(at) THEN [min |-> cube[i].min + mov_dist, max |-> cube[i].max + mov_dist]
    ELSE cube[i]]

\* Mutant of cub_needrm: the strip at the edge the lidar is near to.
StripsAhead(at) ==
  {[cube EXCEPT ![i].max = cube[i].min + mov_dist] : i \in Low(at)}
    \union {[cube EXCEPT ![i].min = cube[i].max - mov_dist] : i \in High(at)}

\* Mutant of cub_needrm: the strips are cut off the box that has moved.
StripsOfMoved(at) ==
  {[Moved(at) EXCEPT ![i].min = cube[i].max - mov_dist] : i \in Low(at)}
    \union {[Moved(at) EXCEPT ![i].max = cube[i].min + mov_dist] : i \in High(at)}

\* cub_needrm: along each axis the strip the cube leaves behind, cut off the
\* cube as it was.
cub_needrm(at) ==
  {[cube EXCEPT ![i].min = cube[i].max - mov_dist] : i \in Low(at)}
    \union {[cube EXCEPT ![i].max = cube[i].min + mov_dist] : i \in High(at)}

\* Farther than the cube moves at once, or past both sides of an edge.
TooFar(at) ==
  \E i \in Dims : \/ Abs(at[i] - segmented[i]) > mov_dist
                 \/ Abs(at[i] - segmented[i]) > 2 * Threshold

Kept(at) == {p \in map : \A b \in cub_needrm(at) : ~InBox(p, b)}

-----------------------------------------------------------------------------
MapInit ==
  /\ pos_lid = [i \in Dims |-> 0]
  /\ initialized = FALSE
  /\ cube = [i \in Dims |-> [min |-> 0, max |-> 0]]
  /\ built = FALSE /\ map = {}
  /\ segmented = pos_lid /\ blind = FALSE /\ outrun = FALSE

\* lasermap_fov_segment of the first scan.
Place(at) ==
  /\ cube' = [i \in Dims |-> [min |-> at[i] - 10 * cube_len, max |-> at[i] + 10 * cube_len]]
  /\ initialized' = TRUE

\* lasermap_fov_segment of every other scan.
Segment(at) == cube' = Moved(at) /\ UNCHANGED initialized

\* lasermap_fov_segment; at is the position the IMU predicts.
FovSegment(at) ==
  /\ IF initialized THEN Segment(at) ELSE Place(at)
  /\ segmented' = at /\ blind' = FALSE
  /\ outrun' = (outrun \/ (initialized /\ TooFar(at)))

Trimmed(at) == IF initialized THEN Kept(at) ELSE map

Seen(at) == {p \in World : Near(p, at)}
Within == \A i \in Dims : Abs(pos_lid'[i]) <= Far

\* timer_callback with a scan without points, or one the IMU is still being
\* initialized with: the position is predicted and nothing else is done.
NoPoints(at) ==
  /\ pos_lid' = at /\ Within
  /\ blind' = TRUE
  /\ UNCHANGED <<initialized, cube, built, map, segmented, outrun>>

\* timer_callback with a scan of which few points are left after the downsampling.
Skip(at) ==
  /\ FovSegment(at)
  /\ pos_lid' = at /\ Within
  /\ map' = Trimmed(at)
  /\ UNCHANGED built

\* timer_callback with the scan the tree is built of.
BuildMap(at) ==
  /\ ~built
  /\ FovSegment(at)
  /\ pos_lid' = at /\ Within
  /\ map' \in SUBSET Seen(at)
  /\ built' = TRUE

\* timer_callback with a scan that corrects the position and adds its points.
UpdateMap(at, c) ==
  /\ built
  /\ FovSegment(at)
  /\ pos_lid' = Plus(at, c) /\ Within
  /\ \E S \in SUBSET Seen(pos_lid') : map' = Trimmed(at) \union S
  /\ UNCHANGED built

MapNext ==
  \E d \in Steps :
    \/ NoPoints(Plus(pos_lid, d))
    \/ Skip(Plus(pos_lid, d))
    \/ BuildMap(Plus(pos_lid, d))
    \/ \E c \in Corrections : UpdateMap(Plus(pos_lid, d), c)

MapSpec == MapInit /\ [][MapNext]_mapVars
=============================================================================
