# TLA+ models of the AgiBot X2 navigation stack

Specifications, model-checking runs and machine-checked proofs for the parts of
this repository where the order of events decides what happens. Every definition
was written from the code under `src/`; `PROJECT.json` gives, for each of them,
the lines it stands for.

## 1. The system

    X2 lidar, IMU -> rectifiers (py_examples) -> spark_fast_lio -> PCD map
      (livox_ros_driver2)                                            |
                                                     lidar_localization_ros2
                                                     (ndt_omp_ros2)  |
                          OctoMap -> Nav2 (agibot_nav) -> /cmd_vel   |
                                                             |       | map->odom
                        cmd_to_aimavel.py (my_nav2_pointcloud_pkg)
                                                             |
                                       /aima/mc/locomotion/velocity (aimdk_msgs)

| Part | State it keeps | Operations | What is hard | Status |
| --- | --- | --- | --- | --- |
| `livox_ros_driver2`, point cloud path (`lds.cpp`, `comm/ldq.cpp`, `lddc.cpp`, `comm/semaphore.cpp`) | one lock-free ring per lidar, one semaphore, connect state | push a frame, wake up, scan the lidars, publish, shut down | two threads without locks, indices that wrap, a count read without its mutex, delayed stores, join at exit | modelled, checked, proved |
| `livox_ros_driver2`, lidar configuration (`call_back/livox_lidar_callback.cpp`, `lds_lidar.cpp`) | index of each lidar, pending settings (`set_bits`), connect state | report of a lidar, requests, answers, retries | two SDK threads, lost and late answers, repeated reports | modelled, checked, proved |
| `livox_ros_driver2`, packet path (`comm/pub_handler.cpp`) | packet queue, synchronisation flag, points per lidar, frame timer | receive a packet, take it, close frames, exit | two rules for closing a frame and one flag that chooses between them for all lidars, vectors swapped between frames, a timer that catches up, nobody to wake the thread at exit | modelled, checked, proved |
| `livox_ros_driver2`, index of the lidars (`comm/cache_index.cpp`) | map from a lidar to its index | get, look up, free | the map is looked up without its lock | which lidars have an index is in `LidarConfig`; the map is not modelled |
| `livox_ros_driver2`, IMU path (`lds.cpp:99`, `lddc.cpp:140`) | mutex-protected queue per lidar, second semaphore | push, wake up, publish until the queue is empty | the same unlocked count, its own thread | not modelled |
| `spark_fast_lio`, synchronisation (`spark_fast_lio.cpp`) | scan, stamp and IMU buffers, held scan, preintegration queue | scan, IMU, timer | stamps in any order, loopbacks that clear some of the state, a scan held across many callbacks | modelled, checked, proved |
| `ikd-Tree` (used by both odometries), the tree itself | k-d tree with ranges, sizes and lazy delete flags | build, insert, delete points and boxes, rebuild in place, nearest neighbours, search by box | flags that wait to be pushed down, ranges that must cover what is deleted and comes back, a search that prunes by them | modelled, checked, proved (`IkdTree`) |
| `ikd-Tree`, background rebuild | rebuild request, operation log, searchers | insert, delete, search, rebuild in the background | rebuild thread against odometry thread and searchers, log replay, subtree swap | modelled, checked; its safety properties proved (`IkdRebuild`) |
| `spark_fast_lio`, odometry pipeline (`spark_fast_lio.cpp`, `imu_processing.hpp`) | filter, initialization, alignment, clouds, preintegration, map | first scan, initialize, predict and undistort, correct, align, map | many early returns over members that outlive them, an interval of time put together from measurements of several groups, two users of the filter | control and time modelled, checked, composed with the synchronisation; its safety properties proved (`LioPipeline`) |
| `spark_fast_lio` measurement model and preprocessing, `ndt_omp_ros2`, `ruckig` | matrices | numeric | numeric | not modelled |
| `FAST_LIO_ROS2` (`laserMapping.cpp`) | as `spark_fast_lio`, which was derived from it; the cube of space the map is kept for | scan, move the cube, insert | the cube must hold the lidar's whole range at any time, moves once per scan, and deletes what it leaves | the cube modelled, checked, proved (`LocalMap`) |
| `lidar_localization_ros2` | lifecycle state, map, pose, last scan | lifecycle callbacks, map, initial pose, odometry, scan | what survives a clean-up, an old scan replayed on a new pose | modelled without the IMU, checked, proved |
| `my_nav2_pointcloud_pkg` (`cmd_to_aimavel.py`) | last command and when it came | command, timer, registration, signal | watchdog against queued commands, late service answers, a signal on top of a callback | modelled, checked, proved |
| `agibot_nav`, `aimdk_msgs`, `examples`, `py_examples`, rapidjson, Livox SDK headers | configuration, message types, single-purpose demonstrations, third-party | | | not modelled |

How the modelled parts interact: the SDK's data thread hands packets to the packet
path, whose thread closes frames and, in `PublishPointCloud`, stores them in the rings
of the point cloud path: `RawDataProcess` is the storage thread of
`PointCloudPipeline`, which therefore has one. The SDK's threads call `LivoxLidarCallback`
(configuration), which moves a lidar to `kConnectStateSampling`; the poll thread of
the point cloud path publishes only lidars in that state. `PointCloudPipeline` has
that transition as the action `StartSampling(l)`, possible at any moment and for any
lidar; `LidarConfig` models when it happens. `spark_fast_lio` receives point clouds
and IMU measurements through ROS, which gives it no guarantee about stamps, and
`ScanSync` therefore takes any. What `syncPackages` emits is processed scan by scan in
`LioPipeline`, which extends `ScanSync` by what the groups are used for; to the map a scan is a whole there:
parallel searches in the ikd-Tree, then insertions and deletions, which is the order
`IkdRebuild` gives its `phase`, and one cycle of `LocalMap`: predict, move the cube and
delete what it leaves, correct, insert. What the tree is to its callers is in all three a set of points;
`IkdTree` is the tree that has to be one. `lidar_localization_ros2` and the velocity bridge are
nodes of their own, and meet the rest through topics only: `Localization` takes scans,
maps and poses at any moment, `VelocityBridge` any commands.

## 2. Modules

| Module | Contents |
| --- | --- |
| `RingIndex` | index arithmetic of `comm/ldq.cpp`: wrap, fill level, full, empty, slot |
| `FrameChannel` | abstract specification: a bounded FIFO of frames per lidar |
| `PointCloudPipeline` | storage thread, poll thread, SDK thread, main thread; `Spec`, `FairSpec` |
| `PointCloudProperties` | properties, invariants and the refinement mapping |
| `MCPointCloud` | the setups of the runs; module of the two `PointCloud*.cfg` |
| `PointCloudProofs` | lemmas on the arithmetic of the ring, theorems on the pipeline |
| `LidarConfig`, `LidarConfigProperties`, `LidarConfigProofs` | the configuration handshake |
| `MCLidarConfig` | the config file of the runs; module of the two `LidarConfig*.cfg` |
| `FrameAssembly`, `FrameAssemblyProperties`, `FrameAssemblyProofs` | the packet path |
| `MCFrameAssembly` | which packets come in the run; module of `FrameAssembly.cfg` |
| `ScanSync`, `ScanSyncProperties`, `ScanSyncProofs` | synchronisation of scans and IMU |
| `LioPipeline`, `LioProperties` | the odometry from the two subscriptions to the map; its theorems are in `ScanSyncProofs` |
| `MCLio` | the messages of the run; module of `LioPipeline.cfg` |
| `VelocityBridge`, `VelocityBridgeProperties`, `VelocityBridgeProofs` | the node between Nav2 and the motion control |
| `MCVelocityBridge` | commands and limits of the run |
| `Localization`, `LocalizationProperties`, `LocalizationProofs` | the lifecycle node that localizes on a map |
| `MCLocalization` | the parameter files of the run |
| `IkdRebuild`, `IkdRebuildProperties`, `IkdProofs` | background rebuild of a subtree of the ikd-Tree |
| `MCIkdRebuild` | points, cells and boxes of the run |
| `PointMap` | abstract specification of the ikd-Tree: a set of points, and what each call with its points, box and result does to it |
| `IkdNode` | a node of the ikd-Tree: its counts, marks and range, `Update`, `PushDown`, the tests that prune, the heap of a search |
| `IkdTree`, `IkdTreeProperties` | the ikd-Tree node by node, its operations as they are called |
| `MCIkdTree` | points, boxes and callers of the run |
| `LocalMap`, `LocalMapProperties` | the cube of the map around the lidar |
| `MCLocalMap` | how the lidar of the run moves, what it may see |
| `MapProofs` | theorems on the map: the ikd-Tree, then the cube |

Operators whose comment begins "Mutant of" are plausible mistakes in one definition,
kept beside it: with the definition replaced by its mutant, the property named in
`PROJECT.json` ("mutants") fails in the run named there.

### 2.1 Point cloud path

Program counters split the code where the other thread can interfere: the storage
thread is `full? -> write -> advance -> empty? -> count? -> signal` (the conditions
and statements of `PushLidarData` and `QueuePushAny` in order), the poll thread is
`distribute -> wait -> scan -> poll -> publish -> copy -> update -> future?` (from
`PointCloudDataPollThread` down to `QueuePopUpdate`). `QueuePrePop`'s copy and
`QueuePushAny`'s copy are steps of their own, because what must not happen is that
they overlap.

`volatile` orders nothing between cores. With `store_buffer` in the setup a thread sees its
own index (`wr_own`, `rd_own`) before the memory does (`wr_idx`, `rd_idx`); a mutex
drains the thread's stores. This is the store order of x86 (TSO). The robot's own
computer is an ARM, which may also reorder the contents of a slot with its index;
that is weaker than what is modelled, and nothing is claimed about it. `setup` is chosen
at the beginning and never changes: the transfer format the node was started with,
whether stores are delayed, and whether the lidars keep sending. A property that holds
on some machines or for some lidars only names that in its hypothesis.

Abstractions: a frame is a model value; one storage thread (`PubHandler` has one);
the ring is allocated at its first frame; the first three seconds of sleep of the
poll thread are nothing but a delay; frames have points (`CheckTimer` drops empty
ones), so that no branch of the publisher ends early; ROS publishing succeeds. The destructor
joins two threads, one after the other; the second, for the IMU (`driver_node.cpp:38`), has its own
semaphore and is left out with its path, so that `ShutdownCompletes` is about the first join.

### 2.2 Lidar configuration

`LidarInfoChangeCallback` is `lock -> request (one step per setting) -> attitude ->
work_mode -> imu`; the answers are separate actions of another thread. `in_flight`
counts requests the SDK has not answered, `applied` is what the lidar has carried
out. A timeout leaves open whether it did. Whether the SDK passes a response with a
timeout is open as well. One SDK thread runs the answers, one the reports: they share
`set_bits` under `config_mutex_`.

`Defined` and `UserConfig` are the config file. A lidar without an entry gets an index
from the point cloud path only after it was reported: at its first report only the work
mode and the IMU are requested; at a second report its zeroed `livox_config` asks for
everything (`Wanted`).

### 2.3 Scan and IMU synchronisation

Subscriptions and timer are one action each: they hold `buffer_mutex_` and the node's
callbacks exclude each other. `syncPackages` is `Hold` (a scan waits for its
measurements) or `Take`; `Emit` adds the abstraction of `processLidarAndImu`: whether it sets
`kf_for_preintegration_`. What else it does is in `LioPipeline`. `looped` records which stream has jumped back between two of
its messages; the first message may precede `now()` at construction (a replayed bag), and `FreshHolds`
proves that to be harmless. Stamps are natural numbers; a scan's duration is free.

### 2.4 Packet path

`Receive` and `ReceiveImu` are the SDK's callback, `RawDataProcess` is
`loop -> lock -> (wait) -> process`, cut where it takes or releases `packet_mutex_`.
`Process` is everything after the lock: the points are appended (`Added`) and
`CheckTimer` decides, with `CheckStamps` (synchronised) or `CheckClock`, whether to
`Close` frames. `Wake` needs no notification: `wait_for` also returns after 500 ms,
and by chance.

Abstractions: the points of a packet are one record with the stamps of its first and
last point, since `CheckTimer` looks at nothing else; coordinates, extrinsic
parameters and lines are left out. The callback sets `is_timestamp_sync_` and appends
the packet in one step; that the thread may run between the two is covered by
`ReceiveImu`, which sets the flag alone. The host's clock does not go back.
`published`, `count`, `unsynced`, `start` and `ticks` are history variables.

### 2.5 Velocity bridge

The node has one thread. `main` is `phase` (`waiting` for the service, `calling` it,
`running`), a callback is `pc`, cut where the signal handler could tell the
difference: `cmd` between the stamp and the assignment of the velocities, `check` and
`send` in `publish_velocity`. Callbacks run while the node spins, thus not while it
waits for the service, when `/cmd_vel` messages only queue up. Python runs a signal
handler between any two steps of the thread, and on top of itself; `sys.exit` in it
abandons what it interrupted, so that `Working` is false from then on.

Time is counted in periods of the timer, up to one more than the watchdog allows
(`Old`). `Tick` lets no period pass in which a spinning node has not run its timer and
taken the commands that were there: the callbacks take microseconds and the period is
of the order of 20 ms. Speeds are integers; `Dead` stands for 0.005. `origin` is a
history variable: how long ago the command behind the velocity was sent.

### 2.6 Localization

One thread runs each callback to its end, so a handler is one step. `cloudReceived` is
also called by `initialPoseReceived`, which `on_activate` calls: handlers are operators from
the members of the node (`node`) to those they leave behind, and the actions apply
them. The lifecycle transitions and the launch file, which asks for the next one when
the node has reached a state, are actions; `Operator` is anybody else who asks for a
transition. `Results` lists how an alignment may end: without a transform, without
convergence, with a pose but no odometry transform, or well; without a target it never
converges, or is undefined.

Poses are told apart by where they come from. Left out: the IMU callback and the
undistortion (numeric, one thread), the path, the transforms broadcast, messages in
another frame (ignored by the code) and odometry that comes too late (ignored). The
scan stamps increase; scans may be lost. `aligned`, `localized`, `odom_lost`, `configured` and `loads_failed`
are history variables.

### 2.7 Background rebuild of the ikd-Tree

`IkdRebuild` is about one subtree, the root's or a son's, large enough to be rebuilt in the
background. Its content is the bag of its valid points. The rebuild thread is `begin ->
quiet -> flatten -> flattened -> build -> replay (<-> run) -> quiet again -> swap ->
swapped -> clear -> free`, cut at each lock and unlock. The searchers are the threads of
the `omp parallel for` of `calcHModel`; the updating thread is `mapIncremental` and
`lasermapFovSegment`, which run between two parallel sections. `todo` holds what is left of
the call the updating thread is in. `map` is the specification the tree is held
against: the points there would be if each operation had been applied once, in order.
`pend` is a deletion that marked the father and has still to be pushed down.

The model makes five faults of the code explicit. After four of them nothing is followed any
more (`fate`), the fifth leaves a mark (`late`). `NothingLost` is about the behaviours without them,
`SearchExcluded` says that only the last can free nodes under somebody's feet:

* `emptied` (`ikd_Tree.cpp:234`, `274`): a subtree whose points are all deleted gives no
  new tree. The log is not looked at, the lock is not taken, and the code reads through
  `new_root_node`, which is null.
* `undeleted` (`277-287`): `Update` makes a father deleted exactly if its point and its
  sons are. A father that was deleted from above, and has not pushed that down yet, is
  undeleted by its new son.
* `unlogged` (`440-445`): `Add_Points` looks at `Rebuild_Ptr` once for a deletion and an
  insertion. The deletion may request a rebuild of the root; the insertion then runs
  without the lock and is not logged.
* `late` (`291-293`): `Rebuild_Ptr` is reset under `working_flag_mutex`, `rebuild_flag` after
  it. An update that waited for the lock logs its operation for a rebuild that is over;
  the next one finds a log that is not empty (`ERROR!!!`, line 200) and repeats it.
* `freed` with `place = "root"` (`430`): `Add_Points` searches the root by range with no lock
  and no count. The rebuild may replace the root and free what it walks.

Abstractions: the decision whether to lock (`Rebuild_Ptr == nullptr || ...`) and a section
under `working_flag_mutex` are one step each, the latter because whoever else touches
its variables needs the mutex, `rebuild_flag` apart, which `ClearFlag` resets without it. A
searcher visits the subtree once per scan. Left out: operations that nobody
calls (`Add_Point_Boxes`, `Delete_Points`, `Box_Search`, `Radius_Search`), the lists of deleted
points (`acquire_removed_points`, diagnostic only), the termination of the thread, the
reset of `Rebuild_Ptr` for a subtree that has shrunk (operations add nodes and mark them deleted;
a subtree that waits for its rebuild does not lose any), a request for a
larger subtree in place of this one, and rebuilds in the foreground, which keep the
content.

### 2.8 The ikd-Tree

`PointMap` is what a caller sees: a set of points, and one action per call. `Add(p)` adds `p`,
`AddDownsampled(p)` leaves one of the points of `p`'s cell, nearest to its centre, `Delete(p)` and `DeleteBox(b)` take out `p` or
what lies in `b`, and `NearestSearch(t, k)` changes nothing. `last` is the last call with its arguments and what it returned (a
history in `IkdTree`), so that an action of the tree can only implement the one it is named after, with the same point,
and only with a result that is true of the set. `IkdTree` has the nodes with the fields that decide
something: point, the three flags and the two that wait to be pushed down, the size of the
subtree, its number of deleted points, its range and its axis. Each operation is one action, since trees
below 1500 points are rebuilt in the thread that calls; the larger ones are `IkdRebuild`.
What the code does to one node (`Update`, `PushDown`, the tests against a box) is in `IkdNode`; its recursive
functions (`BuildTree`, `Flatten`, `AddByPoint`, `Search`, ...) are recursive functions on `Trees`, the trees no deeper than
`MaxDepth`. No tree gets there: it has no more nodes than points there are and operations there were, which is proved. The source is the copy in
`FAST_LIO_ROS2/include/ikd-Tree`; that of `spark_fast_lio` has the same code with another layout.

Two numbers of the code are scaled to trees TLC can afford: a tree is balanced from 3 nodes on and
not from 10 (`Minimal`), and built of at least 3 points (`BuildMin`; both odometries want more than
five). `MaxOps` operations are enough to delete by mark, to come back to the marked part by insertion, to
push the mark down, and to rebuild it, at the root and below. `Wanted` is how many neighbours a search asks for (five in
the code, two in the run). No two points agree in a coordinate: which of
equal points `nth_element` puts where is not determined by the code, and `Delete_by_point` does not find a point
that it put left of its equal.

`Callers` are the odometry and somebody who uses `Delete_Points` as well. For the former the root is never
lost (`RootStays`). For the latter it may be: `Delete_by_point` returns, when it meets the point, before it
updates ranges and flags, so that the root may end up with nothing valid below it and no mark that says so;
the next downsampling rebuilds it to nothing and reads its axis. All else holds for both.

Left out: `Add_Point_Boxes`, `Box_Search`, `Radius_Search` (nobody calls them), the list of removed points, whose
only user throws it away (`laserMapping.cpp:226-231`), `working_flag` of a node and the pointers to fathers.

### 2.9 The cube of the map

`LocalMap` is `lasermap_fov_segment` with what `timer_callback` does around it: the IMU predicts the
position (`Steps`), the cube follows and what it leaves is deleted, the filter corrects the
position (`Corrections`), and points in sight are added. Each way through the callback is an action: `NoPoints` returns before
the cube is looked at (988), `Skip` and `BuildMap` before the correction, `UpdateMap` goes to the end. `cube` is `LocalMap_Points`, `map` the points of the tree, and `built`
says whether there is one. Lengths are in twentieths of a metre, in which
`MOV_THRESHOLD * DET_RANGE` and `mov_dist` are whole. Downsampling is left out: what it deletes it replaces
by a point of the same cell. `lasermapFovSegment` of `spark_fast_lio` has the same text.

A scan without points moves the lidar and not the cube, and any number of them may follow one another. When the
cube is looked at again the lidar may be anywhere: farther away than the cube moves at once, or past its edge by more than the
threshold, where `fabs` no longer counts it as near and the cube stays behind for good. The code has nothing against it. The
history `outrun` records that two calls of `lasermap_fov_segment` were that far apart along an axis (`TooFar`: more than `mov_dist`
or than two thresholds; 130 m with `horizon.yaml`, 300 m with `mid360.yaml`), by one step or by several scans without points
between them. `SurroundsLidar` and `MapInCube` hold until then, and `SurroundsLidar` when the last scan had points (`blind`);
`SeenStays` holds always. The run goes past both, where the first two fail without their hypotheses.

The properties need a cube that is wide enough for the lidar (`Roomy`: its side is more than two thresholds
and one `mov_dist`, that is, more than 3.5 times the range), and a filter that corrects by no more than half of the range (`Steady`). `horizon.yaml` (1000 and 260), `mid360.yaml` (1000 and 100), ouster, velodyne and
robosense are; `avia.yaml` (1000 and 450) and the values the code declares (200 and 300) are not. There the
lidar is within the threshold of both edges at once, the cube moves with every scan of a lidar that stands
still, and `Delete_Point_Boxes` takes points it can see: `SeenStays` fails.

### 2.10 The odometry pipeline

`LioPipeline` extends `ScanSync`: each of its actions is one of `ScanSync`, conjoined with what happens to the
filter, the clouds and the map. A call of `main` that takes a group is one action, told apart by where
`processLidarAndImu` ends: `FirstScan`, `NoPoints` (no measurements, initialization, or a scan without points), `FewPoints`, `Build`,
`Update`. The filter is modelled by the time it stands for: a prediction over `dt` adds `dt`, a
correction changes nothing. `Span` adds the intervals up that `UndistortPcl` predicts over. The last interval
is `note * (end - imu_end)`, an absolute value, as in the code. The state that `integrateIMU` predicts is a second
time. A scan in the map is the scan it was made of and whether it was rotated to gravity.

`flg_EKF_inited_` and `last_lidar_end_time_` have no initial value in the code; they begin with any of several. The first is
assigned before anything depends on it but the count of moving frames, the second makes the time of the filter at its first scan
meaningless, so that `filter_time` begins there at the end of the scan. Which scans have how many points, and whether
the robot moves, is free.

* `FilterAtScanEnd`: predictions add up, whichever measurements a group has.
* `PoseNotAhead`: what is published between scans is not of the future. It is of the past: the filter is
  copied at the end of a scan, the next measurement is only put in the queue, and those that came in while the
  scan was waiting are never integrated; the pose carries the stamp of the newest one.
* `MapsOwnScan`: the clouds are cleared at each scan. `laserMapping.cpp` of `FAST_LIO_ROS2` does not clear
  its own, where `Process` leaves them as they are for a group without measurements.

## 3. Runs

| Run | Instance | Shows |
| --- | --- | --- |
| `point_cloud_ring` | 1 lidar, 2 slots, indices modulo 6, 2 frames, store buffers | `RingWindow`, `NoSlotRace`; the rings implement `FrameChannel` |
| `point_cloud_served` | 2 lidars, 1 slot, three setups: lidars that may fall silent without delayed stores; lidars that keep sending with delayed stores, `xfer_format` 1 and 2 | `NoLostWakeup`, `QuietMeansDrained`, `StreamIsServed`, `ShutdownCompletes`, `SpinStillExits` |
| `lidar_config_safety` | a configured lidar, two unknown ones, 2 indices, 2 reports, errors | `PendingIsRequested`, `SamplingMeansConfigured` |
| `lidar_config_live` | one lidar, errors and timeouts | `PendingLeadsToSampling`, `WorkModeReached` |
| `frame_assembly` | 2 lidars, 3 packets with and without synchronisation, host clock up to 4; or 5 packets of one synchronised lidar | `StreamIntact`, `NeverAhead`, `FramesShort`, `ExitCompletes` |
| `lio_pipeline` | 5 scans, 8 measurements, stamps 1..7, two durations, with and without gravity alignment; messages in order | `PairingInv`, `ImuComplete`, `FilterAtScanEnd`, `PoseNotAhead`, `MapsOwnScan` |
| `scan_sync_lidar_loop` | 3 scans, 4 measurements, any stamps | **violated**: `ScanHasItsTime` |
| `velocity_bridge` | 2 axes, 2 commands, a queue of 2, a watchdog of 2 periods | `SpeedsStartable`, `SignalStops`, `FreshOnceSpinning`, `NavGoneStops` |
| `localization` | 4 parameter files, bounded scans, maps and transitions | `AlignedToLatestMap`, `KeptScanIsLast`, `PublishedIsPose`, `LaunchActivates` |
| `ikd_rebuild` | 2 points in a cell, 2 boxes, 2 searchers, root and son, 4 operations | `NothingLost`, `SearchExcluded`, `RebuildEnds` |
| `ikd_tree` | 6 points in 3 cells, 3 boxes, 2 targets, 2 neighbours, 6 operations, two callers | `CountsRight`, `RangesCover`, `SearchExact`, `RootStays`; the tree implements `PointMap` |
| `local_map` | 2 axes, a cube of 5 times the range, 4 steps of up to two thirds of it, 2 corrections, 3 points, the lidar within 2.25 times the range of the origin | `SurroundsLidar`, `MapInCube`, `SeenStays` |

That every variable has its type is not repeated in the runs: the proofs show it for all
instances (section 5).

Why the bounds are enough. The ring properties relate one writer, one reader and one
ring, and depend on the indices only through their difference and the wrap: two slots
and three laps before the wrap contain an empty, a half-full and a full ring, on
either side of the wrap. The wake-up needs two lidars, because the scan passes one
while the other is filled. Two reports let a report overlap the answers to the one
before; the third lidar finds no index. Three packets of two lidars let one lidar close a frame while the other waits, the flag
change between receipt and processing, and the swapped vector come back; five packets
are enough for a frame that misses its first closing millisecond, reaches the next and
is followed by another. `MCFrameAssembly` keeps these two cases apart, since their product adds
states and no case. Three scans give one that is held, one behind
it and one that jumps back. In the pipeline five scans are the first, one for the
initialization, one for the map and two for the alignment, and eight measurements leave
groups empty, full, and with one at exactly the end of the scan. `InOrder` keeps the messages in order, up to and
including the first that jumps back, and one scan waiting; what holds for any order is proved. `State` leaves the histories
out of the fingerprint, and `last_end` while it has no value of its own, which no action reads then. One slot is
enough for the wake-up, which depends on whether a ring is empty; the ring itself is
checked with two. For the bridge, two axes get a command beyond a limit, below the start threshold
and below the dead band; the commands of a full queue, one of them dropped, are taken in
one period, and the watchdog needs two periods to tell a command that is fresh from one
that is not. For localization, the scans, maps and transitions suffice for a second configuration with a
kept scan, with and without a map. For the ikd-Tree, two points in a cell give every outcome of the
downsampling, and four operations leave one in the copy, one in the log, one between, and one
that waits for the lock at the swap; searchers are interchangeable, and the proof covers any number.
Six operations on the tree build it, empty a part of it, come back to it, and rebuild it. Two axes let the
cube move along both at once, and leave a corner; two scans without points in a row take the lidar
farther than the cube moves at once, and five, after the cube has moved twice, past the threshold beyond an edge.
Most of the safety properties are also proved for every
instance (section 5).

All runs but `ikd_rebuild` say `CHECK_DEADLOCK FALSE`: the driver and the bridge stop when it is shut down, a lidar is
silent when nothing is asked of it, and the bounded runs of `ScanSync`, `LioPipeline`, `LidarConfig`,
`FrameAssembly`, `Localization`, `IkdTree` and `LocalMap` end when their messages or operations are used up.

### Findings

* `scan_sync_lidar_loop`: "Lidar loopback detected, clearing buffers" clears the scans
  and not their stamps; from then on each scan is processed with the time of another.

What the models show without a run of its own, by the hypothesis a property needs, or by reading the definitions:

* "IMU loopback, clearing buffers" leaves the static queue of `integrateIMU`
  (`IntegratesNeighbours` holds only until a stream jumps back): the first pair integrated afterwards spans the loopback.
* `README.md:244` of the driver gives `pcl_data_type` and `pattern_mode` a default; the parser leaves
  -1 (`parse_livox_lidar_cfg.cpp:75-84`), nothing is requested (`Wanted`), and a lidar with no setting at all
  never starts sampling, because only an acknowledgement makes it.
* With `avia.yaml` a lidar that stands still loses points it can see (section 2.9).
* With `Delete_Points` the root of an ikd-Tree may be lost (section 2.8).
* The pose that `integrateIMU` publishes is older than its stamp (section 2.10).
* With delayed stores a wake-up can be lost (without its hypothesis `~setup.store_buffer`,
  `NoLostWakeup` fails): the storage thread reads the count before its `wr_idx` is
  visible. The frame waits for the lidar's next one; `StreamIsServed` shows that this
  is all.
* `~DriverNode` signals neither semaphore: `ShutdownCompletes` holds only while frames
  keep arriving.
* The five faults of the background rebuild (section 2.7); `ikd_rebuild` reaches each.
* A command that was sent before the bridge spun counts as new when it is taken: `last_cmd_time`
  is the time of the callback. `FreshOnceSpinning` holds for the commands that were sent afterwards.
* `odomReceived` dereferences the pose before there is one (`use_odom`, no initial pose).
* After a second configuration a kept scan is aligned to a registration without a target
  (`AlignedToLatestMap` names the case), because `on_cleanup` keeps `map_recieved_`,
  `initialpose_recieved_` and `last_scan_ptr_`.

## 4. Fairness

`FairSpec` of the pipeline: each thread that can go on does (`WF` of the storage
thread, the poll thread and of the rest of the destructor), and a delayed store
reaches memory in the end. Nothing makes a lidar send frames or start sampling, or the user stop the
node, except that in a streaming setup frames keep arriving, which the liveness properties of
the stream need and which a powered lidar does. `PublisherKeepsUp` is an assumption
of two properties and stated in them: the inner loop of the publisher may otherwise stay with one
lidar for ever.

`FairSpec` of the configuration: both threads run; a callback, which needs the mutex
again and again, gets it in the end (`SF`); a request that is repeated for ever
succeeds in the end (`SF` of a success for the settings and the work mode). That a
lidar appears is not assumed.

`FairSpec` of the packet path: `RawDataProcess` goes on when it can. That its wait ends
is the timeout of `wait_for`, and the only reason why `Uninit`, which notifies nothing,
can join the thread (`ExitCompletes`).

`FairSpec` of the bridge: the thread goes on in main and in each callback, and so does
time. `spin_until_future_complete` looks between any two callbacks whether the answer came or
the attempt is over, and thus ends however many commands there are (`SF`). The service may
be absent, Nav2 silent. Signals may interrupt each other but not for ever (`SF` of `Exit`).

`FairSpec` of localization: the launch file asks for the transitions it has to; messages
may stay away.

`FairSpec` of the rebuild: the updating thread and each searcher go on. The rebuild
thread polls the searchers and takes the lock again and again; it gets
through (`SF`), because the searchers leave the subtree again and again, and the odometry
holds the lock for single operations only. No new scan is assumed.

## 5. Proofs

TLAPS checks every theorem for all values of the constants that satisfy the named
assumptions (`RingAssumption`: a positive size that divides the number of index
values and is less than it, as a power of two below 2^32 does; `PipelineAssumption`,
`ConfigAssumption`, `SyncAssumption`: kinds of the constants; `FrameAssumption`: an
interval of at least a millisecond; the driver allows 10 ms and more; `BridgeAssumption`: no minimum above its
maximum, a dead band, a queue; `LocalizationAssumption`: kinds; `IkdAssumption`: finitely many
searchers, cells that are disjoint;
`NodeAssumption`: a positive side of the downsampling grid; `TreeAssumption`: finitely many points, no two of
which agree in a coordinate, parameters of the balance between 1/2 and 1, `Nil` not a node; `MapAssumption`, and `Roomy` and `Steady`
as hypotheses of the theorems about the cube, which the run's instance is checked against).

| Theorem | Argument |
| --- | --- |
| `TypeCorrect` | one step per action; `poll_lidar` is a lidar wherever it is used as one |
| `RingWindowHolds` | `RingInv`: besides the window, the writer between its test and its store has room, and the reader between its test and its update has a frame. The window is a sum of three cyclic distances, so that a delayed store moves one unit from one of them to the next; the lemmas at the beginning of the module have the arithmetic |
| `NoSlotRaceHolds` | from `RingInv`: two indices less than `Size` apart have different slots, because `Size` divides `Width` |
| `SemaphoreBinaryHolds` | `SemaphoreInv`: only the storage thread signals, and between its look and its signal the count cannot rise |
| `NoLostWakeupHolds` | `WakeupInv`, under `~setup.store_buffer`: a ring that waits has a count, a signal under way, or a scan that has not passed it |
| `RefinesFrameChannel` | `RingInv` and `ContentInv` (what the two threads hold while they copy): `AdvanceWr` is `Store`, `PopUpdate` is `Publish`, all else stutters |
| `ConfigTypeCorrect` | one step per action |
| `PendingIsRequestedHolds` | inductive with the types: the bit is set with the request and a retry sends as it returns |
| `ConfigInvHolds`, `SamplingMeansConfiguredHolds` | `ConfigInv`: a request on its way for a lidar means that each of its settings is pending, carried out, or still to be marked by the thread that holds the mutex, which the acknowledgement needs too |
| `FrameTypeCorrect` | one step per action |
| `StreamIntactHolds` | inductive with the types: the frames of a lidar and the points that wait are numbered without a gap, and `Waiting` holds exactly the numbers that follow, in order (`HoldsAppend`, `HoldsFront`) |
| `FramesShortHolds` | `SpanInv`: a frame that waits has not reached its closing millisecond (`Closing`, the first that the interval divides after the frame is long enough); one packet more at most reaches it, and then `CheckTimer` closes the frame (`OneMorePacket`); that is less than two intervals (`ClosedInTime`) |
| `NeverAheadHolds` | `TimerInv`: `last_pub_time` is `start` and as many intervals as there were ticks |
| `SyncTypeCorrect` | stamps are at least as many as scans, so no front is taken of an empty buffer |
| `FreshHolds` | nothing is stored before the first message |
| `PairingHolds` | `Paired`: the buffers are aligned, and the held scan is the first |
| `ImuInOrderHolds` | the prefix taken and the rest make up the buffer (`RestOf`) |
| `ImuCompleteHolds` | `CompleteInv`: the buffer is ordered and bounded by the last stamp; `TakenAll` shows that the loop leaves nothing older than the end of the scan |
| `IntegratesNeighboursHolds` | `QueueInv`: the static queue is empty or holds the last measurement |
| `LioImplementsSync`, `LioPairing` | each action of the pipeline implies one of `ScanSync`, with the same variables: no refinement mapping is needed, and the theorems on the pairing carry over |
| `LioMapsOwnScan` | a scan gets through to the map only by `Undistort` (`PointsOwn`), since all other ends leave the cloud empty; the types of the groups come from `LioImplementsSync` |
| `BridgeTypeCorrect`, `BridgeSpeedsStartable`, `BridgeSignalStops`, `BridgeFreshOnceSpinning` | one inductive invariant, `BridgeInv`: the velocity, and what a callback has still to send, are startable; once the handler has cleared the velocity it stays zero; unless the command behind the velocity was sent before the node spun, its age is the time since its receipt, because a spinning node lets no command wait across a `Tick` |
| `LocTypeCorrect`, `LocAlignedToLatestMap`, `LocKeptScanIsLast`, `LocPublishedIsPose` | `LocInv`, kept by each handler (lemmas on `Publish`, `Accept`, `CloudReceived`, `InitialPoseReceived`) and therefore by the actions that apply them; before the second configuration the target is the last map, or none has come |
| `IkdSearchExcluded` | `SearchInv`: the counter is -1 exactly in the two sections that lock the searchers out, and otherwise the number of those who counted themselves in (a cardinality, hence finitely many); whoever is inside uncounted entered before the request, and updates, the only source of requests, run when nobody searches |
| `IkdKeptInvariant`, `IkdNothingLost` | `KeptInv`: the stages of the rebuild with what each may hold, the calls that are still to be made (`TodoInv`), and `LogInv`: from the copy on, the log takes what was copied to what the others see. That a log of any length does so is said by a sequence of bags, one operation apart (`Brings`), rather than by recursion, so that logging extends it at its end and repeating shortens it at its front. Between an operation on the tree and the next there is `pend`, a deletion that has not reached the subtree yet |
| `LioFilterAtScanEnd`, `LioPoseNotAhead` | the sum of the predictions over a group has a closed form: once the first measurement is not after the last scan's end, what lies before any of them is its time `Beyond` that end; if it failed for a group, it would for a least number of measurements, which one step of the loop excludes. The types of the groups, and their order until the IMU jumps back, come from `LioImplementsSync` |
| `IkdTreeInvariant` | `TreeInv`, below |
| `IkdTreeIsPointMap` | `TreeStep`: each action of the tree is the one of `PointMap` with its name and its arguments, or a step that crashes and leaves the points as they are. That a deletion by point finds its point takes the order of the tree (`Sided`): the points on either side of a node are those `GoesLeft` sends there, in every rebuilt and every searched tree. A downsampled add that does nothing does so because the cell holds the best point already, and no other |
| `IkdTreeCountsRight`, `IkdTreeRangesCover`, `IkdTreeRootStays` | parts of `TreeInv`. Of the downsampled points a node counts (`down_del_num`) nothing is claimed; where `Push_Down` copies that number into `invalid_point_num` (1381) the result is among what `CountsRight` says |
| `IkdTreeSearchExact` | `SearchHolds`: from a heap with the nearest `k` of some points, a search of a tree leaves the nearest `k` of those and its own; a tree is skipped only if its box is farther than the heap's top (`BoxDistBelow`). `SearchRangeHolds`: a tree is left out or taken as a whole only where its range justifies it |
| `TypeCorrect`, `CubeFollows`, `NothingLeftBehind`, `SeenPointsStay` (`MapProofs`) | `IInv`: types and the size of the cube, `SurroundsLidar`, `MapInCube`, `Unplaced` (no tree before the cube is placed) and `Followed` (where `lasermap_fov_segment` was last called, the lidar was farther than the threshold from the edges of the cube it left). From there the lidar gets no farther than the next call can make up for unless that call sets `outrun`, however many scans without points lie between (`FovSegmentFollows`), and a correction stays within what the threshold leaves beyond the sight (`SurroundsCorrected`). `SeenPointsStay` needs neither: the strips are farther from the lidar than it sees, wherever it is (`SeenIsKept`). Near one edge of a roomy cube it is not near to the other, so that the cube moves at most once per axis; the strips deleted are what the new cube does not have of the old one |

The ikd-Tree (`MapProofs`) is the longest proof. `Good(tree)` says of every node that is reached by pushing
marks down (`Nodes`) what `CountsRight` and `RangesCover` demand of it (`Promises`), that
`TreeSize` is the number of nodes, that its point and the points of its sons are apart, and that the sons' points lie on their
side of it (`Sided`). It is stated of what
`PushDown` leaves and not of the stored fields, which under a pending mark are those of another time: this is what
makes it inductive. `Update` keeps the promises of a node whose sons keep theirs (`UpdateKept`),
and a mark makes a tree of empty ones, as deep as it is (`GoneHolds`). For each function of the code there is then one lemma:
what it does to a good tree, and to its points (`BuildHolds`, `AddHolds`, `DeletePointHolds`, `DeleteRangeHolds`, `SearchRangeHolds`,
`SearchHolds`, `FlattenHolds`). `TreeInv` is `Good(root)`, a bound on the nodes of the tree, which keeps it away from `MaxDepth`, and `RootStays`.
The last needs more: that a tree without points is marked as such, and a range is no wider than its points (`Tight`). That
holds as long as nobody calls `Delete_Points`, and is part of `Good` for such callers only (`Tidy`).

The library's induction theorems cannot be used here, since they take a predicate as a parameter. The proofs use that a set of natural
numbers has a least element (`LeastNat`, from `WFMin`), applied to the depths at which a claim fails: `DepthInduction`
and `TreeInduction` take the claim as the set of trees it holds of. That the recursive functions satisfy their own
equations (`LiveOf`, `FlattenOf`, `AddOf`, ...) is proved in the same way, by extending a function on the trees of one depth
to those of the next.

Only model-checked: everything that must eventually happen (`QuietMeansDrained`,
`StreamIsServed`, `ShutdownCompletes`, `SpinStillExits`, `PendingLeadsToSampling`,
`WorkModeReached`, `ExitCompletes`, `NavGoneStops`, `LaunchActivates`, `RebuildEnds`), since the
prover has no rules for fairness and ENABLED. Every safety property of a run that passes is proved. That
the subtree of `IkdRebuild` and the tree of `IkdTree` are the same thing, seen by two models, is an argument of this text (both
stand for the points an operation leaves) and not a theorem.

## 6. Not modelled, and what could follow

* Numeric code: `ndt_omp_ros2`, `ruckig`, the iterated filter, the measurement model and the preprocessing of both odometries, the IMU
  undistortion of the localization. It has no interleaving, and its properties are about
  floating-point numbers, which TLC does not have. It is most of the repository.
* `FAST_LIO_ROS2` but for its ikd-Tree and its cube: `spark_fast_lio` was derived from it, and its
  synchronisation and pipeline have the structure of `ScanSync` and `LioPipeline`; the models were not held against its code.
* IMU path and index cache of the driver: the idiom of the point cloud path over a queue with a
  mutex. The path could be added to `PointCloudPipeline` as a second semaphore.
* lvx playback, the ROS 1 build, the parser, rapidjson, `matplotlibcpp.h`, SDK headers, messages, launch and
  parameter files of Nav2, demonstration nodes, `send_goal.py`: not built here, third-party, or sequential with nothing kept.

What could follow: the packet path composed with the point cloud path, where every packet of a
sampling lidar is published or was in a frame a full ring dropped; two subtrees of the ikd-Tree, where a request for
the larger one replaces the other's.
