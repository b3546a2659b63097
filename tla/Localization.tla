----------------------------- MODULE Localization -----------------------------
(***************************************************************************)
(* lidar_localization_component.cpp: the node that finds the robot on a    *)
(* map by aligning each scan from the pose before it, with the lifecycle   *)
(* transitions it goes through and the launch file that asks for them.     *)
(*                                                                         *)
(* One thread runs every callback to its end.  What can go wrong is their  *)
(* order: subscriptions live from configuration to cleanup whatever the    *)
(* state, flags and the last scan outlive both, and a scan that was kept   *)
(* is aligned again when an initial pose comes.                            *)
(*                                                                         *)
(* A handler maps the members of the node to those it leaves behind.       *)
(* Poses are told apart by where they come from; the path and the          *)
(* transforms broadcast are output only and left out.                      *)
(***************************************************************************)
EXTENDS Naturals

CONSTANTS
  Parameters,  \* the parameter files: records of the Booleans read below
  MaxScans,    \* bound: scans received, which are stamped in order
  MaxMaps,     \* bound: maps loaded or received
  MaxOps       \* bound: transitions that were not asked for by the launch file

ASSUME LocalizationAssumption ==
  /\ Parameters \subseteq [use_pcd_map : BOOLEAN, set_initial_pose : BOOLEAN,
                           use_odom : BOOLEAN, enable_map_odom_tf : BOOLEAN,
                           enable_timer_publishing : BOOLEAN]
  /\ MaxScans \in Nat /\ MaxMaps \in Nat /\ MaxOps \in Nat

NoScan == 0
NoMap  == 0
NoPose == [from |-> "nothing", stamp |-> NoScan]
Initial == [from |-> "initialpose", stamp |-> NoScan]
Scanned(scan) == [from |-> "scan", stamp |-> scan]
Driven(pose)  == [pose EXCEPT !.from = "odom"]
NoAlignment == [scan |-> NoScan, target |-> NoMap, latest |-> NoMap]

VARIABLES
  params,      \* the parameters, the same at every configuration
  state,       \* of the lifecycle
  subscribed,  \* the subscriptions (and the timer) exist
  map_sub,     \* map_sub_ exists: on_cleanup keeps it
  node,        \* the other members of the node
  launch,      \* transitions the launch file has still to ask for
  scans, maps, ops,  \* how many came
  configured, loads_failed  \* history: configurations, failed activations

vars == <<params, state, subscribed, map_sub, node, launch, scans, maps, ops,
          configured, loads_failed>>

Init ==
  /\ params \in Parameters
  /\ state = "unconfigured" /\ subscribed = FALSE /\ map_sub = FALSE
  /\ node = [map_recieved |-> FALSE, initialpose_recieved |-> FALSE,
             pose |-> NoPose,         \* corrent_pose_with_cov_stamped_ptr_
             last_scan |-> NoScan,    \* last_scan_ptr_
             target |-> NoMap,        \* the map registration_ aligns to
             pub_on |-> FALSE,        \* pose_pub_ is activated
             published |-> NoPose,    \* what pose_pub_ keeps for late joiners
             crashed |-> FALSE,       \* the process is gone
             aligned |-> NoAlignment, \* history: the last alignment
             localized |-> NoScan,    \* history: the last scan that gave a pose
             odom_lost |-> FALSE]     \* history: a lookup of odom has failed
  /\ launch = {"configure"}
  /\ scans = 0 /\ maps = 0 /\ ops = 0 /\ configured = 0 /\ loads_failed = FALSE

-----------------------------------------------------------------------------
(* cloudReceived.                                                          *)

\* A lifecycle publisher that is not activated drops what it is given.
Publish(n) == IF n.pub_on THEN [n EXCEPT !.published = n.pose] ELSE n

\* How aligning ends; without a target it fails, one way or the other.
Results(n) ==
  IF n.target = NoMap THEN {"no_transform", "diverged", "undefined"}
  ELSE {"no_transform", "diverged", "no_odom", "converged"}

\* Mutant of Accept: a scan is kept once.
AcceptFirst(n, scan, result) ==
  LET p == [n EXCEPT !.pose = Scanned(scan), !.localized = scan]
      q == IF params.enable_timer_publishing THEN p ELSE Publish(p)
  IN IF n.last_scan = NoScan THEN [q EXCEPT !.last_scan = scan] ELSE q

\* Mutant of Accept: the pose is published after the transform is looked up.
AcceptPublishLast(n, scan, result) ==
  LET p == [n EXCEPT !.pose = Scanned(scan), !.localized = scan]
  IN IF result = "no_odom" /\ params.enable_map_odom_tf
     THEN [p EXCEPT !.odom_lost = TRUE]
     ELSE [(IF params.enable_timer_publishing THEN p ELSE Publish(p))
            EXCEPT !.last_scan = scan]

\* The new pose is published here or by the timer.  Without the timer the
\* handler returns before it keeps the scan when odom cannot be looked up.
Accept(n, scan, result) ==
  LET p == [n EXCEPT !.pose = Scanned(scan), !.localized = scan]
  IN IF params.enable_timer_publishing THEN [p EXCEPT !.last_scan = scan]
     ELSE IF result = "no_odom" /\ params.enable_map_odom_tf
          THEN [Publish(p) EXCEPT !.odom_lost = TRUE]
          ELSE [Publish(p) EXCEPT !.last_scan = scan]

CloudReceived(n, scan, result) ==
  IF ~n.map_recieved \/ ~n.initialpose_recieved \/ result = "no_transform" THEN n
  ELSE LET a == [n EXCEPT !.aligned = [scan |-> scan, target |-> n.target, latest |-> maps]]
       IN IF result \in {"diverged", "undefined"}
          THEN [a EXCEPT !.crashed = (result = "undefined")]
          ELSE Accept(a, scan, result)

-----------------------------------------------------------------------------
(* initialPoseReceived, for a pose in the global frame.                    *)

InitialPoseReceived(n, result) ==
  LET p == Publish([n EXCEPT !.initialpose_recieved = TRUE, !.pose = Initial])
  IN IF p.last_scan = NoScan THEN p ELSE CloudReceived(p, p.last_scan, result)

\* setInputTarget, for the next of the maps.
NewMap(n) == [n EXCEPT !.target = maps + 1, !.map_recieved = TRUE]

-----------------------------------------------------------------------------
(* The transitions of the lifecycle; the names are those of the requests.  *)

\* The registration is new and has no target, the publishers are not activated.
Configure ==
  /\ state = "unconfigured" /\ state' = "inactive"
  /\ subscribed' = TRUE /\ map_sub' = TRUE
  /\ node' = [node EXCEPT !.target = NoMap, !.pub_on = FALSE, !.published = NoPose]
  /\ configured' = configured + 1
  /\ launch' = (launch \ {"configure"}) \union {"activate"}
  /\ UNCHANGED <<params, scans, maps, loads_failed>>

\* Mutant of Activate: the map counts as received before it is read.
ActivateEarly ==
  /\ state = "inactive"
  /\ launch' = launch \ {"activate"}
  /\ \E result \in Results(node), loads \in BOOLEAN :
       LET on == [node EXCEPT !.pub_on = TRUE, !.map_recieved = @ \/ params.use_pcd_map]
           posed == IF params.set_initial_pose THEN InitialPoseReceived(on, result) ELSE on
       IN IF params.use_pcd_map /\ ~loads
          THEN node' = posed /\ loads_failed' = TRUE /\ UNCHANGED <<state, maps>>
          ELSE /\ state' = "active" /\ UNCHANGED loads_failed
               /\ IF params.use_pcd_map
                  THEN maps < MaxMaps /\ node' = NewMap(posed) /\ maps' = maps + 1
                  ELSE node' = posed /\ UNCHANGED maps
  /\ UNCHANGED <<params, subscribed, map_sub, scans, configured>>

\* The initial pose, with a scan that was kept, comes before the map.  When the
\* map cannot be read the node stays inactive with its publishers activated.
Activate ==
  /\ state = "inactive"
  /\ launch' = launch \ {"activate"}
  /\ \E result \in Results(node), loads \in BOOLEAN :
       LET on == [node EXCEPT !.pub_on = TRUE]
           posed == IF params.set_initial_pose THEN InitialPoseReceived(on, result) ELSE on
       IN IF params.use_pcd_map /\ ~loads
          THEN node' = posed /\ loads_failed' = TRUE /\ UNCHANGED <<state, maps>>
          ELSE /\ state' = "active" /\ UNCHANGED loads_failed
               /\ IF params.use_pcd_map
                  THEN maps < MaxMaps /\ node' = NewMap(posed) /\ maps' = maps + 1
                  ELSE node' = posed /\ UNCHANGED maps
  /\ UNCHANGED <<params, subscribed, map_sub, scans, configured>>

Deactivate ==
  /\ state = "active" /\ state' = "inactive"
  /\ node' = [node EXCEPT !.pub_on = FALSE]
  /\ UNCHANGED <<params, subscribed, map_sub, launch, scans, maps, configured, loads_failed>>

\* Mutant of Cleanup: the launch file does not react to it.
CleanupSilent ==
  /\ state = "inactive" /\ state' = "unconfigured"
  /\ subscribed' = FALSE
  /\ node' = [node EXCEPT !.pub_on = FALSE, !.published = NoPose]
  /\ UNCHANGED <<params, map_sub, launch, scans, maps, configured, loads_failed>>

\* The publishers and all subscriptions but map_sub_ go, what was received stays.
Cleanup ==
  /\ state = "inactive" /\ state' = "unconfigured"
  /\ subscribed' = FALSE
  /\ node' = [node EXCEPT !.pub_on = FALSE, !.published = NoPose]
  /\ launch' = launch \union {"configure"}
  /\ UNCHANGED <<params, map_sub, scans, maps, configured, loads_failed>>

\* on_shutdown does nothing: what exists stays and goes on working.
Shutdown ==
  /\ state # "finalized" /\ state' = "finalized"
  /\ UNCHANGED <<params, subscribed, map_sub, node, launch, scans, maps, configured,
                 loads_failed>>

\* The launch file asks; a request the state does not allow is refused.
LaunchConfigure ==
  /\ "configure" \in launch /\ ~node.crashed
  /\ \/ Configure
     \/ /\ state # "unconfigured" /\ launch' = launch \ {"configure"}
        /\ UNCHANGED <<params, state, subscribed, map_sub, node, scans, maps, configured,
                       loads_failed>>
  /\ UNCHANGED ops

LaunchActivate ==
  /\ "activate" \in launch /\ ~node.crashed
  /\ \/ Activate
     \/ /\ state # "inactive" /\ launch' = launch \ {"activate"}
        /\ UNCHANGED <<params, state, subscribed, map_sub, node, scans, maps, configured,
                       loads_failed>>
  /\ UNCHANGED ops

\* Somebody else asks.
Operator ==
  /\ ops < MaxOps /\ ops' = ops + 1 /\ ~node.crashed
  /\ \/ Configure \/ Deactivate \/ Cleanup \/ Shutdown
     \/ state = "inactive" /\ Activate

-----------------------------------------------------------------------------
(* The subscriptions and the timer.                                        *)

lifecycleVars == <<params, state, subscribed, map_sub, launch, ops, configured, loads_failed>>

\* Scans come in the order of their stamps; some are lost.
Scan ==
  /\ subscribed /\ ~node.crashed
  /\ scans < MaxScans /\ scans' = scans + 1
  /\ \E result \in Results(node) : node' = CloudReceived(node, scans', result)
  /\ UNCHANGED <<lifecycleVars, maps>>

\* A pose in another frame is ignored.
InitialPose ==
  /\ subscribed /\ ~node.crashed
  /\ \E result \in Results(node) : node' = InitialPoseReceived(node, result)
  /\ UNCHANGED <<lifecycleVars, scans, maps>>

\* mapReceived; a map in another frame is ignored.
Map ==
  /\ map_sub /\ ~node.crashed
  /\ maps < MaxMaps /\ maps' = maps + 1
  /\ node' = NewMap(node)
  /\ UNCHANGED <<lifecycleVars, scans>>

\* odomReceived, for a message that comes soon after the last one.  It moves the
\* pose in place; that there is one is not looked at.
Odom ==
  /\ subscribed /\ ~node.crashed /\ params.use_odom
  /\ node' = IF node.pose = NoPose THEN [node EXCEPT !.crashed = TRUE]
             ELSE [node EXCEPT !.pose = Driven(@)]
  /\ UNCHANGED <<lifecycleVars, scans, maps>>

TimerPublishPose ==
  /\ subscribed /\ ~node.crashed /\ params.enable_timer_publishing
  /\ node.pose # NoPose /\ node' = Publish(node)
  /\ UNCHANGED <<lifecycleVars, scans, maps>>

-----------------------------------------------------------------------------
Next ==
  \/ LaunchConfigure \/ LaunchActivate \/ Operator
  \/ Scan \/ InitialPose \/ Map \/ Odom \/ TimerPublishPose

Spec == Init /\ [][Next]_vars

\* The launch file asks for what it has to; messages may stay away.
FairSpec == Spec /\ WF_vars(LaunchConfigure) /\ WF_vars(LaunchActivate)
=============================================================================
