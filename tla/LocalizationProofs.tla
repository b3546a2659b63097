-------------------------- MODULE LocalizationProofs --------------------------
(***************************************************************************)
(* Localization keeps its types and its three safety properties, for every *)
(* set of parameter files and however many scans, maps and transitions     *)
(* there are.                                                              *)
(***************************************************************************)
EXTENDS LocalizationProperties, TLAPS

USE LocalizationAssumption

(* What holds of the members of the node whenever no handler runs.  m is   *)
(* the number of maps that came, c that of configurations.                 *)
NodeType(n) == n \in Nodes /\ (n.initialpose_recieved <=> n.pose # NoPose)

\* The registration has the last map or none, and none only before the first
\* map or after a second configuration.
Targeted(n, m, c) ==
  /\ n.target # NoMap => n.target = m
  /\ n.map_recieved /\ n.target = NoMap => c > 1
AlignedWell(n, c) ==
  n.aligned # NoAlignment => \/ n.aligned.target = n.aligned.latest /\ n.aligned.target # NoMap
                             \/ n.aligned.target = NoMap /\ c > 1
Kept(n) == ~n.odom_lost => n.last_scan = n.localized

\* Only the timer and odometry change the pose without publishing it.
Prompt  == params.set_initial_pose /\ ~params.enable_timer_publishing /\ ~params.use_odom
Told(n) == Prompt /\ n.pub_on => n.published = n.pose

NodeInv(n, m, c) ==
  NodeType(n) /\ Targeted(n, m, c) /\ AlignedWell(n, c) /\ Kept(n) /\ Told(n)

\* Nothing is received before the first configuration.
LifecycleInv ==
  /\ configured = 0 => /\ state \in {"unconfigured", "finalized"}
                       /\ ~map_sub /\ ~subscribed /\ ~node.map_recieved
  /\ state = "active" => node.pub_on

\* The variables other than node and maps.
RestType ==
  /\ params \in Parameters
  /\ state \in {"unconfigured", "inactive", "active", "finalized"}
  /\ subscribed \in BOOLEAN /\ map_sub \in BOOLEAN
  /\ launch \subseteq {"configure", "activate"}
  /\ scans \in Nat /\ ops \in Nat
  /\ configured \in Nat /\ loads_failed \in BOOLEAN

LocInv ==
  RestType /\ maps \in Nat /\ NodeInv(node, maps, configured) /\ LifecycleInv

-----------------------------------------------------------------------------
\* A pose is one of the four kinds.
LEMMA PoseTypes ==
  /\ NoPose \in Poses /\ Initial \in Poses /\ Initial # NoPose
  /\ \A scan \in Nat : Scanned(scan) \in Poses /\ Scanned(scan) # NoPose
  /\ \A pose \in Poses : Driven(pose) \in Poses /\ Driven(pose) # NoPose
BY DEF NoPose, Initial, Scanned, Driven, Poses, NoScan

\* Publish changes nothing but what is kept for late joiners.
LEMMA PublishNode ==
  ASSUME NEW n \in Nodes
  PROVE  /\ Publish(n) \in Nodes
         /\ Publish(n) \in {n, [n EXCEPT !.published = n.pose]}
         /\ n.pub_on => Publish(n).published = n.pose
  BY DEF Publish, Nodes

\* on a new pose: Accept replaces the pose and, unless it is left early, the scan.
LEMMA AcceptNode ==
  ASSUME NEW n \in Nodes, NEW scan \in Nat, NEW result
  PROVE  LET r == Accept(n, scan, result)
         IN /\ r \in Nodes /\ r.pose = Scanned(scan) /\ Kept(r)
            /\ Prompt /\ r.pub_on => r.published = r.pose
            /\ r.pub_on = n.pub_on /\ r.aligned = n.aligned /\ r.target = n.target
            /\ r.map_recieved = n.map_recieved
            /\ r.initialpose_recieved = n.initialpose_recieved
<1> DEFINE p == [n EXCEPT !.pose = Scanned(scan), !.localized = scan]
<1>1. p \in Nodes /\ Publish(p) \in Nodes
  <2>1. Scanned(scan) \in Poses
    BY PoseTypes
  <2>2. p \in Nodes
    BY <2>1 DEF Nodes
  <2> HIDE DEF p
  <2> QED
    BY <2>2, PublishNode
<1>2. /\ p.pose = Scanned(scan) /\ p.localized = scan
      /\ p.pub_on = n.pub_on /\ p.aligned = n.aligned /\ p.target = n.target
      /\ p.map_recieved = n.map_recieved
      /\ p.initialpose_recieved = n.initialpose_recieved
  BY DEF Nodes
<1> DEFINE q == Publish(p)
<1>3. /\ q.pose = p.pose /\ q.localized = p.localized
      /\ q.pub_on = p.pub_on /\ q.aligned = p.aligned /\ q.target = p.target
      /\ q.map_recieved = p.map_recieved
      /\ q.initialpose_recieved = p.initialpose_recieved
  BY <1>1 DEF Publish, Nodes
<1>4. q.pub_on => q.published = q.pose
  BY <1>1 DEF Publish, Nodes
<1>5. Accept(n, scan, result) = IF params.enable_timer_publishing THEN [p EXCEPT !.last_scan = scan]
     ELSE IF result = "no_odom" /\ params.enable_map_odom_tf
          THEN [q EXCEPT !.odom_lost = TRUE]
          ELSE [q EXCEPT !.last_scan = scan]
  BY DEF Accept
<1> HIDE DEF p, q
<1>6. CASE params.enable_timer_publishing
  BY <1>1, <1>2, <1>5, <1>6 DEF Prompt, Kept, Nodes
<1>7. CASE ~params.enable_timer_publishing
  <2>1. \/ Accept(n, scan, result) = [q EXCEPT !.odom_lost = TRUE]
        \/ Accept(n, scan, result) = [q EXCEPT !.last_scan = scan]
    BY <1>5, <1>7
  <2>2. q \in Nodes
    BY <1>1 DEF q
  <2>3. CASE Accept(n, scan, result) = [q EXCEPT !.odom_lost = TRUE]
    <3> DEFINE r == [q EXCEPT !.odom_lost = TRUE]
    <3>1. /\ r \in Nodes /\ r.odom_lost = TRUE /\ r.published = q.published
          /\ r.pose = q.pose /\ r.pub_on = q.pub_on /\ r.aligned = q.aligned
          /\ r.target = q.target /\ r.map_recieved = q.map_recieved
          /\ r.initialpose_recieved = q.initialpose_recieved
      BY <2>2 DEF Nodes
    <3>2. Accept(n, scan, result) = r
      BY <2>3
    <3> HIDE DEF r
    <3> QED
      BY <1>2, <1>3, <1>4, <3>1, <3>2 DEF Kept
  <2>4. CASE Accept(n, scan, result) = [q EXCEPT !.last_scan = scan]
    <3> DEFINE r == [q EXCEPT !.last_scan = scan]
    <3>1. /\ r \in Nodes /\ r.last_scan = scan /\ r.localized = q.localized
          /\ r.published = q.published
          /\ r.pose = q.pose /\ r.pub_on = q.pub_on /\ r.aligned = q.aligned
          /\ r.target = q.target /\ r.map_recieved = q.map_recieved
          /\ r.initialpose_recieved = q.initialpose_recieved
      BY <2>2 DEF Nodes
    <3>2. Accept(n, scan, result) = r
      BY <2>4
    <3> HIDE DEF r
    <3> QED
      BY <1>2, <1>3, <1>4, <3>1, <3>2 DEF Kept
  <2> QED
    BY <2>1, <2>3, <2>4
<1> QED
  BY <1>6, <1>7

\* cloudReceived, for a new scan or the one that was kept.
LEMMA CloudNode ==
  ASSUME NEW n, NodeInv(n, maps, configured), maps \in Nat,
         NEW scan \in Nat, NEW result
  PROVE  LET r == CloudReceived(n, scan, result)
         IN /\ NodeInv(r, maps, configured)
            /\ r.pub_on = n.pub_on /\ r.map_recieved = n.map_recieved
<1> DEFINE alignment == [scan |-> scan, target |-> n.target, latest |-> maps]
           a == [n EXCEPT !.aligned = alignment]
           b == [a EXCEPT !.crashed = (result = "undefined")]
           r == CloudReceived(n, scan, result)
<1>1. n \in Nodes
  BY DEF NodeInv, NodeType
<1>2. CASE r = n
  BY <1>2
<1>3. CASE /\ n.map_recieved /\ n.initialpose_recieved
           /\ r = b \/ r = Accept(a, scan, result)
  <2>1. /\ a \in Nodes /\ a.aligned = alignment /\ a.target = n.target
        /\ a.map_recieved = n.map_recieved /\ a.pose = n.pose
        /\ a.initialpose_recieved = n.initialpose_recieved
        /\ a.pub_on = n.pub_on /\ a.published = n.published
        /\ a.odom_lost = n.odom_lost /\ a.last_scan = n.last_scan
        /\ a.localized = n.localized
    <3>1. alignment \in [scan : Nat, target : Nat, latest : Nat]
      BY <1>1 DEF Nodes
    <3> HIDE DEF alignment
    <3> QED
      BY <1>1, <3>1 DEF Nodes
  <2>2. alignment # NoAlignment =>
          \/ alignment.target = alignment.latest /\ alignment.target # NoMap
          \/ alignment.target = NoMap /\ configured > 1
    BY <1>3 DEF NodeInv, Targeted
  <2> HIDE DEF alignment, a
  <2>3. CASE r = b
    <3>1. /\ b \in Nodes /\ b.aligned = a.aligned /\ b.target = a.target
          /\ b.map_recieved = a.map_recieved /\ b.pose = a.pose
          /\ b.initialpose_recieved = a.initialpose_recieved
          /\ b.pub_on = a.pub_on /\ b.published = a.published
          /\ b.odom_lost = a.odom_lost /\ b.last_scan = a.last_scan
          /\ b.localized = a.localized
      BY <2>1 DEF Nodes
    <3> HIDE DEF b, r
    <3>2. NodeType(r)
      BY <2>1, <2>3, <3>1 DEF NodeInv, NodeType
    <3>3. Targeted(r, maps, configured) /\ AlignedWell(r, configured)
      BY <2>1, <2>2, <2>3, <3>1 DEF NodeInv, Targeted, AlignedWell
    <3>4. Kept(r) /\ Told(r)
      BY <2>1, <2>3, <3>1 DEF NodeInv, Kept, Told
    <3> QED
      BY <2>1, <2>3, <3>1, <3>2, <3>3, <3>4 DEF NodeInv, r
  <2>4. CASE r = Accept(a, scan, result)
    <3>1. /\ r \in Nodes /\ r.pose = Scanned(scan) /\ Kept(r)
          /\ Prompt /\ r.pub_on => r.published = r.pose
          /\ r.pub_on = a.pub_on /\ r.aligned = a.aligned /\ r.target = a.target
          /\ r.map_recieved = a.map_recieved
          /\ r.initialpose_recieved = a.initialpose_recieved
      BY <2>1, <2>4, AcceptNode
    <3> HIDE DEF r
    <3>2. NodeType(r)
      BY <1>3, <2>1, <3>1, PoseTypes DEF NodeType
    <3>3. Targeted(r, maps, configured) /\ AlignedWell(r, configured)
      BY <2>1, <2>2, <3>1 DEF NodeInv, Targeted, AlignedWell
    <3>4. Told(r)
      BY <3>1 DEF Told
    <3> QED
      BY <2>1, <3>1, <3>2, <3>3, <3>4 DEF NodeInv, r
  <2> QED
    BY <1>3, <2>3, <2>4
<1> QED
  BY <1>2, <1>3 DEF CloudReceived

\* initialPoseReceived: the pose is there and told, then the scan that was kept
\* is aligned once more.
LEMMA PoseNode ==
  ASSUME NEW n, NodeType(n), Targeted(n, maps, configured), AlignedWell(n, configured),
         Kept(n), maps \in Nat, NEW result
  PROVE  LET r == InitialPoseReceived(n, result)
         IN /\ NodeInv(r, maps, configured)
            /\ r.pub_on = n.pub_on /\ r.map_recieved = n.map_recieved
<1> DEFINE i == [n EXCEPT !.initialpose_recieved = TRUE, !.pose = Initial]
           p == Publish(i)
<1>1. n \in Nodes
  BY DEF NodeType
<1>2. /\ i \in Nodes /\ i.pose = Initial /\ i.initialpose_recieved = TRUE
      /\ i.aligned = n.aligned /\ i.target = n.target
      /\ i.map_recieved = n.map_recieved /\ i.pub_on = n.pub_on
      /\ i.odom_lost = n.odom_lost /\ i.last_scan = n.last_scan
      /\ i.localized = n.localized
  BY <1>1, PoseTypes DEF Nodes
<1> HIDE DEF i
<1>3. /\ p \in Nodes /\ p.pose = i.pose
      /\ p.initialpose_recieved = i.initialpose_recieved
      /\ p.aligned = i.aligned /\ p.target = i.target
      /\ p.map_recieved = i.map_recieved /\ p.pub_on = i.pub_on
      /\ p.odom_lost = i.odom_lost /\ p.last_scan = i.last_scan
      /\ p.localized = i.localized
      /\ p.pub_on => p.published = p.pose
  BY <1>2 DEF Publish, Nodes
<1> HIDE DEF p
<1>4. NodeType(p)
  BY <1>2, <1>3, PoseTypes DEF NodeType
<1>5. Targeted(p, maps, configured) /\ AlignedWell(p, configured)
  BY <1>2, <1>3 DEF Targeted, AlignedWell
<1>6. Kept(p) /\ Told(p)
  BY <1>2, <1>3 DEF Kept, Told
<1>7. NodeInv(p, maps, configured) /\ p.last_scan \in Nat
  BY <1>3, <1>4, <1>5, <1>6 DEF NodeInv, Nodes
<1>8. InitialPoseReceived(n, result) =
        IF p.last_scan = NoScan THEN p ELSE CloudReceived(p, p.last_scan, result)
  BY DEF InitialPoseReceived, p, i
<1> QED
  BY <1>2, <1>3, <1>7, <1>8, CloudNode

\* The next map is the last.
LEMMA MapNode ==
  ASSUME NEW n, NodeInv(n, maps, configured), maps \in Nat
  PROVE  LET r == NewMap(n)
         IN NodeInv(r, maps + 1, configured) /\ r.pub_on = n.pub_on
<1> DEFINE r == NewMap(n)
           next == maps + 1
<1>1. n \in Nodes
  BY DEF NodeInv, NodeType
<1> next \in Nat /\ next # NoMap /\ r = [n EXCEPT !.target = next, !.map_recieved = TRUE]
  BY DEF NewMap, NoMap
<1> HIDE DEF next
<1>2. /\ r \in Nodes /\ r.target = next /\ r.aligned = n.aligned
      /\ r.pose = n.pose /\ r.initialpose_recieved = n.initialpose_recieved
      /\ r.pub_on = n.pub_on /\ r.published = n.published
      /\ r.odom_lost = n.odom_lost /\ r.last_scan = n.last_scan
      /\ r.localized = n.localized
  BY <1>1 DEF Nodes
<1> HIDE DEF r
<1>3. NodeType(r)
  BY <1>2 DEF NodeInv, NodeType
<1>4. Targeted(r, next, configured) /\ AlignedWell(r, configured)
  BY <1>2 DEF NodeInv, Targeted, AlignedWell
<1>5. Kept(r) /\ Told(r)
  BY <1>2 DEF NodeInv, Kept, Told
<1> QED
  BY <1>2, <1>3, <1>4, <1>5 DEF NodeInv, r, next

-----------------------------------------------------------------------------
LEMMA InitLoc == Init => LocInv
<1> SUFFICES ASSUME Init PROVE LocInv
  OBVIOUS
<1> USE DEF Init
<1>1. RestType /\ maps \in Nat
  BY DEF RestType
<1>2. NodeType(node)
  <2>1. NoAlignment \in [scan : Nat, target : Nat, latest : Nat]
    BY DEF NoAlignment, NoScan, NoMap
  <2>2. node \in Nodes
    BY <2>1, PoseTypes DEF Nodes, NoScan, NoMap
  <2> QED
    BY <2>2 DEF NodeType
<1>3. Targeted(node, maps, configured) /\ AlignedWell(node, configured)
  BY DEF Targeted, AlignedWell
<1>4. Kept(node) /\ Told(node)
  BY DEF Kept, Told
<1>5. LifecycleInv
  BY DEF LifecycleInv
<1> QED
  BY <1>1, <1>2, <1>3, <1>4, <1>5 DEF LocInv, NodeInv

-----------------------------------------------------------------------------
(* The transitions.                                                        *)

\* The steps that change no more of the node than what its publishers keep.
LEMMA PublishersStep ==
  ASSUME LocInv, RestType', UNCHANGED <<params, maps>>,
         NEW on \in BOOLEAN, NEW told \in Poses,
         node' = [node EXCEPT !.pub_on = on, !.published = told],
         configured' = configured, ~on,
         state' # "active",
         configured = 0 => /\ state' \in {"unconfigured", "finalized"}
                           /\ ~map_sub' /\ ~subscribed'
  PROVE  LocInv'
<1>1. node \in Nodes
  BY DEF LocInv, NodeInv, NodeType
<1> DEFINE r == [node EXCEPT !.pub_on = on, !.published = told]
<1>2. /\ r \in Nodes /\ r.pub_on = on /\ r.target = node.target
      /\ r.aligned = node.aligned /\ r.pose = node.pose
      /\ r.map_recieved = node.map_recieved
      /\ r.initialpose_recieved = node.initialpose_recieved
      /\ r.odom_lost = node.odom_lost /\ r.last_scan = node.last_scan
      /\ r.localized = node.localized
  BY <1>1 DEF Nodes
<1>3. node' = r
  OBVIOUS
<1> HIDE DEF r
<1>4. NodeInv(node, maps, configured) /\ LifecycleInv
  BY DEF LocInv
<1>5. NodeType(r)
  BY <1>2, <1>4 DEF NodeInv, NodeType
<1>6. Targeted(r, maps, configured) /\ AlignedWell(r, configured) /\ Kept(r)
  BY <1>2, <1>4 DEF NodeInv, Targeted, AlignedWell, Kept
<1>7. Prompt' /\ r.pub_on => r.published = r.pose
  BY <1>2
<1>8. NodeInv(node, maps, configured)'
  BY <1>3, <1>5, <1>6, <1>7 DEF NodeInv, NodeType, Targeted, AlignedWell, Kept, Told
<1>9. LifecycleInv'
  BY <1>2, <1>3, <1>4 DEF LifecycleInv
<1>10. maps' \in Nat
  BY DEF LocInv
<1> QED
  BY <1>8, <1>9, <1>10 DEF LocInv

\* on_configure: the registration loses its map, and the publishers are new.
LEMMA ConfigureStep ==
  ASSUME LocInv, Configure, ops' \in Nat PROVE LocInv'
<1> USE DEF Configure
<1>1. node \in Nodes /\ NodeInv(node, maps, configured) /\ LifecycleInv /\ RestType
  BY DEF LocInv, NodeInv, NodeType
<1> DEFINE r == [node EXCEPT !.target = NoMap, !.pub_on = FALSE, !.published = NoPose]
<1>2. /\ r \in Nodes /\ r.pub_on = FALSE /\ r.target = NoMap
      /\ r.aligned = node.aligned /\ r.pose = node.pose
      /\ r.map_recieved = node.map_recieved
      /\ r.initialpose_recieved = node.initialpose_recieved
      /\ r.odom_lost = node.odom_lost /\ r.last_scan = node.last_scan
      /\ r.localized = node.localized
  BY <1>1, PoseTypes DEF Nodes, NoMap
<1>3. node' = r
  OBVIOUS
<1> HIDE DEF r
<1>4. configured' = configured + 1 /\ configured \in Nat /\ maps' = maps /\ maps \in Nat
  BY <1>1 DEF RestType, LocInv
<1>5. NodeType(r) /\ Kept(r) /\ (Prompt' /\ r.pub_on => r.published = r.pose)
  BY <1>1, <1>2 DEF NodeInv, NodeType, Kept
<1>6. Targeted(r, maps, configured + 1)
  BY <1>1, <1>2, <1>4 DEF Targeted, LifecycleInv
<1>7. AlignedWell(r, configured + 1)
  BY <1>1, <1>2, <1>4 DEF NodeInv, AlignedWell
<1>8. NodeInv(node, maps, configured)'
  BY <1>3, <1>4, <1>5, <1>6, <1>7 DEF NodeInv, NodeType, Targeted, AlignedWell, Kept, Told
<1>9. LifecycleInv'
  BY <1>4 DEF LifecycleInv
<1>10. RestType'
  BY <1>1, <1>4 DEF RestType
<1> QED
  BY <1>4, <1>8, <1>9, <1>10 DEF LocInv

\* on_activate, when the map can be read and when it cannot.
LEMMA ActivateStep ==
  ASSUME LocInv, Activate, ops' \in Nat PROVE LocInv'
<1>1. node \in Nodes /\ NodeInv(node, maps, configured) /\ LifecycleInv /\ RestType
      /\ maps \in Nat
  BY DEF LocInv, NodeInv, NodeType
<1>2. PICK result \in Results(node), loads \in BOOLEAN :
        LET on == [node EXCEPT !.pub_on = TRUE]
            posed == IF params.set_initial_pose THEN InitialPoseReceived(on, result) ELSE on
        IN IF params.use_pcd_map /\ ~loads
           THEN node' = posed /\ loads_failed' = TRUE /\ UNCHANGED <<state, maps>>
           ELSE /\ state' = "active" /\ UNCHANGED loads_failed
                /\ IF params.use_pcd_map
                   THEN maps < MaxMaps /\ node' = NewMap(posed) /\ maps' = maps + 1
                   ELSE node' = posed /\ UNCHANGED maps
  BY DEF Activate
<1> DEFINE on == [node EXCEPT !.pub_on = TRUE]
           posed == IF params.set_initial_pose THEN InitialPoseReceived(on, result) ELSE on
<1>3. UNCHANGED <<params, subscribed, map_sub, scans, configured>> /\ state = "inactive"
      /\ launch' = launch \ {"activate"}
  BY DEF Activate
<1>4. \/ node' = posed /\ maps' = maps
      \/ node' = NewMap(posed) /\ maps' = maps + 1
  BY <1>2
<1>5. state' \in {"inactive", "active"} /\ loads_failed' \in BOOLEAN
  BY <1>1, <1>2, <1>3 DEF RestType
<1>6. on \in Nodes /\ on.pub_on = TRUE /\ on.map_recieved = node.map_recieved
      /\ on.published = node.published /\ on.pose = node.pose
      /\ NodeType(on) /\ Targeted(on, maps, configured) /\ AlignedWell(on, configured)
      /\ Kept(on)
  <2>1. /\ on \in Nodes /\ on.pub_on = TRUE /\ on.target = node.target
        /\ on.aligned = node.aligned /\ on.pose = node.pose
        /\ on.published = node.published
        /\ on.map_recieved = node.map_recieved
        /\ on.initialpose_recieved = node.initialpose_recieved
        /\ on.odom_lost = node.odom_lost /\ on.last_scan = node.last_scan
        /\ on.localized = node.localized
    BY <1>1 DEF Nodes
  <2> HIDE DEF on
  <2> QED
    BY <1>1, <2>1 DEF NodeInv, NodeType, Targeted, AlignedWell, Kept
<1>7. NodeInv(posed, maps, configured) /\ posed.pub_on = TRUE
  <2> HIDE DEF on
  <2>1. CASE params.set_initial_pose
    BY <1>1, <1>6, <2>1, PoseNode DEF posed
  <2>2. CASE ~params.set_initial_pose
    BY <1>6, <2>2 DEF posed, NodeInv, Told, Prompt
  <2> QED
    BY <2>1, <2>2
<1> HIDE DEF posed
<1>8. NodeInv(node', maps', configured) /\ node'.pub_on = TRUE /\ maps' \in Nat
  BY <1>1, <1>4, <1>7, MapNode
<1>9. NodeInv(node, maps, configured)'
  BY <1>3, <1>8 DEF NodeInv, NodeType, Targeted, AlignedWell, Kept, Told, Prompt
<1>10. LifecycleInv'
  BY <1>1, <1>3, <1>8 DEF LifecycleInv
<1>11. RestType'
  BY <1>1, <1>3, <1>5 DEF RestType
<1> QED
  BY <1>8, <1>9, <1>10, <1>11 DEF LocInv

-----------------------------------------------------------------------------
(* The steps.                                                              *)

\* The launch file asks, and is refused in the wrong state.
LEMMA LaunchStep ==
  ASSUME LocInv, LaunchConfigure \/ LaunchActivate PROVE LocInv'
<1>1. ops' \in Nat
  BY DEF LocInv, RestType, LaunchConfigure, LaunchActivate
<1>2. CASE Configure
  BY <1>1, <1>2, ConfigureStep
<1>3. CASE Activate
  BY <1>1, <1>3, ActivateStep
<1>4. CASE UNCHANGED <<params, state, subscribed, map_sub, node, scans, maps, configured,
                       loads_failed, ops>> /\ launch' \subseteq launch
  <2>1. RestType'
    BY <1>4 DEF LocInv, RestType
  <2>2. NodeInv(node, maps, configured)' /\ LifecycleInv' /\ maps' \in Nat
    BY <1>4 DEF LocInv, NodeInv, NodeType, Targeted, AlignedWell, Kept, Told, Prompt,
                LifecycleInv
  <2> QED
    BY <2>1, <2>2 DEF LocInv
<1> QED
  BY <1>2, <1>3, <1>4 DEF LaunchConfigure, LaunchActivate

\* Somebody else asks.
LEMMA OperatorStep ==
  ASSUME LocInv, Operator PROVE LocInv'
<1>1. ops' \in Nat
  BY DEF LocInv, RestType, Operator
<1>2. CASE Configure
  BY <1>1, <1>2, ConfigureStep
<1>3. CASE Activate
  BY <1>1, <1>3, ActivateStep
<1>4. node \in Nodes /\ node.published \in Poses /\ NoPose \in Poses
      /\ NodeInv(node, maps, configured) /\ LifecycleInv /\ RestType
  BY PoseTypes DEF LocInv, NodeInv, NodeType, Nodes
<1>5. CASE Deactivate
  <2>1. node' = [node EXCEPT !.pub_on = FALSE, !.published = node.published]
    <3>1. node' = [node EXCEPT !.pub_on = FALSE]
      BY <1>5 DEF Deactivate
    <3> QED
      BY <1>4, <3>1 DEF Nodes
  <2>2. RestType'
    BY <1>1, <1>4, <1>5 DEF RestType, Deactivate
  <2>3. state = "active" => configured # 0
    BY <1>4 DEF LifecycleInv
  <2> QED
    BY <1>4, <1>5, <2>1, <2>2, <2>3, PublishersStep DEF Deactivate
<1>6. CASE Cleanup
  <2>1. RestType'
    BY <1>1, <1>4, <1>6 DEF RestType, Cleanup
  <2>2. configured # 0
    BY <1>4, <1>6 DEF LifecycleInv, Cleanup
  <2> QED
    BY <1>4, <1>6, <2>1, <2>2, PublishersStep DEF Cleanup
<1>7. CASE Shutdown
  <2>1. RestType'
    BY <1>1, <1>4, <1>7 DEF RestType, Shutdown
  <2>2. NodeInv(node, maps, configured)' /\ LifecycleInv' /\ maps' \in Nat
    BY <1>7 DEF Shutdown, LocInv, NodeInv, NodeType, Targeted, AlignedWell, Kept, Told,
                Prompt, LifecycleInv
  <2> QED
    BY <2>1, <2>2 DEF LocInv
<1> QED
  BY <1>2, <1>3, <1>5, <1>6, <1>7 DEF Operator

\* What a callback does to the node is all it does but counting.
LEMMA CallbackStep ==
  ASSUME LocInv, UNCHANGED lifecycleVars, scans' \in Nat, maps' \in Nat,
         NodeInv(node', maps', configured), node'.pub_on = node.pub_on,
         configured = 0 => ~node'.map_recieved
  PROVE  LocInv'
<1>1. RestType'
  BY DEF LocInv, RestType, lifecycleVars
<1>2. NodeInv(node, maps, configured)'
  BY DEF lifecycleVars, NodeInv, NodeType, Targeted, AlignedWell, Kept, Told, Prompt
<1>3. LifecycleInv'
  BY DEF LocInv, LifecycleInv, lifecycleVars
<1> QED
  BY <1>1, <1>2, <1>3 DEF LocInv

\* The callbacks of the subscriptions and of the timer.
LEMMA CallbacksStep ==
  ASSUME LocInv, Scan \/ InitialPose \/ Map \/ Odom \/ TimerPublishPose
  PROVE  LocInv'
<1>1. node \in Nodes /\ NodeInv(node, maps, configured) /\ LifecycleInv
      /\ maps \in Nat /\ scans \in Nat /\ UNCHANGED lifecycleVars
  BY DEF LocInv, NodeInv, NodeType, RestType, Scan, InitialPose, Map, Odom,
         TimerPublishPose
<1>2. CASE Scan
  <2>1. PICK result : node' = CloudReceived(node, scans', result)
    BY <1>2 DEF Scan
  <2>2. scans' \in Nat /\ maps' = maps
    BY <1>1, <1>2 DEF Scan
  <2>3. NodeInv(node', maps, configured) /\ node'.pub_on = node.pub_on
        /\ node'.map_recieved = node.map_recieved
    BY <1>1, <2>1, <2>2, CloudNode
  <2> QED
    BY <1>1, <2>2, <2>3, CallbackStep DEF LifecycleInv
<1>3. CASE InitialPose
  <2>1. PICK result : node' = InitialPoseReceived(node, result)
    BY <1>3 DEF InitialPose
  <2>2. scans' = scans /\ maps' = maps
    BY <1>3 DEF InitialPose
  <2>3. NodeInv(node', maps, configured) /\ node'.pub_on = node.pub_on
        /\ node'.map_recieved = node.map_recieved
    BY <1>1, <2>1, PoseNode DEF NodeInv
  <2> QED
    BY <1>1, <2>2, <2>3, CallbackStep DEF LifecycleInv
<1>4. CASE Map
  <2>1. node' = NewMap(node) /\ maps' = maps + 1 /\ scans' = scans /\ map_sub
    BY <1>4 DEF Map
  <2>2. NodeInv(node', maps', configured) /\ node'.pub_on = node.pub_on
    BY <1>1, <2>1, MapNode
  <2>3. configured # 0
    BY <1>1, <2>1 DEF LifecycleInv
  <2> QED
    BY <1>1, <2>1, <2>2, <2>3, CallbackStep
<1>5. CASE Odom
  <2>1. scans' = scans /\ maps' = maps /\ ~Prompt
    BY <1>5 DEF Odom, Prompt
  <2> DEFINE fallen == [node EXCEPT !.crashed = TRUE]
             moved  == [node EXCEPT !.pose = Driven(node.pose)]
  <2>2. (node' = fallen) \/ (node.pose # NoPose /\ node' = moved)
    <3>1. CASE node.pose = NoPose
      BY <1>5, <3>1 DEF Odom
    <3>2. CASE node.pose # NoPose
      <4>1. node' = moved
        BY <1>5, <3>2 DEF Odom
      <4> QED
        BY <3>2, <4>1
    <3> QED
      BY <3>1, <3>2
  <2>3. Driven(node.pose) \in Poses /\ Driven(node.pose) # NoPose
    BY <1>1, PoseTypes DEF Nodes
  <2>4. \A r \in {fallen, moved} :
          /\ r \in Nodes /\ r.target = node.target
          /\ r.aligned = node.aligned /\ r.pub_on = node.pub_on
          /\ r.map_recieved = node.map_recieved
          /\ r.initialpose_recieved = node.initialpose_recieved
          /\ r.odom_lost = node.odom_lost /\ r.last_scan = node.last_scan
          /\ r.localized = node.localized
    BY <1>1, <2>3 DEF Nodes
  <2>5. fallen.pose = node.pose /\ moved.pose = Driven(node.pose)
    BY <1>1 DEF Nodes
  <2> HIDE DEF fallen, moved
  <2>6. NodeType(node')
    BY <1>1, <2>2, <2>3, <2>4, <2>5 DEF NodeInv, NodeType
  <2>7. NodeInv(node', maps, configured) /\ node'.pub_on = node.pub_on
        /\ node'.map_recieved = node.map_recieved
    BY <1>1, <2>1, <2>2, <2>4, <2>6
       DEF NodeInv, Targeted, AlignedWell, Kept, Told
  <2> QED
    BY <1>1, <2>1, <2>7, CallbackStep DEF LifecycleInv
<1>6. CASE TimerPublishPose
  <2>1. scans' = scans /\ maps' = maps /\ ~Prompt /\ node' = Publish(node)
    BY <1>6 DEF TimerPublishPose, Prompt
  <2>2. /\ node' \in Nodes /\ node'.target = node.target
        /\ node'.aligned = node.aligned /\ node'.pub_on = node.pub_on
        /\ node'.pose = node.pose
        /\ node'.map_recieved = node.map_recieved
        /\ node'.initialpose_recieved = node.initialpose_recieved
        /\ node'.odom_lost = node.odom_lost /\ node'.last_scan = node.last_scan
        /\ node'.localized = node.localized
    BY <1>1, <2>1 DEF Publish, Nodes
  <2>3. NodeInv(node', maps, configured)
    BY <1>1, <2>1, <2>2
       DEF NodeInv, NodeType, Targeted, AlignedWell, Kept, Told
  <2> QED
    BY <1>1, <2>1, <2>2, <2>3, CallbackStep DEF LifecycleInv
<1> QED
  BY <1>2, <1>3, <1>4, <1>5, <1>6

-----------------------------------------------------------------------------
(* The node keeps its invariant through every callback and transition.     *)
THEOREM LocInvariant == Spec => []LocInv
<1>1. LocInv /\ [Next]_vars => LocInv'
  <2> SUFFICES ASSUME LocInv, [Next]_vars PROVE LocInv'
    OBVIOUS
  <2>1. CASE UNCHANGED vars
    <3>1. RestType'
      BY <2>1 DEF LocInv, RestType, vars
    <3>2. NodeInv(node, maps, configured)' /\ LifecycleInv' /\ maps' \in Nat
      BY <2>1 DEF vars, LocInv, NodeInv, NodeType, Targeted, AlignedWell, Kept, Told,
                  Prompt, LifecycleInv
    <3> QED
      BY <3>1, <3>2 DEF LocInv
  <2> QED
    BY <2>1, LaunchStep, OperatorStep, CallbacksStep DEF Next
<1> QED
  BY <1>1, InitLoc, PTL DEF Spec

(* Every variable keeps its type, and initialpose_recieved_ says whether   *)
(* there is a pose for the callbacks that read it.                         *)
THEOREM LocTypeCorrect == Spec => []TypeOK
<1>1. LocInv => TypeOK
  BY DEF LocInv, RestType, NodeInv, NodeType, TypeOK
<1> QED
  BY <1>1, LocInvariant, PTL

(* Until a second configuration cloudReceived aligns to the last map.      *)
THEOREM LocAlignedToLatestMap == Spec => []AlignedToLatestMap
<1>1. LocInv => AlignedToLatestMap
  BY DEF LocInv, NodeInv, AlignedWell, AlignedToLatestMap
<1> QED
  BY <1>1, LocInvariant, PTL

(* last_scan_ptr_ is the scan behind the last pose until a lookup of odom  *)
(* has failed.                                                             *)
THEOREM LocKeptScanIsLast == Spec => []KeptScanIsLast
<1>1. LocInv => KeptScanIsLast
  BY DEF LocInv, NodeInv, Kept, KeptScanIsLast
<1> QED
  BY <1>1, LocInvariant, PTL

(* An active node that moves its pose by scans and initial poses only has  *)
(* told it to pcl_pose.                                                    *)
THEOREM LocPublishedIsPose == Spec => []PublishedIsPose
<1>1. LocInv => PublishedIsPose
  BY DEF LocInv, NodeInv, LifecycleInv, Told, Prompt, PublishedIsPose
<1> QED
  BY <1>1, LocInvariant, PTL
=============================================================================
