------------------------ MODULE LocalizationProperties ------------------------
(***************************************************************************)
(* What must hold of Localization.                                         *)
(***************************************************************************)
EXTENDS Localization

Poses == [from : {"nothing", "initialpose", "scan", "odom"}, stamp : Nat]
Nodes == [map_recieved : BOOLEAN, initialpose_recieved : BOOLEAN, pose : Poses,
          last_scan : Nat, target : Nat, pub_on : BOOLEAN, published : Poses,
          crashed : BOOLEAN, aligned : [scan : Nat, target : Nat, latest : Nat],
          localized : Nat, odom_lost : BOOLEAN]

(* Every variable has its type; the callbacks that dereference the pose    *)
(* after looking at initialpose_recieved_ find one.                        *)
TypeOK ==
  /\ params \in Parameters
  /\ state \in {"unconfigured", "inactive", "active", "finalized"}
  /\ subscribed \in BOOLEAN /\ map_sub \in BOOLEAN
  /\ node \in Nodes
  /\ node.initialpose_recieved <=> node.pose # NoPose
  /\ launch \subseteq {"configure", "activate"}
  /\ scans \in Nat /\ maps \in Nat /\ ops \in Nat
  /\ configured \in Nat /\ loads_failed \in BOOLEAN

-----------------------------------------------------------------------------
(* A scan is aligned to the last map that came, and to one at all, until   *)
(* the node is configured a second time: map_recieved_ outlives            *)
(* registration_, so that a scan may then find a registration without a    *)
(* target.                                                                 *)
AlignedToLatestMap ==
  LET a == node.aligned IN
  a # NoAlignment => \/ a.target = a.latest /\ a.target # NoMap
                     \/ a.target = NoMap /\ configured > 1

(* The scan that is aligned again when an initial pose comes is the one    *)
(* behind the last pose, unless a handler has returned before keeping it.  *)
KeptScanIsLast == ~node.odom_lost => node.last_scan = node.localized

(* While the node is active, who listens to pcl_pose late is told the pose *)
(* the next alignment starts from: every path that changes it publishes    *)
(* it, an early return after it included.                                  *)
PublishedIsPose ==
  (/\ state = "active" /\ params.set_initial_pose
   /\ ~params.enable_timer_publishing /\ ~params.use_odom)
  => node.published = node.pose

(* The launch file brings the node to work, after a cleanup as well, if    *)
(* the map can be read.                                                    *)
LaunchActivates ==
  state = "unconfigured" ~> \/ state \in {"active", "finalized"}
                            \/ loads_failed \/ node.crashed \/ maps = MaxMaps
=============================================================================
