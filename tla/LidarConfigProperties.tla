------------------------ MODULE LidarConfigProperties ------------------------
(***************************************************************************)
(* What must hold of LidarConfig.                                          *)
(***************************************************************************)
EXTENDS LidarConfig

Statuses == {"idle", "success", "error", "timeout", "timeout_no_response"}

(* Every variable has its type; a thread is at work on a lidar only while  *)
(* that lidar has an index.                                                *)
TypeOK ==
  /\ known \in SUBSET Handles
  /\ connect_state \in [Handles -> {"Off", "Sampling"}]
  /\ set_bits \in [Handles -> SUBSET Items]
  /\ config_mutex \in {"free", "info"}
  /\ info_pc \in {"idle", "lock", "request", "attitude", "work_mode", "imu"}
  /\ info_handle \in Handles \union {NoHandle}
  /\ info_pc # "idle" => info_handle \in known
  /\ info_item \in 1 .. 5
  /\ answer_pc \in Statuses
  /\ answer_handle \in Handles \union {NoHandle}
  /\ answer_request \in Requests \union {NoRequest}
  /\ answer_pc # "idle" => answer_handle \in known /\ answer_request \in Requests
  /\ in_flight \in [Handles -> [Requests -> Nat]]
  /\ \A h \in Handles, r \in Requests : in_flight[h][r] > 0 => h \in known
  /\ applied \in [Handles -> SUBSET Requests]
  /\ rejected \in [Handles -> SUBSET Items]
  /\ changes \in Nat

-----------------------------------------------------------------------------
(* The handshake never stalls by itself: for every setting that still      *)
(* waits for its acknowledgement, a request is on its way or its answer is *)
(* being handled, unless the lidar refused it (an error is not retried).   *)
OnItsWay(h, r) ==
  \/ in_flight[h][r] > 0
  \/ answer_pc # "idle" /\ answer_handle = h /\ answer_request = r

PendingIsRequested ==
  \A h \in Handles : \A r \in set_bits[h] : OnItsWay(h, r) \/ r \in rejected[h]

(* The settings of h that the thread that holds config_mutex_ has still to *)
(* request.                                                                *)
Unmarked(h) ==
  IF info_pc = "request" /\ info_handle = h
  THEN {Settings[i] : i \in info_item .. 4} ELSE {}

(* A lidar publishes (kConnectStateSampling) only after it has carried out *)
(* every setting of the config file, however answers and reports of the    *)
(* two SDK threads interleave.                                             *)
SamplingMeansConfigured ==
  \A h \in Handles : connect_state[h] = "Sampling" => Wanted(h) \subseteq applied[h]

(* What makes it inductive: once a setting of h has been requested, every  *)
(* wanted setting is pending, carried out, or still to be marked by the    *)
(* thread that holds the lock.                                             *)
ConfigInv ==
  /\ (config_mutex = "info") <=> (info_pc = "request")
  /\ info_pc = "lock" => info_item = 1
  /\ info_pc = "request" =>
       Wanted(info_handle) \subseteq set_bits[info_handle] \union Unmarked(info_handle)
  /\ answer_pc = "success" => answer_request \in applied[answer_handle]
  /\ \A h \in Handles : set_bits[h] \subseteq Wanted(h)
  /\ \A h \in Handles : \A r \in Items :
       OnItsWay(h, r) => Wanted(h) \subseteq set_bits[h] \union applied[h] \union Unmarked(h)

-----------------------------------------------------------------------------
(* A lidar that refuses nothing ends up publishing: timeouts are retried   *)
(* until the last setting is acknowledged.                                 *)
PendingLeadsToSampling ==
  \A h \in Handles :
    (set_bits[h] # {}) ~> (connect_state[h] = "Sampling" \/ rejected[h] # {})

(* The work mode is retried after errors too, so a lidar that was asked to *)
(* work ends up working.                                                   *)
WorkModeReached ==
  \A h \in Handles : (in_flight[h]["work_mode"] > 0) ~> ("work_mode" \in applied[h])
=============================================================================
