----------------------------- MODULE LidarConfig -----------------------------
(***************************************************************************)
(* How livox_ros_driver2 configures the lidars that appear on the network  *)
(* and decides when their point clouds may be published                    *)
(* (call_back/livox_lidar_callback.cpp).                                   *)
(*                                                                         *)
(* One SDK thread reports lidars (LidarInfoChangeCallback), another runs   *)
(* the callbacks that answer the requests the first one sends.  They share *)
(* livox_config.set_bits, the settings not yet acknowledged, under         *)
(* config_mutex_.  The lidar and the network are outside: a request is     *)
(* carried out or not, and answered by success, an error or a timeout.     *)
(***************************************************************************)
EXTENDS Naturals, FiniteSets

CONSTANTS
  Handles,       \* the lidars that may appear
  Defined,       \* the lidars the config file mentions
  UserConfig,    \* UserConfig[h]: the settings the config file gives for h
  NoHandle,      \* no lidar
  MaxLidars,     \* kMaxSourceLidar, the size of lidars_
  MaxChanges,    \* bound: how often the SDK reports a lidar
  Rejects        \* may a lidar answer a request with an error?

\* set_bits, in the order in which they are requested.
Settings == <<"data_type", "scan_pattern", "blind_spot", "dual_emit">>
Items    == {Settings[i] : i \in 1 .. 4}
Requests == Items \union {"attitude", "work_mode", "imu"}

ASSUME ConfigAssumption ==
  /\ NoHandle \notin Handles
  /\ Defined \subseteq Handles
  /\ UserConfig \in [Defined -> SUBSET Items]
  /\ MaxLidars \in Nat /\ MaxChanges \in Nat
  /\ Rejects \in BOOLEAN

NoRequest == "none"

\* The zeroed livox_config of a lidar the file does not mention asks for all.
Wanted(h) == IF h \in Defined THEN UserConfig[h] ELSE Items

VARIABLES
  known,         \* the handles that have an index in cache_index_
  connect_state, \* lidars_[index].connect_state
  set_bits,      \* livox_config.set_bits
  config_mutex,  \* who holds config_mutex_
  info_pc, info_handle, info_item,  \* the thread in LidarInfoChangeCallback
  answer_pc, answer_handle, answer_request, \* the thread that runs callbacks
  in_flight,     \* in_flight[h][r]: requests sent and not answered (SDK)
  applied,       \* applied[h]: what lidar h has carried out (lidar)
  rejected,      \* history: the settings of h that an error ended
  changes        \* how often a lidar was reported

infoVars   == <<info_pc, info_handle, info_item>>
answerVars == <<answer_pc, answer_handle, answer_request>>
deviceVars == <<known, connect_state, set_bits, rejected>>
vars == <<deviceVars, config_mutex, infoVars, answerVars, in_flight, applied, changes>>

\* InitLivoxLidar gives an index to every lidar of the file.
Init ==
  /\ known \in {K \in SUBSET Defined :
                  Cardinality(K) <= MaxLidars /\ (K = Defined \/ Cardinality(K) = MaxLidars)}
  /\ connect_state = [h \in Handles |-> "Off"]
  /\ set_bits = [h \in Handles |-> {}]
  /\ config_mutex = "free"
  /\ info_pc = "idle" /\ info_handle = NoHandle /\ info_item = 1
  /\ answer_pc = "idle" /\ answer_handle = NoHandle /\ answer_request = NoRequest
  /\ in_flight = [h \in Handles |-> [r \in Requests |-> 0]]
  /\ applied = [h \in Handles |-> {}]
  /\ rejected = [h \in Handles |-> {}]
  /\ changes = 0

Send(h, r) == in_flight' = [in_flight EXCEPT ![h][r] = @ + 1]

-----------------------------------------------------------------------------
(* LidarInfoChangeCallback.                                                *)

\* A known lidar is configured; a new one only takes a free index, if any.
InfoChange(h) ==
  /\ info_pc = "idle"
  /\ changes < MaxChanges
  /\ changes' = changes + 1
  /\ \/ /\ h \in known
        /\ info_pc' = "lock" /\ info_handle' = h /\ info_item' = 1
        /\ UNCHANGED known
     \/ /\ h \notin known /\ Cardinality(known) < MaxLidars
        /\ known' = known \union {h}
        /\ info_pc' = "work_mode" /\ info_handle' = h /\ UNCHANGED info_item
     \/ /\ h \notin known /\ Cardinality(known) >= MaxLidars
        /\ UNCHANGED <<known, infoVars>>
  /\ UNCHANGED <<connect_state, set_bits, rejected, config_mutex, answerVars,
                 in_flight, applied>>

\* Mutant of LockConfig: the settings are requested without the lock.
LockConfigNot ==
  /\ info_pc = "lock"
  /\ info_pc' = "request"
  /\ UNCHANGED <<deviceVars, config_mutex, info_handle, info_item, answerVars,
                 in_flight, applied, changes>>

LockConfig ==
  /\ info_pc = "lock"
  /\ config_mutex = "free"
  /\ config_mutex' = "info"
  /\ info_pc' = "request"
  /\ UNCHANGED <<deviceVars, info_handle, info_item, answerVars, in_flight,
                 applied, changes>>

\* One setting after the other: mark it, request it.
RequestSetting ==
  /\ info_pc = "request"
  /\ info_item \in DOMAIN Settings
  /\ IF Settings[info_item] \in Wanted(info_handle)
     THEN /\ set_bits' = [set_bits EXCEPT ![info_handle] = @ \union {Settings[info_item]}]
          /\ rejected' = [rejected EXCEPT ![info_handle] = @ \ {Settings[info_item]}]
          /\ Send(info_handle, Settings[info_item])
     ELSE UNCHANGED <<set_bits, rejected, in_flight>>
  /\ info_item' = info_item + 1
  /\ UNCHANGED <<known, connect_state, config_mutex, info_pc, info_handle, answerVars,
                 applied, changes>>

UnlockConfig ==
  /\ info_pc = "request"
  /\ info_item \notin DOMAIN Settings
  /\ config_mutex' = "free"
  /\ info_pc' = "attitude"
  /\ UNCHANGED <<deviceVars, info_handle, info_item, answerVars, in_flight, applied,
                 changes>>

\* Sent to config.handle, which is 0 for a lidar the file does not mention.
SetAttitude ==
  /\ info_pc = "attitude"
  /\ info_pc' = "work_mode"
  /\ IF info_handle \in Defined THEN Send(info_handle, "attitude") ELSE UNCHANGED in_flight
  /\ UNCHANGED <<deviceVars, config_mutex, info_handle, info_item, answerVars, applied,
                 changes>>

SetWorkMode ==
  /\ info_pc = "work_mode"
  /\ info_pc' = "imu"
  /\ Send(info_handle, "work_mode")
  /\ UNCHANGED <<deviceVars, config_mutex, info_handle, info_item, answerVars, applied,
                 changes>>

EnableImu ==
  /\ info_pc = "imu"
  /\ info_pc' = "idle"
  /\ Send(info_handle, "imu")
  /\ UNCHANGED <<deviceVars, config_mutex, info_handle, info_item, answerVars, applied,
                 changes>>

-----------------------------------------------------------------------------
(* The SDK and the lidar: a request in flight is answered.  A timeout does *)
(* not tell whether the lidar carried it out.                              *)

Answer(h, r, status) ==
  /\ answer_pc = "idle"
  /\ in_flight[h][r] > 0
  /\ answer_pc' = status /\ answer_handle' = h /\ answer_request' = r
  /\ in_flight' = [in_flight EXCEPT ![h][r] = @ - 1]
  /\ UNCHANGED <<deviceVars, config_mutex, infoVars, changes>>

AnswerSuccess(h, r) ==
  /\ Answer(h, r, "success")
  /\ applied' = [applied EXCEPT ![h] = @ \union {r}]

\* Whether the callback gets a response with the timeout is up to the SDK.
AnswerTimeout(h, r) ==
  /\ Answer(h, r, "timeout") \/ Answer(h, r, "timeout_no_response")
  /\ applied' \in {applied, [applied EXCEPT ![h] = @ \union {r}]}

AnswerError(h, r) ==
  /\ Rejects
  /\ Answer(h, r, "error")
  /\ UNCHANGED applied

-----------------------------------------------------------------------------
(* The callbacks.                                                          *)

EndCallback ==
  /\ answer_pc' = "idle" /\ answer_handle' = NoHandle /\ answer_request' = NoRequest
  /\ UNCHANGED <<known, infoVars, applied, changes>>

\* Mutant of Acknowledge: the pending settings are looked at too early.
AcknowledgeEarlyLook ==
  /\ answer_pc = "success" /\ answer_request \in Items
  /\ config_mutex = "free"
  /\ set_bits' = [set_bits EXCEPT ![answer_handle] = @ \ {answer_request}]
  /\ connect_state' =
       IF set_bits[answer_handle] = {}
       THEN [connect_state EXCEPT ![answer_handle] = "Sampling"] ELSE connect_state
  /\ EndCallback
  /\ UNCHANGED <<config_mutex, in_flight, rejected>>

\* The last acknowledged setting starts the sampling.
Acknowledge ==
  /\ answer_pc = "success" /\ answer_request \in Items
  /\ config_mutex = "free"
  /\ set_bits' = [set_bits EXCEPT ![answer_handle] = @ \ {answer_request}]
  /\ connect_state' =
       IF set_bits'[answer_handle] = {}
       THEN [connect_state EXCEPT ![answer_handle] = "Sampling"] ELSE connect_state
  /\ EndCallback
  /\ UNCHANGED <<config_mutex, in_flight, rejected>>

\* Mutant of Retry: a setting that timed out is not requested again.
RetryAttitudeOnly ==
  /\ answer_pc \in {"timeout", "timeout_no_response"}
  /\ answer_request \in Items \union {"attitude"}
  /\ IF answer_request = "attitude" THEN Send(answer_handle, answer_request)
     ELSE UNCHANGED in_flight
  /\ EndCallback
  /\ UNCHANGED <<config_mutex, connect_state, set_bits, rejected>>

\* A setting that timed out is requested again.
Retry ==
  /\ answer_pc \in {"timeout", "timeout_no_response"}
  /\ answer_request \in Items \union {"attitude"}
  /\ Send(answer_handle, answer_request)
  /\ EndCallback
  /\ UNCHANGED <<config_mutex, connect_state, set_bits, rejected>>

\* An error is logged and the bit stays set.
Reject ==
  /\ answer_pc = "error"
  /\ answer_request \in Items
  /\ rejected' = [rejected EXCEPT ![answer_handle] = @ \union {answer_request}]
  /\ EndCallback
  /\ UNCHANGED <<config_mutex, connect_state, set_bits, in_flight>>

\* Mutant of RetryWorkMode: only a timeout is tried again.
RetryWorkModeTimeout ==
  /\ answer_pc \in {"error", "timeout", "timeout_no_response"}
  /\ answer_request = "work_mode"
  /\ IF answer_pc = "error" THEN UNCHANGED in_flight ELSE Send(answer_handle, "work_mode")
  /\ EndCallback
  /\ UNCHANGED <<config_mutex, connect_state, set_bits, rejected>>

\* WorkModeChangedCallback tries again after every failure.
RetryWorkMode ==
  /\ answer_pc \in {"error", "timeout", "timeout_no_response"}
  /\ answer_request = "work_mode"
  /\ Send(answer_handle, "work_mode")
  /\ EndCallback
  /\ UNCHANGED <<config_mutex, connect_state, set_bits, rejected>>

\* EnableLivoxLidarImuDataCallback gives up without a response.
RetryImu ==
  /\ answer_pc = "timeout" /\ answer_request = "imu"
  /\ Send(answer_handle, "imu")
  /\ EndCallback
  /\ UNCHANGED <<config_mutex, connect_state, set_bits, rejected>>

\* Answers that are only logged.
LogOnly ==
  /\ \/ answer_pc = "success" /\ answer_request \notin Items
     \/ answer_pc = "error" /\ answer_request \in {"attitude", "imu"}
     \/ answer_pc = "timeout_no_response" /\ answer_request = "imu"
  /\ EndCallback
  /\ UNCHANGED <<config_mutex, connect_state, set_bits, rejected, in_flight>>

-----------------------------------------------------------------------------
InfoStep == LockConfig \/ RequestSetting \/ UnlockConfig \/ SetAttitude
              \/ SetWorkMode \/ EnableImu

Callback == Acknowledge \/ Retry \/ Reject \/ RetryWorkMode \/ RetryImu \/ LogOnly

Answered == \E h \in Handles, r \in Requests :
              AnswerSuccess(h, r) \/ AnswerTimeout(h, r) \/ AnswerError(h, r)

Next ==
  \/ \E h \in Handles : InfoChange(h)
  \/ InfoStep
  \/ Answered
  \/ Callback

Spec == Init /\ [][Next]_vars

(* Both threads run, and a request repeated for ever succeeds in the end;  *)
(* that a lidar appears is not assumed.                                    *)
FairSpec ==
  /\ Spec
  /\ WF_vars(InfoStep) /\ SF_vars(Callback)
  /\ \A h \in Handles, r \in Items \union {"work_mode"} : SF_vars(AnswerSuccess(h, r))
=============================================================================
