-------------------------- MODULE LidarConfigProofs --------------------------
(***************************************************************************)
(* The configuration handshake for any number of lidars, any config file   *)
(* and any number of reports, answers and timeouts.                        *)
(***************************************************************************)
EXTENDS LidarConfigProperties, TLAPS

LEMMA SettingsAreItems ==
  /\ DOMAIN Settings = 1 .. 4
  /\ \A i \in 1 .. 4 : Settings[i] \in Items
  /\ Items \subseteq Requests
  /\ {"attitude", "work_mode", "imu"} \subseteq Requests
  /\ Items \cap {"attitude", "work_mode", "imu"} = {}
BY DEF Settings, Items, Requests

LEMMA WantedItems == ASSUME NEW h \in Handles PROVE Wanted(h) \subseteq Items
BY ConfigAssumption DEF Wanted

LEMMA TypeInit == Init => TypeOK
BY ConfigAssumption DEF Init, TypeOK, Statuses

\* A request sent to a lidar that has an index.
SendsTo(h, r) == h \in known /\ r \in Requests /\ Send(h, r)

CountsOK ==
  /\ in_flight \in [Handles -> [Requests -> Nat]]
  /\ \A h \in Handles, r \in Requests : in_flight[h][r] > 0 => h \in known

LEMMA SendCounts ==
  ASSUME TypeOK, NEW h \in Handles, NEW r \in Requests, SendsTo(h, r), known' = known
  PROVE  CountsOK'
BY DEF TypeOK, SendsTo, Send, CountsOK

LEMMA AnswerCounts ==
  ASSUME TypeOK, NEW h \in Handles, NEW r \in Requests, NEW s \in Statuses \ {"idle"},
         Answer(h, r, s)
  PROVE  CountsOK' /\ h \in known
BY DEF TypeOK, Answer, deviceVars, CountsOK

LEMMA TypeNext == TypeOK /\ [Next]_vars => TypeOK'
<1> SUFFICES ASSUME TypeOK, [Next]_vars PROVE TypeOK'  OBVIOUS
<1> USE SettingsAreItems DEF Statuses
<1>1. ASSUME NEW h \in Handles, InfoChange(h) PROVE TypeOK'
  BY <1>1 DEF TypeOK, InfoChange, infoVars, answerVars
<1>2. CASE LockConfig
  BY <1>2 DEF TypeOK, LockConfig, deviceVars, answerVars
<1>3. CASE RequestSetting
  <2>1. info_handle \in known /\ info_handle \in Handles /\ info_item \in 1 .. 4
    BY <1>3 DEF TypeOK, RequestSetting
  <2>2. CASE Settings[info_item] \in Wanted(info_handle)
    <3>1. Send(info_handle, Settings[info_item]) /\ known' = known
      BY <1>3, <2>2 DEF RequestSetting
    <3>2. CountsOK'  BY <2>1, <3>1, SendCounts DEF SendsTo
    <3>3. Settings[info_item] \in Items  BY <2>1
    <3>4. /\ set_bits' \in [Handles -> SUBSET Items]
          /\ rejected' \in [Handles -> SUBSET Items]
      BY <1>3, <2>2, <3>3 DEF TypeOK, RequestSetting
    <3>5. info_item' \in 1 .. 5  BY <1>3, <2>1 DEF RequestSetting
    <3> QED
      BY <1>3, <2>1, <3>2, <3>4, <3>5 DEF TypeOK, RequestSetting, answerVars, CountsOK
  <2>3. CASE Settings[info_item] \notin Wanted(info_handle)
    BY <1>3, <2>1, <2>3 DEF TypeOK, RequestSetting, answerVars
  <2> QED  BY <2>2, <2>3
<1>4. CASE UnlockConfig
  BY <1>4 DEF TypeOK, UnlockConfig, deviceVars, answerVars
<1>5. CASE SetAttitude
  <2>1. CountsOK'
    BY <1>5, SendCounts DEF TypeOK, SetAttitude, SendsTo, deviceVars, CountsOK
  <2> QED  BY <1>5, <2>1 DEF TypeOK, SetAttitude, deviceVars, answerVars, CountsOK
<1>6. CASE SetWorkMode
  <2>1. CountsOK'
    BY <1>6, SendCounts DEF TypeOK, SetWorkMode, SendsTo, deviceVars
  <2> QED  BY <1>6, <2>1 DEF TypeOK, SetWorkMode, deviceVars, answerVars, CountsOK
<1>7. CASE EnableImu
  <2>1. CountsOK'
    BY <1>7, SendCounts DEF TypeOK, EnableImu, SendsTo, deviceVars
  <2> QED  BY <1>7, <2>1 DEF TypeOK, EnableImu, deviceVars, answerVars, CountsOK
<1>8. ASSUME NEW h \in Handles, NEW r \in Requests, NEW s \in Statuses \ {"idle"},
             Answer(h, r, s), applied' \in [Handles -> SUBSET Requests]
      PROVE TypeOK'
  <2>1. CountsOK' /\ h \in known  BY <1>8, AnswerCounts
  <2> QED  BY <1>8, <2>1 DEF TypeOK, Answer, CountsOK, deviceVars, infoVars
<1>9. ASSUME NEW h \in Handles, NEW r \in Requests,
             AnswerSuccess(h, r) \/ AnswerTimeout(h, r) \/ AnswerError(h, r)
      PROVE TypeOK'
  <2>1. applied' \in [Handles -> SUBSET Requests]
    BY <1>9 DEF TypeOK, AnswerSuccess, AnswerTimeout, AnswerError
  <2>2. \E s \in Statuses \ {"idle"} : Answer(h, r, s)
    BY <1>9 DEF AnswerSuccess, AnswerTimeout, AnswerError
  <2> QED  BY <1>8, <2>1, <2>2
<1>10. CASE Acknowledge
  BY <1>10 DEF TypeOK, Acknowledge, EndCallback, infoVars
<1>11. ASSUME Retry \/ RetryWorkMode \/ RetryImu PROVE TypeOK'
  <2>1. answer_handle \in known /\ answer_handle \in Handles /\ answer_request \in Requests
    BY <1>11 DEF TypeOK, Retry, RetryWorkMode, RetryImu
  <2>2. Send(answer_handle, answer_request) /\ EndCallback
    BY <1>11 DEF Retry, RetryWorkMode, RetryImu
  <2>3. CountsOK'  BY <2>1, <2>2, SendCounts DEF SendsTo, EndCallback
  <2> QED
    BY <1>11, <2>2, <2>3
    DEF TypeOK, Retry, RetryWorkMode, RetryImu, EndCallback, infoVars, CountsOK
<1>12. CASE Reject
  BY <1>12 DEF TypeOK, Reject, EndCallback, infoVars
<1>13. CASE LogOnly
  BY <1>13 DEF TypeOK, LogOnly, EndCallback, infoVars
<1>14. CASE UNCHANGED vars
  BY <1>14 DEF TypeOK, vars, deviceVars, infoVars, answerVars
<1> QED
  BY <1>1, <1>2, <1>3, <1>4, <1>5, <1>6, <1>7, <1>9, <1>10, <1>11, <1>12, <1>13, <1>14
  DEF Next, InfoStep, Callback, Answered

(* Every reachable state has its type: in particular no thread configures  *)
(* a lidar that has no index in lidars_ (GetFreeIndex).                    *)
THEOREM ConfigTypeCorrect == Spec => []TypeOK
BY TypeInit, TypeNext, PTL DEF Spec

-----------------------------------------------------------------------------
(* PendingIsRequested: each action either leaves the pending settings and  *)
(* the requests alone or moves a request from one to the other.            *)

LEMMA PendingInit == Init => PendingIsRequested
BY DEF Init, PendingIsRequested

LEMMA PendingNext == TypeOK /\ PendingIsRequested /\ [Next]_vars => PendingIsRequested'
<1> SUFFICES ASSUME TypeOK, PendingIsRequested, [Next]_vars,
                    NEW h \in Handles, NEW r \in set_bits'[h]
             PROVE  OnItsWay(h, r)' \/ r \in rejected'[h]
  BY DEF PendingIsRequested
<1> USE SettingsAreItems
<1>0. r \in Items /\ r \in Requests  BY TypeNext DEF TypeOK
<1>1. ASSUME UNCHANGED <<set_bits, rejected, in_flight, answer_pc, answer_handle,
                         answer_request>>
      PROVE  OnItsWay(h, r)' \/ r \in rejected'[h]
  BY <1>1 DEF PendingIsRequested, OnItsWay
\* A request is sent and the callbacks stand still.
<1>2. ASSUME NEW g \in Handles, NEW q \in Requests, Send(g, q),
             UNCHANGED <<answer_pc, answer_handle, answer_request>>,
             \/ UNCHANGED <<set_bits, rejected>>
             \/ /\ set_bits' = [set_bits EXCEPT ![g] = @ \union {q}]
                /\ rejected' = [rejected EXCEPT ![g] = @ \ {q}]
      PROVE  OnItsWay(h, r)' \/ r \in rejected'[h]
  <2>1. in_flight'[h][r] >= in_flight[h][r] /\ {in_flight[h][r], in_flight'[h][r]} \subseteq Nat
    BY <1>2, <1>0 DEF TypeOK, Send
  <2>2. in_flight'[g][q] > 0  BY <1>2 DEF TypeOK, Send
  <2>3. CASE h = g /\ r = q  BY <2>2, <2>3 DEF OnItsWay
  <2>4. CASE ~(h = g /\ r = q)
    <3>1. r \in set_bits[h] /\ (r \in rejected[h] => r \in rejected'[h])
      BY <1>2, <2>4 DEF TypeOK
    <3>2. OnItsWay(h, r) \/ r \in rejected[h]  BY <3>1 DEF PendingIsRequested
    <3>3. UNCHANGED <<answer_pc, answer_handle, answer_request>>  BY <1>2
    <3> QED  BY <2>1, <3>1, <3>2, <3>3 DEF OnItsWay
  <2> QED  BY <2>3, <2>4
<1>3. ASSUME NEW g \in Handles, InfoChange(g) PROVE OnItsWay(h, r)' \/ r \in rejected'[h]
  BY <1>1, <1>3 DEF InfoChange, answerVars
<1>4. CASE LockConfig \/ UnlockConfig
  BY <1>1, <1>4 DEF LockConfig, UnlockConfig, deviceVars, answerVars
<1>5. CASE RequestSetting
  <2>1. info_handle \in Handles /\ Settings[info_item] \in Requests
    BY <1>5 DEF RequestSetting, TypeOK
  <2>2. CASE Settings[info_item] \in Wanted(info_handle)
    BY <1>2, <1>5, <2>1, <2>2 DEF RequestSetting, answerVars
  <2>3. CASE Settings[info_item] \notin Wanted(info_handle)
    BY <1>1, <1>5, <2>3 DEF RequestSetting, answerVars
  <2> QED  BY <2>2, <2>3
<1>6. CASE SetAttitude \/ SetWorkMode \/ EnableImu
  <2>1. info_handle \in Handles
    BY <1>6 DEF SetAttitude, SetWorkMode, EnableImu, TypeOK
  <2>2. CASE UNCHANGED in_flight
    BY <1>1, <1>6, <2>2 DEF SetAttitude, SetWorkMode, EnableImu, deviceVars, answerVars
  <2>3. CASE \E q \in Requests : Send(info_handle, q)
    BY <1>2, <1>6, <2>1, <2>3 DEF SetAttitude, SetWorkMode, EnableImu, deviceVars, answerVars
  <2> QED  BY <1>6, <2>2, <2>3 DEF SetAttitude, SetWorkMode, EnableImu
\* An answer takes its request out of flight and into the callback.
<1>7. ASSUME NEW g \in Handles, NEW q \in Requests,
             NEW s \in Statuses \ {"idle"}, Answer(g, q, s)
      PROVE  OnItsWay(h, r)' \/ r \in rejected'[h]
  <2>1. CASE h = g /\ r = q  BY <1>7, <2>1 DEF Answer, OnItsWay
  <2>2. CASE ~(h = g /\ r = q)
    <3>1. in_flight'[h][r] = in_flight[h][r]  BY <1>7, <1>0, <2>2 DEF Answer, TypeOK
    <3>2. r \in set_bits[h] /\ answer_pc = "idle"  BY <1>7 DEF Answer, deviceVars
    <3> QED  BY <1>7, <3>1, <3>2 DEF Answer, deviceVars, PendingIsRequested, OnItsWay
  <2> QED  BY <2>1, <2>2
<1>8. CASE Answered
  <2>1. \E g \in Handles, q \in Requests, s \in Statuses \ {"idle"} : Answer(g, q, s)
    BY <1>8 DEF Answered, AnswerSuccess, AnswerTimeout, AnswerError, Statuses
  <2> QED  BY <1>7, <2>1
\* A callback that ends leaves its setting acknowledged, refused or requested.
<1>9. CASE Acknowledge
  <2>1. in_flight' = in_flight /\ rejected' = rejected /\ r \in set_bits[h]
        /\ ~(h = answer_handle /\ r = answer_request)
    BY <1>9 DEF Acknowledge, TypeOK
  <2> QED  BY <2>1 DEF PendingIsRequested, OnItsWay
<1>10. CASE Reject
  <2>1. in_flight' = in_flight /\ r \in set_bits[h]  BY <1>10 DEF Reject
  <2>2. rejected[h] \subseteq rejected'[h]  BY <1>10 DEF Reject, TypeOK
  <2>3. CASE h = answer_handle /\ r = answer_request
    BY <1>10, <2>3 DEF Reject, TypeOK
  <2>4. CASE ~(h = answer_handle /\ r = answer_request)
    BY <2>1, <2>2, <2>4 DEF PendingIsRequested, OnItsWay
  <2> QED  BY <2>3, <2>4
<1>11. CASE Retry \/ RetryWorkMode \/ RetryImu
  <2>1. Send(answer_handle, answer_request) /\ r \in set_bits[h] /\ rejected' = rejected
    BY <1>11 DEF Retry, RetryWorkMode, RetryImu
  <2>2. answer_handle \in Handles /\ answer_request \in Requests
    BY <1>11 DEF Retry, RetryWorkMode, RetryImu, TypeOK
  <2>3. in_flight'[h][r] >= in_flight[h][r] /\ {in_flight[h][r], in_flight'[h][r]} \subseteq Nat
    BY <2>1, <2>2, <1>0 DEF TypeOK, Send
  <2>4. CASE h = answer_handle /\ r = answer_request
    BY <2>1, <2>2, <2>4 DEF TypeOK, Send, OnItsWay
  <2>5. CASE ~(h = answer_handle /\ r = answer_request)
    BY <2>1, <2>3, <2>5 DEF PendingIsRequested, OnItsWay
  <2> QED  BY <2>4, <2>5
<1>12. CASE LogOnly
  <2>1. in_flight' = in_flight /\ rejected' = rejected /\ r \in set_bits[h]
    BY <1>12 DEF LogOnly
  <2>2. CASE h = answer_handle /\ r = answer_request
    \* Only an acknowledged setting would reach LogOnly, and it is not an item.
    BY <1>12, <1>0, <2>2 DEF LogOnly
  <2>3. CASE ~(h = answer_handle /\ r = answer_request)
    BY <2>1, <2>3 DEF PendingIsRequested, OnItsWay
  <2> QED  BY <2>2, <2>3
<1>13. CASE UNCHANGED vars  BY <1>1, <1>13 DEF vars, deviceVars, answerVars
<1> QED
  BY <1>3, <1>4, <1>5, <1>6, <1>8, <1>9, <1>10, <1>11, <1>12, <1>13
  DEF Next, InfoStep, Callback

(* The handshake never drops a setting: what waits for an acknowledgement  *)
(* has been requested and will be answered, unless the lidar refused it    *)
(* (Set*Callback retries timeouts, and only timeouts).                     *)
THEOREM PendingIsRequestedHolds == Spec => []PendingIsRequested
BY TypeInit, TypeNext, PendingInit, PendingNext, PTL DEF Spec

-----------------------------------------------------------------------------
(* SamplingMeansConfigured.                                                *)

SamplingInv == ConfigInv /\ SamplingMeansConfigured

LEMMA SamplingInit == Init => SamplingInv
BY SettingsAreItems
DEF Init, SamplingInv, ConfigInv, SamplingMeansConfigured, OnItsWay

\* What is still to be marked after one more setting.
LEMMA UnmarkedItems ==
  /\ Items = {Settings[i] : i \in 1 .. 4}
  /\ \A i \in 1 .. 4 :
       {Settings[j] : j \in i .. 4} = {Settings[i]} \union {Settings[j] : j \in (i + 1) .. 4}
  /\ {Settings[j] : j \in 5 .. 4} = {}
<1>1. Items = {Settings[i] : i \in 1 .. 4}  BY DEF Items
<1>2. ASSUME NEW i \in 1 .. 4
      PROVE  {Settings[j] : j \in i .. 4} = {Settings[i]} \union {Settings[j] : j \in (i + 1) .. 4}
  <2>1. i .. 4 = {i} \union ((i + 1) .. 4)  OBVIOUS
  <2> HIDE DEF Settings
  <2> QED  BY <2>1
<1>3. 5 .. 4 = {}  OBVIOUS
<1> QED  BY <1>1, <1>2, <1>3

LEMMA SamplingNext == TypeOK /\ SamplingInv /\ [Next]_vars => SamplingInv'
<1> SUFFICES ASSUME TypeOK, SamplingInv, [Next]_vars PROVE SamplingInv'  OBVIOUS
<1>0. TypeOK'  BY TypeNext
<1> USE SettingsAreItems DEF SamplingInv
\* Steps that touch neither the settings nor the section that requests them.
<1>1. ASSUME UNCHANGED <<connect_state, set_bits, config_mutex, answer_pc,
                         answer_handle, answer_request, applied>>,
             info_pc # "request", info_pc' # "request", info_pc' = "lock" => info_item' = 1,
             \A h \in Handles, r \in Items : in_flight'[h][r] = in_flight[h][r]
      PROVE  SamplingInv'
  <2>1. \A h \in Handles : Unmarked(h) = {} /\ Unmarked(h)' = {}  BY <1>1 DEF Unmarked
  <2> QED  BY <1>1, <2>1 DEF ConfigInv, SamplingMeansConfigured, OnItsWay, Wanted
<1>2. ASSUME NEW g \in Handles, InfoChange(g) PROVE SamplingInv'
  BY <1>1, <1>2 DEF InfoChange, infoVars, answerVars
<1>3. CASE LockConfig
  <2>1. info_item = 1 /\ info_handle \in Handles
    BY <1>3 DEF LockConfig, ConfigInv, TypeOK
  <2>2. Unmarked(info_handle)' = Items
    BY <1>3, <2>1, UnmarkedItems DEF LockConfig, Unmarked
  <2>3. Wanted(info_handle) \subseteq Items  BY <2>1, WantedItems
  <2>4. \A h \in Handles : Unmarked(h) = {}  BY <1>3 DEF LockConfig, Unmarked
  <2> QED
    BY <1>3, <2>1, <2>2, <2>3, <2>4
    DEF LockConfig, deviceVars, answerVars, ConfigInv, SamplingMeansConfigured, OnItsWay, Wanted
<1>4. CASE RequestSetting
  <2> DEFINE g == info_handle
             q == Settings[info_item]
  <2>1. g \in Handles /\ info_item \in 1 .. 4 /\ q \in Items
    BY <1>4 DEF RequestSetting, TypeOK
  <2>2. Unmarked(g) = {q} \union Unmarked(g)'
    BY <1>4, <2>1, UnmarkedItems DEF RequestSetting, Unmarked
  <2>3. \A h \in Handles : h # g => Unmarked(h) = {} /\ Unmarked(h)' = {}
    BY <1>4 DEF RequestSetting, Unmarked
  <2>4. \A h \in Handles : set_bits[h] \subseteq set_bits'[h] /\ set_bits'[h] \subseteq Wanted(h)
    BY <1>4, <2>1 DEF RequestSetting, TypeOK, ConfigInv
  <2>5. q \in Wanted(g) => q \in set_bits'[g]
    BY <1>4, <2>1 DEF RequestSetting, TypeOK
  <2>6. Wanted(g) \subseteq set_bits[g] \union Unmarked(g)
    BY <1>4, <2>1 DEF RequestSetting, ConfigInv
  <2>7. Wanted(g) \subseteq set_bits'[g] \union Unmarked(g)'
    BY <2>1, <2>2, <2>4, <2>5, <2>6
  <2>8. \A h \in Handles, r \in Items : h # g /\ OnItsWay(h, r)' => OnItsWay(h, r)
    BY <1>4, <2>1 DEF RequestSetting, Send, TypeOK, OnItsWay, answerVars
  <2>9. \A h \in Handles, r \in Items : OnItsWay(h, r)' =>
          Wanted(h) \subseteq set_bits'[h] \union applied[h] \union Unmarked(h)'
    <3> SUFFICES ASSUME NEW h \in Handles, NEW r \in Items, OnItsWay(h, r)'
                 PROVE  Wanted(h) \subseteq set_bits'[h] \union applied[h] \union Unmarked(h)'
      OBVIOUS
    <3>1. CASE h = g
      <4>1. Unmarked(h)' = Unmarked(g)'  BY <1>4, <3>1 DEF RequestSetting, Unmarked
      <4> QED  BY <2>7, <3>1, <4>1
    <3>2. CASE h # g
      <4>1. OnItsWay(h, r) /\ Unmarked(h) = {}  BY <2>3, <2>8, <3>2
      <4>2. Wanted(h) \subseteq set_bits[h] \union applied[h]  BY <4>1 DEF ConfigInv
      <4> QED  BY <2>4, <4>2
    <3> QED  BY <3>1, <3>2
  <2> QED
    BY <1>4, <2>4, <2>7, <2>9
    DEF RequestSetting, answerVars, ConfigInv, SamplingMeansConfigured, Wanted
<1>5. CASE UnlockConfig
  <2>1. info_handle \in Handles /\ info_item = 5
    BY <1>5 DEF UnlockConfig, TypeOK
  <2>2. \A h \in Handles : Unmarked(h) = {} /\ Unmarked(h)' = {}
    BY <1>5, <2>1, UnmarkedItems DEF UnlockConfig, Unmarked
  <2> QED
    BY <1>5, <2>1, <2>2
    DEF UnlockConfig, deviceVars, answerVars, ConfigInv, SamplingMeansConfigured, OnItsWay, Wanted
<1>6. CASE SetAttitude \/ SetWorkMode \/ EnableImu
  <2>1. info_handle \in Handles
    BY <1>6 DEF SetAttitude, SetWorkMode, EnableImu, TypeOK
  <2>2. \A h \in Handles, r \in Items : in_flight'[h][r] = in_flight[h][r]
    <3>1. \/ in_flight' = in_flight
          \/ \E q \in Requests \ Items : Send(info_handle, q)
      BY <1>6 DEF SetAttitude, SetWorkMode, EnableImu
    <3> QED  BY <2>1, <3>1 DEF Send, TypeOK
  <2> QED
    BY <1>1, <1>6, <2>2 DEF SetAttitude, SetWorkMode, EnableImu, deviceVars, answerVars
<1>7. CASE Answered
  <2>1. PICK g \in Handles, q \in Requests, s \in Statuses \ {"idle"} :
          /\ Answer(g, q, s)
          /\ \A h \in Handles : applied[h] \subseteq applied'[h]
          /\ s = "success" => q \in applied'[g]
    BY <1>7 DEF Answered, AnswerSuccess, AnswerTimeout, AnswerError, Statuses, TypeOK
  <2>2. \A h \in Handles, r \in Items : OnItsWay(h, r)' => OnItsWay(h, r)
    BY <2>1 DEF Answer, TypeOK, OnItsWay
  <2>3. \A h \in Handles : Unmarked(h)' = Unmarked(h)
    BY <2>1 DEF Answer, infoVars, Unmarked
  <2>4. /\ UNCHANGED <<config_mutex, set_bits, info_pc, info_handle, info_item>>
        /\ Unmarked(info_handle)' = Unmarked(info_handle)
        /\ answer_pc' = "success" => answer_request' \in applied'[answer_handle']
    BY <2>1 DEF Answer, deviceVars, infoVars, Unmarked
  <2>5. \A h \in Handles, r \in Items : OnItsWay(h, r)' =>
          Wanted(h) \subseteq set_bits'[h] \union applied'[h] \union Unmarked(h)'
    <3> SUFFICES ASSUME NEW h \in Handles, NEW r \in Items, OnItsWay(h, r)'
                 PROVE  Wanted(h) \subseteq set_bits'[h] \union applied'[h] \union Unmarked(h)'
      OBVIOUS
    <3>1. Wanted(h) \subseteq set_bits[h] \union applied[h] \union Unmarked(h)
      BY <2>2 DEF ConfigInv
    <3> QED  BY <2>1, <2>3, <2>4, <3>1
  <2>6. ConfigInv'
    BY <2>4, <2>5 DEF ConfigInv, Wanted
  <2> QED
    BY <2>1, <2>6 DEF Answer, deviceVars, SamplingMeansConfigured, Wanted
<1>8. CASE Acknowledge
  <2> DEFINE g == answer_handle
             q == answer_request
  <2>1. g \in Handles /\ q \in Items /\ q \in applied[g] /\ OnItsWay(g, q)
    BY <1>8 DEF Acknowledge, TypeOK, ConfigInv, OnItsWay
  <2>2. \A h \in Handles : Unmarked(h) = {} /\ Unmarked(h)' = {}
    BY <1>8 DEF Acknowledge, EndCallback, infoVars, ConfigInv, Unmarked
  <2>3. info_pc # "request" /\ info_pc' = info_pc /\ info_item' = info_item
    BY <1>8 DEF Acknowledge, EndCallback, infoVars, ConfigInv
  <2>4. \A h \in Handles : set_bits[h] \subseteq set_bits'[h] \union applied[h]
    BY <1>8, <2>1 DEF Acknowledge, TypeOK
  <2>5. \A h \in Handles : set_bits'[h] \subseteq set_bits[h]
    BY <1>8, <2>1 DEF Acknowledge, TypeOK
  <2>6. applied' = applied /\ config_mutex' = config_mutex /\ answer_pc' = "idle"
    BY <1>8 DEF Acknowledge, EndCallback
  <2>7. \A h \in Handles, r \in Items : OnItsWay(h, r)' => OnItsWay(h, r)
    BY <1>8 DEF Acknowledge, EndCallback, OnItsWay
  <2>8. \A h \in Handles, r \in Items : OnItsWay(h, r)' =>
          Wanted(h) \subseteq set_bits'[h] \union applied'[h] \union Unmarked(h)'
    BY <2>2, <2>4, <2>6, <2>7 DEF ConfigInv
  <2>9. ConfigInv'
    BY <2>3, <2>5, <2>6, <2>8 DEF ConfigInv, Wanted
  <2>10. Wanted(g) \subseteq set_bits'[g] \union applied[g]
    BY <2>1, <2>2, <2>4 DEF ConfigInv
  <2>11. SamplingMeansConfigured'
    <3> SUFFICES ASSUME NEW h \in Handles, connect_state'[h] = "Sampling"
                 PROVE  Wanted(h) \subseteq applied[h]
      BY <2>6 DEF SamplingMeansConfigured, Wanted
    <3>1. CASE connect_state[h] = "Sampling"  BY <3>1 DEF SamplingMeansConfigured
    <3>2. CASE connect_state[h] # "Sampling"
      <4>1. h = g /\ set_bits'[g] = {}  BY <1>8, <3>2, <2>1 DEF Acknowledge, TypeOK
      <4> QED  BY <4>1, <2>10
    <3> QED  BY <3>1, <3>2
  <2> QED  BY <2>9, <2>11
<1>9. CASE Retry \/ Reject \/ RetryWorkMode \/ RetryImu \/ LogOnly
  <2>1. EndCallback /\ UNCHANGED <<config_mutex, connect_state, set_bits>>
        /\ (in_flight' = in_flight \/ Send(answer_handle, answer_request))
        /\ answer_pc # "idle"
    BY <1>9 DEF Retry, Reject, RetryWorkMode, RetryImu, LogOnly
  <2>2. \A h \in Handles, r \in Items : OnItsWay(h, r)' => OnItsWay(h, r)
    BY <2>1 DEF EndCallback, Send, TypeOK, OnItsWay
  <2>3. \A h \in Handles : Unmarked(h)' = Unmarked(h)
    BY <2>1 DEF EndCallback, infoVars, Unmarked
  <2>4. Unmarked(info_handle)' = Unmarked(info_handle)
    BY <2>1 DEF EndCallback, infoVars, Unmarked
  <2> QED
    BY <2>1, <2>2, <2>3, <2>4
    DEF EndCallback, infoVars, ConfigInv, SamplingMeansConfigured, Wanted
<1>10. CASE UNCHANGED vars
  BY <1>10
  DEF vars, deviceVars, infoVars, answerVars, ConfigInv, SamplingMeansConfigured,
      OnItsWay, Unmarked, Wanted
<1> QED
  BY <1>2, <1>3, <1>4, <1>5, <1>6, <1>7, <1>8, <1>9, <1>10 DEF Next, InfoStep, Callback

(* While LidarInfoChangeCallback marks and requests the settings of a      *)
(* lidar, none of them is forgotten: each is pending, carried out, or      *)
(* still to be marked under config_mutex_.                                 *)
THEOREM ConfigInvHolds == Spec => []ConfigInv
<1>1. Spec => []TypeOK  BY ConfigTypeCorrect
<1>2. SamplingInv => ConfigInv  BY DEF SamplingInv
<1> QED  BY <1>1, <1>2, SamplingInit, SamplingNext, PTL DEF Spec

(* A lidar's clouds are published only after the lidar has carried out     *)
(* every setting its config asks for, whatever the interleaving of the two *)
(* SDK threads: this is what config_mutex_ is there for.                   *)
THEOREM SamplingMeansConfiguredHolds == Spec => []SamplingMeansConfigured
<1>1. Spec => []TypeOK  BY ConfigTypeCorrect
<1> QED  BY <1>1, SamplingInit, SamplingNext, PTL DEF Spec, SamplingInv
=============================================================================
