------------------------- MODULE VelocityBridgeProofs -------------------------
(***************************************************************************)
(* VelocityBridge keeps its types and its three safety properties, for     *)
(* every set of commands, limit, queue depth and timeout.                  *)
(***************************************************************************)
EXTENDS VelocityBridgeProperties, TLAPS

USE BridgeAssumption

(* The inductive invariant.  What is behind the published velocity is kept *)
(* startable at each stage; a handler leaves nothing but zero behind; and  *)
(* a command sent while the node spins has the age of its receipt.         *)
SpeedsInv ==
  Startable(velocity) /\ Startable(published) /\ (pc = "send" => Startable(local))
SignalInv ==
  /\ handler # "none" => velocity = Zero
  /\ handler = "sent" => published = Zero
QueueFresh ==
  \A i \in DOMAIN queue : ~queue[i].early => phase # "waiting" /\ queue[i].age = 0
FreshInv ==
  /\ QueueFresh
  /\ pc # "idle" => phase # "waiting"
  /\ pc = "cmd" => since = 0 /\ (~local.early => local.age = 0)
  /\ pc # "cmd" /\ ~origin.early => origin.age = since
  /\ pc = "send" /\ local # Zero => since <= Watchdog
CountInv ==
  /\ phase = "waiting" => waits < MaxWaits
  /\ phase \in {"waiting", "calling"} => attempt < Attempts
BridgeInv == TypeOK /\ CountInv /\ SpeedsInv /\ SignalInv /\ FreshInv

\* Zero is a velocity, and startable.
LEMMA ZeroStartable == Zero \in Velocities /\ Startable(Zero)
BY DEF Zero, Velocities, Startable

\* What Convert makes of a command is startable: cmd_to_aimavel.py, 96-114.
LEMMA ConvertStartable ==
  ASSUME NEW cmd \in Commands
  PROVE  Convert(cmd) \in Velocities /\ Startable(Convert(cmd))
<1> DEFINE Speed(a) == DeadbandAndMin(Clamp(cmd[a], MaxSpeed[a]), MinSpeed[a])
<1>1. ASSUME NEW a \in Axes
      PROVE  /\ Speed(a) \in Int
             /\ \/ Speed(a) = 0
                \/ MinSpeed[a] <= Speed(a) /\ Speed(a) <= MaxSpeed[a]
                \/ MinSpeed[a] <= -Speed(a) /\ -Speed(a) <= MaxSpeed[a]
  <2>1. cmd[a] \in Int /\ MaxSpeed[a] \in Nat /\ MinSpeed[a] \in Nat
        /\ MinSpeed[a] <= MaxSpeed[a]
    OBVIOUS
  <2> DEFINE c == Clamp(cmd[a], MaxSpeed[a])
  <2>2. c \in Int /\ -MaxSpeed[a] <= c /\ c <= MaxSpeed[a]
    BY <2>1 DEF Clamp
  <2> HIDE DEF c
  <2>3. Speed(a) = DeadbandAndMin(c, MinSpeed[a])
    BY DEF c
  <2> QED
    BY <2>1, <2>2, <2>3 DEF DeadbandAndMin
<1>2. Convert(cmd) = [a \in Axes |-> Speed(a)]
  BY DEF Convert
<1> HIDE DEF Speed
<1> QED
  BY <1>1, <1>2 DEF Velocities, Startable

LEMMA InitBridge == Init => BridgeInv
<1> SUFFICES ASSUME Init PROVE BridgeInv
  OBVIOUS
<1> USE DEF Init
<1>1. MainType /\ QueueType /\ HandlerType
  <2>1. MainType
    <3>1. waits \in 0 .. MaxWaits /\ attempt \in 0 .. Attempts
      OBVIOUS
    <3> QED
      BY <3>1, Zenon DEF MainType
  <2>2. QueueType
    BY DEF QueueType
  <2>3. HandlerType
    BY DEF HandlerType
  <2> QED
    BY <2>1, <2>2, <2>3
<1>2. CallbackType
  <2>1. velocity \in Velocities /\ published \in Velocities /\ local \in Velocities
    BY ZeroStartable
  <2>2. since \in 0 .. Old /\ origin \in [age : 0 .. Old, early : BOOLEAN]
    BY DEF Old
  <2> QED
    BY <2>1, <2>2 DEF CallbackType
<1>3. CountInv /\ SpeedsInv /\ SignalInv
  BY ZeroStartable DEF CountInv, SpeedsInv, SignalInv
<1>4. FreshInv
  BY DEF FreshInv, QueueFresh
<1> QED
  BY <1>1, <1>2, <1>3, <1>4 DEF BridgeInv, TypeOK

-----------------------------------------------------------------------------
(* One lemma for each kind of step.                                        *)

\* What main does leaves the callbacks and the queue alone.
LEMMA MainStep == BridgeInv /\ (Main \/ Answer) => BridgeInv'
<1> SUFFICES ASSUME BridgeInv, Main \/ Answer PROVE BridgeInv'
  OBVIOUS
<1> USE DEF BridgeInv, TypeOK
<1>1. /\ UNCHANGED <<queue, callbackVars, fired, handler, nav_up>>
      /\ phase # "waiting" => phase' # "waiting"
  BY DEF Main, Answer, ServiceFound, WaitTimesOut, Registered, AttemptTimesOut
<1>2. MainType' /\ CountInv'
  <2> USE DEF MainType, CountInv
  <2>1. CASE Answer
    BY <2>1 DEF Answer
  <2>2. CASE ServiceFound
    BY <2>2 DEF ServiceFound
  <2>3. CASE WaitTimesOut
    BY <2>3 DEF WaitTimesOut
  <2>4. CASE Registered
    BY <2>4 DEF Registered
  <2>5. CASE AttemptTimesOut
    BY <2>5 DEF AttemptTimesOut
  <2> QED
    BY <2>1, <2>2, <2>3, <2>4, <2>5 DEF Main
<1>3. QueueType' /\ HandlerType'
  BY <1>1 DEF QueueType, HandlerType
<1>4. CallbackType'
  BY <1>1 DEF CallbackType, callbackVars
<1>5. SpeedsInv'
  BY <1>1 DEF SpeedsInv, Startable, callbackVars
<1>6. SignalInv'
  BY <1>1 DEF SignalInv, callbackVars
<1>7. FreshInv'
  BY <1>1 DEF FreshInv, QueueFresh, callbackVars
<1> QED
  BY <1>2, <1>3, <1>4, <1>5, <1>6, <1>7

\* A callback runs only while the node spins and no handler does.
LEMMA CallbackStep == BridgeInv /\ Callback => BridgeInv'
<1> SUFFICES ASSUME BridgeInv, Callback PROVE BridgeInv'
  OBVIOUS
<1> USE DEF BridgeInv, TypeOK
<1>1. UNCHANGED <<mainVars, handler, nav_up>> /\ handler = "none"
  BY DEF Callback, TakeCommand, UseCommand, TimerFires, Check, Send, Working, Idle
<1>2. MainType' /\ CountInv'
  BY <1>1 DEF MainType, CountInv, mainVars
<1>3. SignalInv'
  BY <1>1 DEF SignalInv
<1>4. HandlerType'
  BY <1>1 DEF HandlerType, Callback, TakeCommand, UseCommand, TimerFires, Check, Send
<1>5. CASE TakeCommand
  <2> USE <1>5 DEF TakeCommand, Idle, Spinning
  <2>1. Len(queue) \in Nat \ {0} /\ queue[1] \in Messages /\ Head(queue) = queue[1]
    BY DEF QueueType
  <2>2. QueueType'
    BY <2>1 DEF QueueType
  <2>3. CallbackType'
    <3>1. Old \in Nat
      BY DEF Old
    <3> QED
      BY <2>1, <3>1 DEF CallbackType
  <2>4. SpeedsInv'
    BY DEF SpeedsInv, Startable
  <2>5. QueueFresh'
    <3>1. \A i \in DOMAIN queue' : i + 1 \in DOMAIN queue /\ queue'[i] = queue[i + 1]
      BY <2>1 DEF QueueType
    <3> QED
      BY <1>1, <3>1 DEF FreshInv, QueueFresh, mainVars
  <2>6. ~local'.early => local'.age = 0
    <3>1. 1 \in DOMAIN queue
      BY <2>1 DEF QueueType
    <3> QED
      BY <2>1, <3>1 DEF FreshInv, QueueFresh
  <2> QED
    BY <1>1, <1>2, <1>3, <1>4, <2>2, <2>3, <2>4, <2>5, <2>6 DEF FreshInv, mainVars
<1>6. CASE UseCommand
  <2> USE <1>6 DEF UseCommand, Working
  <2>1. local \in Messages
    BY DEF CallbackType
  <2>2. Convert(local.cmd) \in Velocities /\ Startable(Convert(local.cmd))
    BY <2>1, ConvertStartable DEF Messages
  <2>3. QueueType'
    BY DEF QueueType
  <2>4. CallbackType'
    BY <2>1, <2>2, ZeroStartable DEF CallbackType, Messages
  <2>5. SpeedsInv'
    BY <2>2 DEF SpeedsInv, Startable
  <2>6. FreshInv'
    BY <1>1 DEF FreshInv, QueueFresh, mainVars
  <2> QED
    BY <1>2, <1>3, <1>4, <2>3, <2>4, <2>5, <2>6
<1>7. CASE TimerFires
  <2> USE <1>7 DEF TimerFires, Idle, Spinning
  <2>1. QueueType' /\ CallbackType'
    BY DEF QueueType, CallbackType
  <2>2. SpeedsInv'
    BY DEF SpeedsInv, Startable
  <2>3. FreshInv'
    BY <1>1 DEF FreshInv, QueueFresh, mainVars
  <2> QED
    BY <1>2, <1>3, <1>4, <2>1, <2>2, <2>3
<1>8. CASE Check
  <2> USE <1>8 DEF Check, Working
  <2>1. velocity' \in Velocities /\ Startable(velocity')
    BY ZeroStartable DEF CallbackType, SpeedsInv
  <2>2. QueueType' /\ CallbackType'
    BY <2>1 DEF QueueType, CallbackType
  <2>3. SpeedsInv'
    BY <2>1 DEF SpeedsInv, Startable
  <2>4. local' # Zero => since <= Watchdog
    <3>1. since \in Int
      BY DEF CallbackType
    <3> QED
      BY <3>1
  <2>5. FreshInv'
    BY <1>1, <2>4 DEF FreshInv, QueueFresh, mainVars
  <2> QED
    BY <1>2, <1>3, <1>4, <2>2, <2>3, <2>5
<1>9. CASE Send
  <2> USE <1>9 DEF Send, Working
  <2>1. QueueType' /\ CallbackType'
    BY ZeroStartable DEF QueueType, CallbackType
  <2>2. SpeedsInv'
    BY DEF SpeedsInv, Startable
  <2>3. FreshInv'
    BY <1>1 DEF FreshInv, QueueFresh, mainVars
  <2> QED
    BY <1>2, <1>3, <1>4, <2>1, <2>2, <2>3
<1> QED
  BY <1>5, <1>6, <1>7, <1>8, <1>9 DEF Callback

\* A signal, the rest of its handler, and the end of the node.
LEMMA HandlerStep == BridgeInv /\ (Signal \/ Handler) => BridgeInv'
<1> SUFFICES ASSUME BridgeInv, Signal \/ Handler PROVE BridgeInv'
  OBVIOUS
<1> USE DEF BridgeInv, TypeOK, Handler, Signal, SendZero, Exit
<1>1. MainType' /\ CountInv'
  <2>1. UNCHANGED <<waits, attempt, done>> /\ phase' \in {phase, "gone"}
    BY DEF mainVars
  <2> QED
    BY <2>1 DEF MainType, CountInv
<1>2. QueueType'
  BY DEF QueueType
<1>3. HandlerType'
  BY DEF HandlerType
<1>4. velocity' \in {velocity, Zero} /\ published' \in {published, velocity}
  BY DEF callbackVars
<1>5. UNCHANGED <<since, origin, pc, local, queue>>
  BY DEF callbackVars
<1>6. CallbackType'
  BY <1>4, <1>5, ZeroStartable DEF CallbackType
<1>7. SpeedsInv'
  <2>1. Startable(velocity') /\ Startable(published')
    BY <1>4, ZeroStartable DEF SpeedsInv
  <2> QED
    BY <1>5, <2>1 DEF SpeedsInv, Startable
<1>8. SignalInv'
  BY DEF SignalInv, callbackVars
<1>9. FreshInv'
  <2>1. phase # "waiting" => phase' # "waiting"
    BY DEF mainVars
  <2> QED
    BY <1>5, <2>1 DEF FreshInv, QueueFresh
<1> QED
  BY <1>1, <1>2, <1>3, <1>6, <1>7, <1>8, <1>9

\* A command from Nav2, which is early if the node does not spin.
LEMMA CommandStep == ASSUME NEW cmd \in Commands, BridgeInv, Command(cmd) PROVE BridgeInv'
<1> USE DEF BridgeInv, TypeOK, Command
<1> DEFINE msg == [cmd |-> cmd, age |-> 0, early |-> ~Spinning]
           kept == IF Len(queue) = Depth THEN Tail(queue) ELSE queue
<1>1. msg \in Messages
  <2>1. 0 \in 0 .. Old
    BY DEF Old
  <2> QED
    BY <2>1 DEF Messages
<1>2. kept \in Seq(Messages) /\ Len(kept) < Depth
  BY DEF QueueType
<1>3. \A i \in DOMAIN kept : ~kept[i].early => phase # "waiting" /\ kept[i].age = 0
  <2>1. \A i \in DOMAIN kept :
          \/ i \in DOMAIN queue /\ kept[i] = queue[i]
          \/ i + 1 \in DOMAIN queue /\ kept[i] = queue[i + 1]
    <3>1. CASE Len(queue) = Depth
      <4>1. queue # <<>> /\ kept = Tail(queue)
        BY <3>1 DEF QueueType
      <4> HIDE DEF kept
      <4> QED
        BY <4>1 DEF QueueType
    <3>2. CASE Len(queue) # Depth
      <4>1. kept = queue
        BY <3>2
      <4> HIDE DEF kept
      <4> QED
        BY <4>1
    <3> QED
      BY <3>1, <3>2
  <2> QED
    BY <2>1 DEF FreshInv, QueueFresh
<1>4. queue' = Append(kept, msg)
  OBVIOUS
<1> HIDE DEF kept
<1>5. QueueType'
  <2> HIDE DEF msg
  <2> QED
    BY <1>1, <1>2, <1>4 DEF QueueType
<1>6. UNCHANGED <<mainVars, callbackVars, fired, handler, nav_up>> /\ phase # "gone"
  OBVIOUS
<1>7. ~msg.early => phase # "waiting"
  BY <1>6 DEF Spinning
<1>8. QueueFresh'
  <2>1. msg.age = 0
    OBVIOUS
  <2> HIDE DEF msg
  <2>2. \A i \in DOMAIN queue' : queue'[i] = msg \/ (i \in DOMAIN kept /\ queue'[i] = kept[i])
    <3>1. Len(kept) \in Nat /\ DOMAIN kept = 1 .. Len(kept)
      BY <1>2
    <3>2. DOMAIN queue' = 1 .. Len(kept) + 1
      BY <1>2, <1>4
    <3>3. \A i \in 1 .. Len(kept) + 1 :
            queue'[i] = IF i <= Len(kept) THEN kept[i] ELSE msg
      BY <1>2, <1>4
    <3>4. ASSUME NEW i \in DOMAIN queue'
          PROVE queue'[i] = msg \/ (i \in DOMAIN kept /\ queue'[i] = kept[i])
      <4>1. CASE i <= Len(kept)
        BY <3>1, <3>2, <3>3, <4>1
      <4>2. CASE ~(i <= Len(kept))
        BY <3>2, <3>3, <4>2
      <4> QED
        BY <4>1, <4>2
    <3> QED
      BY <3>4
  <2>3. \A i \in DOMAIN queue' : ~queue'[i].early => phase # "waiting" /\ queue'[i].age = 0
    <3> SUFFICES ASSUME NEW i \in DOMAIN queue', ~queue'[i].early
                 PROVE phase # "waiting" /\ queue'[i].age = 0
      OBVIOUS
    <3>1. CASE queue'[i] = msg
      BY <1>7, <2>1, <3>1, Zenon
    <3>2. CASE i \in DOMAIN kept /\ queue'[i] = kept[i]
      BY <1>3, <3>2, Zenon
    <3> QED
      BY <2>2, <3>1, <3>2
  <2>4. phase' = phase
    BY <1>6 DEF mainVars
  <2> QED
    BY <2>3, <2>4, Zenon DEF QueueFresh
<1>9. FreshInv'
  BY <1>6, <1>8 DEF FreshInv, mainVars, callbackVars
<1>10. MainType' /\ CountInv' /\ HandlerType'
  BY <1>6 DEF MainType, CountInv, HandlerType, mainVars
<1>11. CallbackType' /\ SpeedsInv' /\ SignalInv'
  BY <1>6 DEF CallbackType, SpeedsInv, SignalInv, Startable, callbackVars
<1> QED
  BY <1>5, <1>9, <1>10, <1>11

\* Everything ages at once, and while the node spins nothing waits for it.
LEMMA TickStep == BridgeInv /\ Tick => BridgeInv'
<1> SUFFICES ASSUME BridgeInv, Tick PROVE BridgeInv'
  OBVIOUS
<1> USE DEF BridgeInv, TypeOK, Tick, Idle, Working
<1>1. Old \in Nat /\ \A n \in 0 .. Old : Older(n) \in 0 .. Old
  BY DEF Old, Older
<1>2. MainType' /\ CountInv'
  BY DEF MainType, CountInv, mainVars
<1>3. QueueType'
  <2>1. ASSUME NEW i \in DOMAIN queue PROVE queue'[i] \in Messages
    <3>1. queue[i] \in Messages
      BY DEF QueueType
    <3>2. queue'[i] = [queue[i] EXCEPT !.age = Older(@)]
      OBVIOUS
    <3>3. queue[i].age \in 0 .. Old
      BY <3>1 DEF Messages
    <3>4. Older(queue[i].age) \in 0 .. Old
      BY <1>1, <3>3
    <3> QED
      BY <3>1, <3>2, <3>4, Zenon DEF Messages
  <2>2. queue' \in Seq(Messages) /\ Len(queue') = Len(queue)
    BY <2>1 DEF QueueType
  <2> QED
    BY <2>2 DEF QueueType
<1>4. CallbackType'
  BY <1>1 DEF CallbackType
<1>5. HandlerType'
  BY DEF HandlerType
<1>6. SpeedsInv'
  BY DEF SpeedsInv, Startable
<1>7. SignalInv'
  BY DEF SignalInv
<1>8. QueueFresh'
  <2>1. CASE phase = "waiting"
    <3>1. \A i \in DOMAIN queue : queue[i].early
      BY <2>1 DEF FreshInv, QueueFresh
    <3>2. ASSUME NEW i \in DOMAIN queue'
          PROVE i \in DOMAIN queue /\ queue'[i].early = queue[i].early
      <4>1. DOMAIN queue' = DOMAIN queue
        OBVIOUS
      <4>2. queue[i] \in Messages /\ queue'[i] = [queue[i] EXCEPT !.age = Older(@)]
        BY <4>1 DEF QueueType
      <4> QED
        BY <4>1, <4>2 DEF Messages
    <3> QED
      BY <3>1, <3>2 DEF QueueFresh
  <2>2. CASE phase # "waiting"
    <3>1. queue = <<>>
      BY <2>2 DEF Spinning, MainType
    <3>2. DOMAIN queue' = {}
      BY <3>1
    <3> QED
      BY <3>2 DEF QueueFresh
  <2> QED
    BY <2>1, <2>2
<1>9. FreshInv'
  <2>1. ~origin'.early => origin'.age = since'
    BY DEF FreshInv, CallbackType
  <2> QED
    BY <1>8, <2>1 DEF FreshInv
<1> QED
  BY <1>2, <1>3, <1>4, <1>5, <1>6, <1>7, <1>9

-----------------------------------------------------------------------------
\* Every step keeps the invariant.
LEMMA StepBridge == BridgeInv /\ [Next]_vars => BridgeInv'
<1> SUFFICES ASSUME BridgeInv, [Next]_vars PROVE BridgeInv'
  OBVIOUS
<1>1. CASE Main \/ Answer
  BY <1>1, MainStep
<1>2. CASE Callback
  BY <1>2, CallbackStep
<1>3. CASE Handler \/ Signal
  BY <1>3, HandlerStep
<1>4. CASE \E cmd \in Commands : Command(cmd)
  BY <1>4, CommandStep
<1>5. CASE Tick
  BY <1>5, TickStep
<1>6. CASE NavGone \/ UNCHANGED vars
  <2>1. UNCHANGED <<mainVars, callbackVars, queue, fired, handler>>
        /\ nav_up' \in {nav_up, FALSE}
    BY <1>6 DEF NavGone, vars, mainVars, callbackVars
  <2>2. MainType' /\ CountInv' /\ QueueType' /\ HandlerType'
    BY <2>1 DEF BridgeInv, TypeOK, MainType, CountInv, QueueType, HandlerType, mainVars
  <2>3. CallbackType' /\ SpeedsInv' /\ SignalInv'
    BY <2>1 DEF BridgeInv, TypeOK, CallbackType, SpeedsInv, SignalInv, Startable, callbackVars
  <2>4. FreshInv'
    BY <2>1 DEF BridgeInv, FreshInv, QueueFresh, mainVars, callbackVars
  <2> QED
    BY <2>2, <2>3, <2>4 DEF BridgeInv, TypeOK
<1> QED
  BY <1>1, <1>2, <1>3, <1>4, <1>5, <1>6 DEF Next

\* cmd_to_aimavel.py, the whole node: the inductive invariant holds.
THEOREM BridgeInvariant == Spec => []BridgeInv
BY InitBridge, StepBridge, PTL DEF Spec

\* Every variable has its type.
THEOREM BridgeTypeCorrect == Spec => []TypeOK
<1>1. BridgeInv => TypeOK
  BY DEF BridgeInv
<1> QED
  BY <1>1, BridgeInvariant, PTL

\* publish_velocity: whatever Nav2 sends, the robot is only told speeds it can
\* start with and does not exceed.
THEOREM BridgeSpeedsStartable == Spec => []SpeedsStartable
<1>1. BridgeInv => SpeedsStartable
  BY DEF BridgeInv, SpeedsInv, SpeedsStartable
<1> QED
  BY <1>1, BridgeInvariant, PTL

\* signal_handler: once it has sent zero nothing else is sent, whichever
\* callback it interrupted.
THEOREM BridgeSignalStops == Spec => []SignalStops
<1>1. BridgeInv => SignalStops
  BY DEF BridgeInv, SignalInv, SignalStops
<1> QED
  BY <1>1, BridgeInvariant, PTL

\* publish_velocity, the watchdog: no command sent while the node spun is sent
\* on when it is older than the timeout.
THEOREM BridgeFreshOnceSpinning == Spec => []FreshOnceSpinning
<1>1. BridgeInv => FreshOnceSpinning
  BY DEF BridgeInv, FreshInv, FreshOnceSpinning
<1> QED
  BY <1>1, BridgeInvariant, PTL
=============================================================================
