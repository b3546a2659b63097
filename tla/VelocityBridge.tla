---------------------------- MODULE VelocityBridge ----------------------------
(***************************************************************************)
(* cmd_to_aimavel.py: the node between Nav2 and the robot's motion         *)
(* control.  It registers as an input source, turns /cmd_vel into          *)
(* velocities the robot can start with, publishes the last one at a fixed  *)
(* rate, and stops the robot when commands stay away or a signal comes.    *)
(*                                                                         *)
(* The node has one thread.  Callbacks run only while it spins, which it   *)
(* does not while it waits for the service; a signal handler of Python     *)
(* runs between any two steps of whatever the thread is doing.             *)
(***************************************************************************)
EXTENDS Integers, Sequences

CONSTANTS
  Axes,       \* forward, lateral and angular
  Commands,   \* what Nav2 sends, after scaling: a speed per axis
  MaxSpeed, MinSpeed, \* the limits per axis
  Dead,       \* speeds below this one are noise
  Depth,      \* QoS depth of /cmd_vel
  Watchdog,   \* watchdog_timeout, in periods of the timer
  MaxWaits,   \* how often wait_for_service returns before the node gives up
  Attempts    \* requests before the node gives up

Zero == [a \in Axes |-> 0]
Old  == Watchdog + 1   \* bound: ages are counted up to here

ASSUME BridgeAssumption ==
  /\ Commands \subseteq [Axes -> Int]
  /\ MaxSpeed \in [Axes -> Nat] /\ MinSpeed \in [Axes -> Nat] /\ Dead \in Nat \ {0}
  /\ \A a \in Axes : MinSpeed[a] <= MaxSpeed[a]
  /\ Depth \in Nat \ {0} /\ Watchdog \in Nat
  /\ MaxWaits \in Nat \ {0} /\ Attempts \in Nat \ {0}

\* A command, how long ago it was sent, and whether the node spun by then.
Messages == [cmd : Commands, age : 0 .. Old, early : BOOLEAN]

VARIABLES
  phase,      \* where main is: "waiting", "calling", "running", "gone"
  waits,      \* fruitless calls of wait_for_service
  attempt,    \* i of the registration loop
  done,       \* future.done()
  queue,      \* /cmd_vel messages the subscription holds
  velocity,   \* forward_velocity, lateral_velocity, angular_velocity
  since,      \* now - last_cmd_time
  origin,     \* history: age and earliness of the command behind velocity
  pc,         \* the callback under way: "idle", "cmd", "check", "send"
  local,      \* what the callback holds: a message of Nav2's, or a velocity
  fired,      \* the timer ran in this period
  handler,    \* the signal handler: "none", "cleared", "sent"
  published,  \* the last velocity the robot was sent
  nav_up      \* Nav2 is there

vars == <<phase, waits, attempt, done, queue, velocity, since, origin, pc, local,
          fired, handler, published, nav_up>>
mainVars == <<phase, waits, attempt, done>>
callbackVars == <<velocity, since, origin, pc, local, published>>

Init ==
  /\ phase = "waiting" /\ waits = 0 /\ attempt = 0 /\ done = FALSE
  /\ queue = <<>> /\ velocity = Zero /\ since = 0
  /\ origin = [age |-> 0, early |-> FALSE]
  /\ pc = "idle" /\ local = Zero /\ fired = FALSE
  /\ handler = "none" /\ published = Zero /\ nav_up = TRUE

Spinning == phase \in {"calling", "running"}
\* The thread is in main or a callback, not in the signal handler.
Working  == phase # "gone" /\ handler = "none"
Idle     == Working /\ pc = "idle"

-----------------------------------------------------------------------------
(* What a command is turned into, per axis.                                *)

Clamp(v, max) == IF v > max THEN max ELSE IF v < -max THEN -max ELSE v

DeadbandAndMin(v, min) ==
  IF -Dead < v /\ v < Dead THEN 0
  ELSE IF 0 < v /\ v < min THEN min
  ELSE IF -min < v /\ v < 0 THEN -min
  ELSE v

\* Mutant of Convert: the start threshold first, then no limit.
ConvertNoClamp(cmd) == [a \in Axes |-> DeadbandAndMin(cmd[a], MinSpeed[a])]

Convert(cmd) == [a \in Axes |-> DeadbandAndMin(Clamp(cmd[a], MaxSpeed[a]), MinSpeed[a])]

-----------------------------------------------------------------------------
(* register_input_source.                                                  *)

ServiceFound ==
  /\ Idle /\ phase = "waiting"
  /\ phase' = "calling"
  /\ UNCHANGED <<waits, attempt, done, queue, callbackVars, fired, handler, nav_up>>

\* Two seconds without a service; the loop ends after eight.
WaitTimesOut ==
  /\ Idle /\ phase = "waiting"
  /\ waits' = waits + 1
  /\ phase' = IF waits' = MaxWaits THEN "gone" ELSE phase
  /\ UNCHANGED <<attempt, done, queue, callbackVars, fired, handler, nav_up>>

\* The answer to the request of this attempt; one to an earlier request
\* completes a future nobody looks at any more.
Answer ==
  /\ phase = "calling" /\ ~done
  /\ done' = TRUE
  /\ UNCHANGED <<phase, waits, attempt, queue, callbackVars, fired, handler, nav_up>>

\* spin_until_future_complete returns because of the answer; it may be one
\* that raises an exception.
Registered ==
  /\ Idle /\ phase = "calling" /\ done
  /\ phase' \in {"running", "gone"}
  /\ UNCHANGED <<waits, attempt, done, queue, callbackVars, fired, handler, nav_up>>

\* It returns because its time is up.
AttemptTimesOut ==
  /\ Idle /\ phase = "calling" /\ ~done
  /\ attempt' = attempt + 1
  /\ phase' = IF attempt' = Attempts THEN "gone" ELSE phase
  /\ UNCHANGED <<waits, done, queue, callbackVars, fired, handler, nav_up>>

-----------------------------------------------------------------------------
(* cmd_vel_callback.                                                       *)

TakeCommand ==
  /\ Idle /\ Spinning /\ queue # <<>>
  /\ pc' = "cmd" /\ local' = Head(queue) /\ queue' = Tail(queue)
  /\ since' = 0
  /\ UNCHANGED <<mainVars, velocity, origin, published, fired, handler, nav_up>>

UseCommand ==
  /\ Working /\ pc = "cmd"
  /\ velocity' = Convert(local.cmd)
  /\ origin' = [age |-> local.age, early |-> local.early]
  /\ pc' = "idle" /\ local' = Zero
  /\ UNCHANGED <<mainVars, queue, since, published, fired, handler, nav_up>>

-----------------------------------------------------------------------------
(* publish_velocity, run by the timer.                                     *)

TimerFires ==
  /\ Idle /\ Spinning /\ ~fired
  /\ fired' = TRUE /\ pc' = "check"
  /\ UNCHANGED <<mainVars, queue, velocity, since, origin, local, published, handler, nav_up>>

\* Mutant of Check: a command that is too old is not sent, and nothing else is.
CheckSilent ==
  /\ Working /\ pc = "check"
  /\ IF since > Watchdog
     THEN pc' = "idle" /\ UNCHANGED local
     ELSE pc' = "send" /\ local' = velocity
  /\ UNCHANGED <<mainVars, queue, velocity, since, origin, published, fired, handler, nav_up>>

\* Mutant of Check: there is no watchdog.
CheckNever ==
  /\ Working /\ pc = "check"
  /\ local' = velocity
  /\ pc' = "send"
  /\ UNCHANGED <<mainVars, queue, velocity, since, origin, published, fired, handler, nav_up>>

\* The watchdog, and the message that is built of the velocities.
Check ==
  /\ Working /\ pc = "check"
  /\ velocity' = IF since > Watchdog THEN Zero ELSE velocity
  /\ local' = velocity'
  /\ pc' = "send"
  /\ UNCHANGED <<mainVars, queue, since, origin, published, fired, handler, nav_up>>

\* Mutant of Send: the handler sets a flag for the loop and returns, so that the
\* callback it interrupted goes on.
SendAfterHandler ==
  /\ phase # "gone" /\ handler \in {"none", "sent"} /\ pc = "send"
  /\ published' = local
  /\ pc' = "idle" /\ local' = Zero
  /\ UNCHANGED <<mainVars, queue, velocity, since, origin, fired, handler, nav_up>>

Send ==
  /\ Working /\ pc = "send"
  /\ published' = local
  /\ pc' = "idle" /\ local' = Zero
  /\ UNCHANGED <<mainVars, queue, velocity, since, origin, fired, handler, nav_up>>

-----------------------------------------------------------------------------
(* signal_handler: it runs at once, on top of what it interrupts, and a    *)
(* second signal runs it again on top of itself.                           *)

Signal ==
  /\ phase # "gone"
  /\ handler' = "cleared" /\ velocity' = Zero
  /\ UNCHANGED <<mainVars, queue, since, origin, pc, local, published, fired, nav_up>>

SendZero ==
  /\ handler = "cleared" /\ phase # "gone"
  /\ handler' = "sent" /\ published' = velocity
  /\ UNCHANGED <<mainVars, queue, velocity, since, origin, pc, local, fired, nav_up>>

\* sys.exit abandons whatever was interrupted.
Exit ==
  /\ handler = "sent" /\ phase # "gone"
  /\ phase' = "gone"
  /\ UNCHANGED <<waits, attempt, done, queue, callbackVars, fired, handler, nav_up>>

-----------------------------------------------------------------------------
(* Nav2, and time.                                                         *)

\* /cmd_vel keeps the last Depth messages.
Command(cmd) ==
  LET msg == [cmd |-> cmd, age |-> 0, early |-> ~Spinning]
  IN /\ nav_up /\ phase # "gone"
     /\ queue' = Append(IF Len(queue) = Depth THEN Tail(queue) ELSE queue, msg)
     /\ UNCHANGED <<mainVars, callbackVars, fired, handler, nav_up>>

NavGone ==
  /\ nav_up /\ nav_up' = FALSE
  /\ UNCHANGED <<mainVars, queue, callbackVars, fired, handler>>

Older(n) == IF n = Old THEN Old ELSE n + 1

\* A period of the timer.  While the node spins it keeps up: it has run the
\* timer and taken the commands of the period before the next one begins.
Tick ==
  /\ Idle
  /\ Spinning => fired /\ queue = <<>>
  /\ fired' = FALSE
  /\ since' = Older(since)
  /\ origin' = [origin EXCEPT !.age = Older(@)]
  /\ queue' = [i \in DOMAIN queue |-> [queue[i] EXCEPT !.age = Older(@)]]
  /\ UNCHANGED <<mainVars, velocity, pc, local, published, handler, nav_up>>

-----------------------------------------------------------------------------
Main     == ServiceFound \/ WaitTimesOut \/ Registered \/ AttemptTimesOut
Callback == TakeCommand \/ UseCommand \/ TimerFires \/ Check \/ Send
Handler  == SendZero \/ Exit

Next ==
  \/ Main \/ Callback \/ Handler \/ Signal \/ Answer
  \/ \E cmd \in Commands : Command(cmd)
  \/ NavGone \/ Tick

Spec == Init /\ [][Next]_vars

\* The node's thread goes on and so does time; Nav2 may be silent, the service
\* absent.  Between any two callbacks main looks whether the answer came or the
\* attempt is over, however many commands there are.  Signals may never come,
\* but they do not come for ever: a handler that is interrupted by another
\* reaches its end at last.
FairSpec ==
  /\ Spec
  /\ WF_vars(WaitTimesOut) /\ SF_vars(Registered) /\ SF_vars(AttemptTimesOut)
  /\ WF_vars(TakeCommand) /\ WF_vars(UseCommand)
  /\ WF_vars(TimerFires) /\ WF_vars(Check) /\ WF_vars(Send)
  /\ WF_vars(SendZero) /\ SF_vars(Exit) /\ WF_vars(Tick)
=============================================================================
