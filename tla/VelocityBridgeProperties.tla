----------------------- MODULE VelocityBridgeProperties -----------------------
(***************************************************************************)
(* What must hold of VelocityBridge.                                       *)
(***************************************************************************)
EXTENDS VelocityBridge

Velocities == [Axes -> Int]

(* Every variable has its type.                                            *)
MainType ==
  /\ phase \in {"waiting", "calling", "running", "gone"}
  /\ waits \in 0 .. MaxWaits /\ attempt \in 0 .. Attempts /\ done \in BOOLEAN
QueueType == queue \in Seq(Messages) /\ Len(queue) <= Depth
CallbackType ==
  /\ velocity \in Velocities /\ published \in Velocities
  /\ since \in 0 .. Old /\ origin \in [age : 0 .. Old, early : BOOLEAN]
  /\ pc \in {"idle", "cmd", "check", "send"}
  /\ (pc = "cmd" => local \in Messages) /\ (pc # "cmd" => local \in Velocities)
HandlerType ==
  handler \in {"none", "cleared", "sent"} /\ fired \in BOOLEAN /\ nav_up \in BOOLEAN
TypeOK == MainType /\ QueueType /\ CallbackType /\ HandlerType

(* The robot is told, per axis, to stand still or to move at a speed it    *)
(* can start with and does not exceed (clamp, then the start threshold).   *)
Startable(v) ==
  \A a \in Axes : \/ v[a] = 0
                  \/ MinSpeed[a] <= v[a] /\ v[a] <= MaxSpeed[a]
                  \/ MinSpeed[a] <= -v[a] /\ -v[a] <= MaxSpeed[a]
SpeedsStartable == Startable(published)

(* After the signal handler has sent zero nothing else is sent, whatever   *)
(* callback it interrupted and however many signals come.                  *)
SignalStops == handler = "sent" => published = Zero

(* The watchdog: what is about to be sent is zero or a command that Nav2   *)
(* sent no longer than the timeout ago, if Nav2 sent it while the node was *)
(* spinning.  (last_cmd_time is the time of the callback: a command that   *)
(* waited in the queue for the service to appear passes for a new one.)    *)
FreshOnceSpinning ==
  ~origin.early /\ pc = "send" /\ local # Zero => origin.age <= Watchdog

(* When Nav2 is gone the robot is in the end told to stand still, for      *)
(* good, or the node is gone too.                                          *)
NavGoneStops == ~nav_up ~> [](published = Zero \/ phase = "gone")
=============================================================================
