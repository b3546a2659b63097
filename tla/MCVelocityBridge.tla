--------------------------- MODULE MCVelocityBridge ---------------------------
(***************************************************************************)
(* Commands and limits for the runs of VelocityBridge.                     *)
(***************************************************************************)
EXTENDS VelocityBridgeProperties

CONSTANTS forward, angular

\* Below the dead band, below the start threshold, beyond the limit.
Sent  == {[a \in Axes |-> IF a = forward THEN 3 ELSE -9],
          [a \in Axes |-> IF a = forward THEN 9 ELSE 1]}
Upper == [a \in Axes |-> 5]
Lower == [a \in Axes |-> IF a = forward THEN 4 ELSE 2]
=============================================================================
