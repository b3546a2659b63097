------------------------------ MODULE MCLocalMap -------------------------------
(* Two axes and a cube of five times the range; mid360.yaml has one of ten       *)
(* times, horizon.yaml one of 3.85 times.                                     *)
EXTENDS LocalMapProperties

MCDims == {1, 2}
MCSteps == {<<36, 0>>, <<-36, 0>>, <<18, 36>>, <<0, -36>>}
MCCorrections == {<<0, 0>>, <<-18, 0>>}
MCWorld == {<<0,0>>, <<-70, 90>>, <<99, -30>>}

\* What the theorems assume of the constants.
ASSUME RoomyAndSteady == Roomy /\ Steady
=============================================================================
