----------------------------- MODULE MCIkdRebuild -----------------------------
(* Two points in one cell, boxes that hold one of them or both.             *)
EXTENDS IkdRebuildProperties

OneCell  == {{1, 2}}
TwoBoxes == {{1}, {1, 2}}
=============================================================================
