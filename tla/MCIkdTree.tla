------------------------------- MODULE MCIkdTree -------------------------------
(* A cell of the grid with three points, one with two and one with a single    *)
(* point; boxes that cut through cells and one that is a cell.                *)
EXTENDS IkdTreeProperties

MCPoints == {<<0, 3, 1>>, <<1, 0, 2>>, <<3, 1, 3>>, <<2, 5, 0>>, <<5, 6, 11>>, <<6, 7, 9>>}
MCBoxes == {[min |-> <<1, 0, 0>>, max |-> <<6, 6, 6>>],
            [min |-> <<0, 1, 0>>, max |-> <<9, 7, 9>>],
            [min |-> <<4, 4, 8>>, max |-> <<8, 8, 12>>]}
MCTargets == {<<0, 0, 0>>, <<4, 4, 2>>}

\* The odometry, and somebody who deletes points.
MCCallers == {{}, {<<1, 0, 2>>, <<5, 6, 11>>}}
=============================================================================
