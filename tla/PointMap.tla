------------------------------- MODULE PointMap -------------------------------
(***************************************************************************)
(* What the ikd-Tree of the odometry stands for: a set of points, of which a  *)
(* cell of the grid keeps one when points are added with downsampling, and    *)
(* that is trimmed to the map around the robot.  Every call changes the set in *)
(* the one way its name says, and returns what it says of the set.           *)
(***************************************************************************)
EXTENDS Integers, FiniteSets

CONSTANTS Points, Boxes, Targets, Wanted,
          Cell(_), Nearer(_, _), In(_, _), Dist(_, _)

VARIABLES map,
          last   \* the last call, its arguments and its result

mapVars == <<map, last>>

\* A point is added with downsampling: of the points of its cell and the new
\* one, one that is nearest to the centre of the cell stays.
Sampled(S, p) ==
  LET cell == {q \in S : In(q, Cell(p))} \union {p}
      best == {q \in cell : \A o \in cell : ~Nearer(o, q)}
  IN  {(S \ cell) \union {q} : q \in best}

Trimmed(S, box) == {p \in S : ~In(p, box)}

\* The sets of k points, or of all if there are fewer, than which no other point is
\* nearer to t.
NearestOf(S, t, k) ==
  {F \in SUBSET S : /\ Cardinality(F) = IF k <= Cardinality(S) THEN k ELSE Cardinality(S)
                    /\ \A p \in F, q \in S \ F : Dist(p, t) <= Dist(q, t)}

-----------------------------------------------------------------------------
Init == map = {} /\ last = [call |-> "KD_TREE"]

Build(S) ==
  /\ map = {}
  /\ map' = S
  /\ last' = [call |-> "Build", points |-> S]

\* One point of Add_Points, without and with downsampling.
Add(p) ==
  /\ map' = map \union {p}
  /\ last' = [call |-> "Add", point |-> p]

AddDownsampled(p) ==
  /\ map' \in Sampled(map, p)
  /\ last' = [call |-> "AddDownsampled", point |-> p]

\* One point of Delete_Points.
Delete(p) ==
  /\ map' = map \ {p}
  /\ last' = [call |-> "Delete", point |-> p]

\* One box of Delete_Point_Boxes, which returns how many points it deleted.
DeleteBox(b) ==
  /\ map' = Trimmed(map, b)
  /\ last' = [call |-> "DeleteBox", box |-> b, count |-> Cardinality(map) - Cardinality(map')]

NearestSearch(t, k) ==
  /\ UNCHANGED map
  /\ \E F \in NearestOf(map, t, k) :
       last' = [call |-> "NearestSearch", target |-> t, wanted |-> k, found |-> F]

Next ==
  \/ \E S \in SUBSET Points : Build(S)
  \/ \E p \in Points : Add(p) \/ AddDownsampled(p) \/ Delete(p)
  \/ \E b \in Boxes : DeleteBox(b)
  \/ \E t \in Targets, k \in Wanted : NearestSearch(t, k)

Spec == Init /\ [][Next]_mapVars
=============================================================================
