-------------------------------- MODULE IkdNode --------------------------------
(***************************************************************************)
(* A node of the ikd-Tree of FAST_LIO_ROS2: its counts, marks and range,    *)
(* what Update makes of them and what Push_Down does to a son, the tests    *)
(* that skip a tree, and the heap of a search.  All that is not recursive,  *)
(* so that it can be reasoned about for any tree; IkdTree adds the           *)
(* recursion and the operations.  A tree is a node or Nil.                  *)
(***************************************************************************)
EXTENDS Integers, FiniteSets

CONSTANTS Nil,            \* nullptr
          Size            \* downsample_size

ASSUME NodeAssumption == Size \in Nat \ {0}

Axes == 1 .. 3
Coordinates == [Axes -> Int]
Sqr(x) == x * x
LeastOf(S) == CHOOSE x \in S : \A y \in S : x <= y
GreatestOf(S) == CHOOSE x \in S : \A y \in S : x >= y
Sum3(f) == f[1] + f[2] + f[3]

In(p, box) == \A a \in Axes : box.min[a] <= p[a] /\ p[a] < box.max[a]
\* Mutant of Disjoint: a box that begins where the range ends.
DisjointClosed(n, box) == \E a \in Axes : box.max[a] <= n.min[a] \/ box.min[a] >= n.max[a]

\* The two tests of a box against the range of a node.
Disjoint(n, box) == \E a \in Axes : box.max[a] <= n.min[a] \/ box.min[a] > n.max[a]
Covers(box, n) == \A a \in Axes : box.min[a] <= n.min[a] /\ n.max[a] < box.max[a]

Dist(p, q) == Sqr(p[1] - q[1]) + Sqr(p[2] - q[2]) + Sqr(p[3] - q[3])

\* Mutant of BoxDist: measured to the far side.
BoxDistFar(n, p) ==
  Sum3([a \in Axes |-> IF p[a] < n.min[a] THEN Sqr(n.max[a] - p[a])
                       ELSE IF p[a] > n.max[a] THEN Sqr(p[a] - n.min[a]) ELSE 0])

\* calc_box_dist of a node that is not null.
BoxDist(n, p) ==
  Sum3([a \in Axes |-> IF p[a] < n.min[a] THEN Sqr(n.min[a] - p[a])
                       ELSE IF p[a] > n.max[a] THEN Sqr(p[a] - n.max[a]) ELSE 0])

-----------------------------------------------------------------------------
InitTreeNode(p, axis) ==
  [point |-> p, division_axis |-> axis, left |-> Nil, right |-> Nil, min |-> p, max |-> p,
   TreeSize |-> 0, invalid_point_num |-> 0, down_del_num |-> 0,
   point_deleted |-> FALSE, tree_deleted |-> FALSE,
   point_downsample_deleted |-> FALSE, tree_downsample_deleted |-> FALSE,
   push_left |-> FALSE, push_right |-> FALSE]

\* Mutant of Inside: the sons count only if the point does.
InsideOwn(n) == {InitTreeNode(n.point, n.division_axis)} \union
                {s \in {n.left, n.right} \ {Nil} : ~n.point_deleted /\ ~s.tree_deleted}
\* Mutant of Inside: deleted parts count as well.
InsideAll(n) == {InitTreeNode(n.point, n.division_axis), n.left, n.right} \ {Nil}

\* The parts of a node its range takes in: those that are not deleted, or all
\* when there are none.
Inside(n) ==
  LET parts == {n.left, n.right} \ {Nil}
      own == {InitTreeNode(n.point, n.division_axis)}
      kept == {s \in parts : ~s.tree_deleted} \union {o \in own : ~n.point_deleted}
  IN  IF kept = {} THEN parts \union own ELSE kept

\* Update: a node from its sons.
Update(n) ==
  LET sons == {s \in {"left", "right"} : n[s] # Nil}
      Of(s, count) == IF s \in sons THEN n[s][count] ELSE 0
      Total(count, own) == Of("left", count) + Of("right", count) + IF own THEN 1 ELSE 0
  IN  [n EXCEPT
         !.TreeSize = Total("TreeSize", TRUE),
         !.invalid_point_num = Total("invalid_point_num", n.point_deleted),
         !.down_del_num = Total("down_del_num", n.point_downsample_deleted),
         !.tree_downsample_deleted = n.point_downsample_deleted
                                     /\ \A s \in sons : n[s].tree_downsample_deleted,
         !.tree_deleted = n.point_deleted /\ \A s \in sons : n[s].tree_deleted,
         !.min = [a \in Axes |-> LeastOf({o.min[a] : o \in Inside(n)})],
         !.max = [a \in Axes |-> GreatestOf({o.max[a] : o \in Inside(n)})]]

\* What Push_Down does to a son; its counts are those of a tree that is deleted
\* as a whole or not at all.
Inherit(son, father) ==
  LET sampled == son.tree_downsample_deleted \/ father.tree_downsample_deleted
      point_sampled == son.point_downsample_deleted \/ father.tree_downsample_deleted
      deleted == father.tree_deleted \/ sampled
      down == IF father.tree_downsample_deleted THEN son.TreeSize ELSE son.down_del_num
  IN  [son EXCEPT !.tree_downsample_deleted = sampled,
                  !.point_downsample_deleted = point_sampled,
                  !.tree_deleted = deleted,
                  !.point_deleted = deleted \/ point_sampled,
                  !.down_del_num = down,
                  !.invalid_point_num = IF father.tree_deleted THEN son.TreeSize ELSE down,
                  !.push_left = TRUE, !.push_right = TRUE]

\* Push_Down: a son that does not exist yet leaves its flag set.
PushDown(n) ==
  LET l == n.push_left /\ n.left # Nil
      r == n.push_right /\ n.right # Nil
  IN  [n EXCEPT !.left = IF l THEN Inherit(@, n) ELSE @,
                !.right = IF r THEN Inherit(@, n) ELSE @,
                !.push_left = @ /\ ~l,
                !.push_right = @ /\ ~r]

\* The point of a node, if it is not deleted.
Own(n) == IF n.point_deleted THEN {} ELSE {n.point}

GoesLeft(n, p) == p[n.division_axis] < n.point[n.division_axis]

\* The node holds the point and has not lost it.
IsHit(n, p) == n.point = p /\ ~n.point_deleted

\* The point is deleted, and the tree with its last point.
Hit(n) == [n EXCEPT !.point_deleted = TRUE,
                    !.invalid_point_num = @ + 1,
                    !.tree_deleted = @ \/ n.invalid_point_num + 1 = n.TreeSize]

\* Mutant of DeleteTree: the sons are not told.
DeleteTreeHere(n, sampling) ==
  [n EXCEPT !.tree_deleted = TRUE, !.point_deleted = TRUE,
            !.invalid_point_num = n.TreeSize,
            !.tree_downsample_deleted = @ \/ sampling,
            !.point_downsample_deleted = @ \/ sampling,
            !.down_del_num = IF sampling THEN n.TreeSize ELSE @]

\* What Delete_by_range does to a tree that lies in the box as a whole.
DeleteTree(n, sampling) ==
  [n EXCEPT !.tree_deleted = TRUE, !.point_deleted = TRUE,
            !.push_left = TRUE, !.push_right = TRUE,
            !.invalid_point_num = n.TreeSize,
            !.tree_downsample_deleted = @ \/ sampling,
            !.point_downsample_deleted = @ \/ sampling,
            !.down_del_num = IF sampling THEN n.TreeSize ELSE @]

-----------------------------------------------------------------------------
\* The son of a node that Search looks at first.
LeftFirst(n, t) == n.right = Nil \/ (n.left # Nil /\ BoxDist(n.left, t) <= BoxDist(n.right, t))

\* The heap of Search: its top is the farthest of the points found so far.
Top(q, t) == CHOOSE p \in q : \A o \in q : Dist(o, t) < Dist(p, t)
                                           \/ (Dist(o, t) = Dist(p, t) /\ o[1] <= p[1])
Open(q, k, t, distance) == Cardinality(q) < k \/ distance < Dist(Top(q, t), t)
Found(q, k, t, p) ==
  IF ~Open(q, k, t, Dist(p, t)) THEN q
  ELSE (IF Cardinality(q) >= k THEN q \ {Top(q, t)} ELSE q) \union {p}

-----------------------------------------------------------------------------
\* The cell of the downsampling grid a point lies in, and its centre (doubled).
Cell(p) == [min |-> [a \in Axes |-> (p[a] \div Size) * Size],
            max |-> [a \in Axes |-> (p[a] \div Size) * Size + Size]]
CentreDist(p) == Sum3([a \in Axes |-> Sqr(2 * p[a] - (Cell(p).min[a] + Cell(p).max[a]))])
Nearer(p, q) == CentreDist(p) < CentreDist(q)
=============================================================================
