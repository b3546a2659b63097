-------------------------------- MODULE IkdTree --------------------------------
(***************************************************************************)
(* The ikd-Tree of FAST_LIO_ROS2 as a data structure: deletions that only   *)
(* mark, marks that are pushed down when somebody passes, ranges that leave *)
(* out what is deleted, and subtrees that are built anew when too much of   *)
(* them is deleted or one side is too heavy.  A tree is a node or Nil.      *)
(*                                                                         *)
(* Trees of fewer than Multi_Thread_Rebuild_Point_Num points: Rebuild_Ptr is *)
(* null and everything happens in the thread that calls (IkdRebuild models  *)
(* the other case).  No two points agree in a coordinate, so that           *)
(* nth_element has one result.                                             *)
(***************************************************************************)
EXTENDS IkdNode

CONSTANTS Points,         \* points that are ever added, <<x, y, z>>
          Callers,        \* the sets of points Delete_Points may be called with; that
                          \* of the odometry is empty
          Boxes,          \* boxes that are ever deleted, [min, max]
          Minimal,        \* Minimal_Unbalanced_Tree_Size
          DeleteParam,    \* delete_criterion_param and balance_criterion_param,
          BalanceParam,   \* in tenths
          BuildMin,       \* Build is called with so many points at least
          Targets,        \* points that are looked for
          Wanted,         \* how many neighbours Nearest_Search is asked for
          MaxOps

\* A tree has no more nodes than points were ever added, and is no deeper.
MaxDepth == Cardinality(Points) + MaxOps

NodesOver(sons) ==
  [point : Points, division_axis : Axes, left : sons, right : sons,
   min : Coordinates, max : Coordinates,
   TreeSize : Nat, invalid_point_num : Nat, down_del_num : Nat,
   point_deleted : BOOLEAN, tree_deleted : BOOLEAN,
   point_downsample_deleted : BOOLEAN, tree_downsample_deleted : BOOLEAN,
   push_left : BOOLEAN, push_right : BOOLEAN]

\* The trees that are not deeper than d.
Level[d \in 0 .. MaxDepth] == {Nil} \union (IF d = 0 THEN {} ELSE NodesOver(Level[d - 1]))

\* The trees there can be, on which the recursive functions are defined.
Trees == Level[MaxDepth]

ASSUME TreeAssumption ==
  /\ BuildMin \in Nat \ {0} /\ Minimal \in Nat \ {0} /\ MaxOps \in Nat
  /\ IsFiniteSet(Points) /\ Points \subseteq Coordinates /\ Targets \subseteq Coordinates
  /\ Boxes \subseteq [min : Coordinates, max : Coordinates]
  /\ Callers \subseteq SUBSET Points /\ Wanted \subseteq Nat \ {0}
  /\ DeleteParam \in 1 .. 9 /\ BalanceParam \in 6 .. 9
  /\ \A p, q \in Points : p # q => \A a \in Axes : p[a] # q[a]
  /\ Nil \notin NodesOver(Trees)

VARIABLES deletable, \* who uses the tree: a member of Callers, never changed
          root,     \* Root_Node
          last,     \* history: the last call, its arguments and its result
          crashed,  \* a null pointer has been read
          ops

vars == <<deletable, root, last, crashed, ops>>

-----------------------------------------------------------------------------
\* BuildTree: divided at the median of the longest side.
BuildTree[S \in SUBSET Points] ==
  IF S = {} THEN Nil
  ELSE LET Side(a) == GreatestOf({p[a] : p \in S}) - LeastOf({p[a] : p \in S})
           axis == CHOOSE a \in Axes : /\ \A b \in Axes : Side(b) <= Side(a)
                                       /\ \A b \in 1 .. a - 1 : Side(b) < Side(a)
           Below(p) == {q \in S : q[axis] < p[axis]}
           mid == CHOOSE p \in S : Cardinality(Below(p)) = (Cardinality(S) - 1) \div 2
       IN  Update([InitTreeNode(mid, axis) EXCEPT
                     !.left = BuildTree[Below(mid)],
                     !.right = BuildTree[(S \ Below(mid)) \ {mid}]])

\* flatten: the points that are not deleted, and the tree it leaves.
Flatten[n \in Trees] ==
  IF n = Nil THEN [tree |-> Nil, points |-> {}]
  ELSE LET m == PushDown(n)
           l == Flatten[m.left]
           r == Flatten[m.right]
       IN  [tree |-> [m EXCEPT !.left = l.tree, !.right = r.tree],
            points |-> l.points \union r.points \union Own(m)]

\* Criterion_Check
CriterionCheck(n) ==
  /\ n.TreeSize > Minimal
  /\ LET son == IF n.left # Nil THEN n.left ELSE n.right
         others == n.TreeSize - 1
     IN  \/ n.invalid_point_num * 10 > DeleteParam * n.TreeSize
         \/ son.TreeSize * 10 > BalanceParam * others
         \/ son.TreeSize * 10 < (10 - BalanceParam) * others

Rebuild(n) == BuildTree[Flatten[n].points]

\* The end of every operation on a node whose sons it changed.
Settle(n) == LET m == Update(n) IN IF CriterionCheck(m) THEN Rebuild(m) ELSE m

-----------------------------------------------------------------------------
\* The axis a new leaf is divided along, after its father's.
AxisAfter(axis) == (axis % 3) + 1

\* Add_by_point, of a tree that is there.
AddByPoint(tree, p) ==
  LET add[n \in Trees \ {Nil}] ==
        LET m == PushDown(n)
            To(son) == IF son = Nil THEN Update(InitTreeNode(p, AxisAfter(m.division_axis)))
                                    ELSE add[son]
        IN  Settle(IF GoesLeft(m, p) THEN [m EXCEPT !.left = To(@)] ELSE [m EXCEPT !.right = To(@)])
  IN  add[tree]

\* Delete_by_point: the node that is hit is neither updated nor checked.
DeleteByPoint(tree, p) ==
  LET delete[n \in Trees] ==
        IF n = Nil THEN Nil
        ELSE IF n.tree_deleted THEN n
        ELSE LET m == PushDown(n)
             IN  IF IsHit(m, p) THEN Hit(m)
                 ELSE Settle(IF GoesLeft(m, p) THEN [m EXCEPT !.left = delete[@]]
                                               ELSE [m EXCEPT !.right = delete[@]])
  IN  delete[tree]

\* Delete_by_range, which returns the number of points it deleted.
DeleteByRange(tree, box, sampling) ==
  LET delete[n \in Trees] ==
        IF n = Nil THEN [tree |-> Nil, count |-> 0]
        ELSE IF n.tree_deleted THEN [tree |-> n, count |-> 0]
        ELSE LET m == PushDown(n)
                 hit == ~m.point_deleted /\ In(m.point, box)
                 l == delete[m.left]
                 r == delete[m.right]
             IN  IF Disjoint(m, box) THEN [tree |-> m, count |-> 0]
                 ELSE IF Covers(box, m)
                 THEN [tree |-> DeleteTree(m, sampling), count |-> m.TreeSize - m.invalid_point_num]
                 ELSE [tree |-> Settle([m EXCEPT !.left = l.tree, !.right = r.tree,
                                           !.point_deleted = @ \/ hit,
                                           !.point_downsample_deleted = @ \/ (hit /\ sampling)]),
                       count |-> l.count + r.count + IF hit THEN 1 ELSE 0]
  IN  delete[tree]

\* Search_by_range; like every search it pushes marks down on its way.
SearchByRange(tree, box) ==
  LET search[n \in Trees] ==
        IF n = Nil THEN [tree |-> Nil, points |-> {}]
        ELSE LET m == PushDown(n)
                 l == search[m.left]
                 r == search[m.right]
             IN  IF Disjoint(m, box) THEN [tree |-> m, points |-> {}]
                 ELSE IF Covers(box, m) THEN Flatten[m]
                 ELSE [tree |-> [m EXCEPT !.left = l.tree, !.right = r.tree],
                       points |-> l.points \union r.points \union {p \in Own(m) : In(p, box)}]
  IN  search[tree]

\* Search: the nearer of the two sons first, the other one if it may still hold
\* a point that is nearer than the farthest found.
Search(tree, k, t, heap) ==
  LET search[n \in Trees] ==
        [q \in SUBSET Points |->
          IF n = Nil THEN [tree |-> n, heap |-> q]
          ELSE IF n.tree_deleted THEN [tree |-> n, heap |-> q]
          ELSE LET m == PushDown(n)
                   Visit(son, h) ==
                     IF son # Nil /\ Open(h, k, t, BoxDist(son, t)) THEN search[son][h]
                     ELSE [tree |-> son, heap |-> h]
                   own == IF m.point_deleted THEN q ELSE Found(q, k, t, m.point)
                   first == IF LeftFirst(m, t) THEN Visit(m.left, own) ELSE Visit(m.right, own)
                   second == IF LeftFirst(m, t) THEN Visit(m.right, first.heap)
                                                ELSE Visit(m.left, first.heap)
               IN  [tree |-> IF LeftFirst(m, t)
                             THEN [m EXCEPT !.left = first.tree, !.right = second.tree]
                             ELSE [m EXCEPT !.left = second.tree, !.right = first.tree],
                    heap |-> second.heap]]
  IN  search[tree][heap]

-----------------------------------------------------------------------------
Step == ~crashed /\ ops < MaxOps /\ ops' = ops + 1 /\ UNCHANGED deletable

Init ==
  /\ deletable \in Callers
  /\ root = Nil /\ last = [call |-> "KD_TREE"]
  /\ crashed = FALSE /\ ops = 0

\* Build, called when there is no tree; UpdateStatic: the father of the root
\* learns nothing that anybody reads.
Build(S) ==
  /\ Step
  /\ root = Nil
  /\ root' = BuildTree[S]
  /\ last' = [call |-> "Build", points |-> S]
  /\ UNCHANGED crashed

\* Add_Points with one point, downsample_on = FALSE.  The caller has looked at
\* Root_Node; division_axis is read from it.
Add(p) ==
  /\ Step
  /\ root # Nil
  /\ p \notin Flatten[root].points
  /\ root' = AddByPoint(root, p)
  /\ last' = [call |-> "Add", point |-> p]
  /\ UNCHANGED crashed

\* Add_Points with one point, downsample_on = TRUE: the new point replaces the
\* points of its cell, or the best of them does, or there is nothing to do.
AddDownsampled(p) ==
  LET box == Cell(p)
      search == SearchByRange(root, box)
      stored == search.points
      best == CHOOSE q \in stored \union {p} :
                /\ \A o \in stored \union {p} : ~Nearer(o, q)
                /\ q = p \/ Nearer(q, p)
      cleared == DeleteByRange(search.tree, box, TRUE).tree
      base == IF stored = {} THEN search.tree ELSE cleared
      one == Cardinality(stored) <= 1 /\ best # p
  IN  /\ Step
      /\ root # Nil
      /\ IF ~one /\ base = Nil
         THEN crashed' = TRUE /\ UNCHANGED <<root, last>>
         ELSE /\ root' = IF one THEN search.tree ELSE AddByPoint(base, best)
              /\ last' = [call |-> "AddDownsampled", point |-> p]
              /\ UNCHANGED crashed

\* Delete_Point_Boxes with one box.
DeleteBox(b) ==
  /\ Step
  /\ LET done == DeleteByRange(root, b, FALSE)
     IN  /\ root' = done.tree
         /\ last' = [call |-> "DeleteBox", box |-> b, count |-> done.count]
  /\ UNCHANGED crashed

\* Delete_Points with one point.
Delete(p) ==
  /\ Step
  /\ root' = DeleteByPoint(root, p)
  /\ last' = [call |-> "Delete", point |-> p]
  /\ UNCHANGED crashed

\* Nearest_Search, which pushes marks down on its way.
NearestSearch(t, k) ==
  /\ Step
  /\ LET done == Search(root, k, t, {})
     IN  /\ root' = done.tree
         /\ last' = [call |-> "NearestSearch", target |-> t, wanted |-> k, found |-> done.heap]
  /\ UNCHANGED crashed

Next ==
  \/ \E S \in SUBSET Points : Cardinality(S) >= BuildMin /\ Build(S)
  \/ \E p \in Points : Add(p) \/ AddDownsampled(p)
  \/ \E p \in deletable : Delete(p)
  \/ \E b \in Boxes : DeleteBox(b)
  \/ \E t \in Targets, k \in Wanted : NearestSearch(t, k)

Spec == Init /\ [][Next]_vars
=============================================================================
