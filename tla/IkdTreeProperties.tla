-------------------------- MODULE IkdTreeProperties ---------------------------
(* What the ikd-Tree promises to the odometry that calls it.                 *)
EXTENDS IkdTree

\* The nodes of a tree as those who come down to them see them.
Nodes[n \in Trees] ==
  IF n = Nil THEN {}
  ELSE LET m == PushDown(n) IN {n} \union Nodes[m.left] \union Nodes[m.right]

Count[n \in Trees] == IF n = Nil THEN 0 ELSE 1 + Count[n.left] + Count[n.right]

\* The points of a tree: those that are not deleted once all marks are pushed
\* down.
Live[n \in Trees] ==
  IF n = Nil THEN {}
  ELSE LET m == PushDown(n) IN Own(m) \union Live[m.left] \union Live[m.right]

Contents == Live[root]

\* Update, 1475, Push_Down, 1372, and Delete_by_range, 787: whatever is pending,
\* the counts of every node are those of its points, and a subtree is marked
\* deleted only if no point of it is left.  Criterion_Check, validnum and the
\* result of Delete_Point_Boxes depend on the counts, searches on the mark.
CountsRight ==
  \A n \in Nodes[root] :
    LET points == Live[n]
    IN  /\ n.TreeSize = Count[n]
        /\ n.TreeSize - n.invalid_point_num = Cardinality(points)
        /\ n.tree_deleted => points = {}

\* Update, 1480-1595: the range of a node leaves out deleted points, never one
\* that is still there: searches and deletions skip a tree by its range.
RangesCover ==
  \A n \in Nodes[root] : \A p \in Live[n], a \in Axes :
    n.min[a] <= p[a] /\ p[a] <= n.max[a]

\* Nearest_Search, 426, and Search_by_range, 1247: a search that prunes by
\* marks, ranges and the heap's top finds what a search of every point finds.
SearchExact ==
  LET points == Contents
  IN  /\ \A t \in Targets, k \in Wanted :
           LET heap == Search(root, k, t, {}).heap
           IN  /\ heap \subseteq points
               /\ Cardinality(heap) = LeastOf({k, Cardinality(points)})
               /\ \A p \in heap, o \in points \ heap : Dist(p, t) <= Dist(o, t)
      /\ \A b \in Boxes : SearchByRange(root, b).points = {p \in points : In(p, b)}

\* Rebuild, 754: the subtree that replaces one may be empty, that of the root
\* never is: Add_Points reads Root_Node->division_axis after a deletion (519)
\* and the odometry looks at Root_Node only before (laserMapping.cpp:1005).
\* With Delete_Points, which returns before it updates the ranges, it may be.
RootStays == deletable = {} => ~crashed

Map == INSTANCE PointMap WITH map <- Contents

\* Build to Delete_Point_Boxes, 409-676: the tree behaves like the set of its points.
\* Each call does to the set what it is called to do, with the points it is called
\* with, and nothing else: a downsampled add leaves one point of the cell, one that is
\* nearest to its centre, Delete_Points takes its point and no other out, and a search
\* takes nothing out and returns the nearest.
IsPointMap == Map!Spec
=============================================================================
