------------------------------- MODULE MapProofs -------------------------------
(***************************************************************************)
(* The map of FAST_LIO_ROS2.  First the ikd-Tree that holds it: for any set  *)
(* of points, any sequence of operations and whatever is rebuilt on the way,  *)
(* a tree whose points are marked, pushed down and left out of ranges is the  *)
(* set of its points, its counts are right and its searches find what is     *)
(* there.  Then the cube it is kept in: the map follows the lidar in any      *)
(* number of dimensions, for every path it may take, if the cube is wide      *)
(* enough for the range: Roomy.                                             *)
(***************************************************************************)
EXTENDS IkdTreeProperties, LocalMapProperties, FiniteSetTheorems, WellFoundedInduction, TLAPS

\* A set of natural numbers has a least element.
LEMMA LeastNat ==
  ASSUME NEW S \in SUBSET Nat, S # {}
  PROVE  \E m \in S : \A n \in S : m <= n
<1> DEFINE R == {p \in Nat \X Nat : p[1] < p[2]}
<1>1. IsWellFoundedOn(R, Nat)
  BY NatLessThanWellFounded DEF OpToRel
<1>2. PICK m \in S : \A n \in S : <<n, m>> \notin R
  BY <1>1, WFMin
<1>3. ASSUME NEW n \in S PROVE m <= n
  <2>1. m \in Nat /\ n \in Nat /\ <<n, m>> \notin R
    BY <1>2
  <2>2. ~(n < m)
    BY <2>1
  <2> QED  BY <2>1, <2>2
<1> QED  BY <1>2, <1>3

-----------------------------------------------------------------------------
(* The nodes, by IkdNode: what Update, Push_Down and the deletions keep of  *)
(* the promises of a node, and why a search may skip a tree.                *)

Lies(p, n) == \A a \in Axes : n.min[a] <= p[a] /\ p[a] <= n.max[a]

\* The fields of a node; its sons are nodes or Nil.
Fields == DOMAIN InitTreeNode(0, 1)
IsNode(n) ==
  /\ n = [f \in Fields |-> n[f]]
  /\ n.point \in Coordinates /\ n.min \in Coordinates /\ n.max \in Coordinates
  /\ n.division_axis \in Axes
  /\ n.TreeSize \in Nat /\ n.invalid_point_num \in Nat /\ n.down_del_num \in Nat
  /\ n.point_deleted \in BOOLEAN /\ n.tree_deleted \in BOOLEAN
  /\ n.point_downsample_deleted \in BOOLEAN /\ n.tree_downsample_deleted \in BOOLEAN
  /\ n.push_left \in BOOLEAN /\ n.push_right \in BOOLEAN

\* What CountsRight and RangesCover demand of a node whose points are S.
Promises(n, S) ==
  /\ IsFiniteSet(S) /\ S \subseteq Coordinates
  /\ \A p \in S : Lies(p, n)
  /\ n.TreeSize - n.invalid_point_num = Cardinality(S)
  /\ n.tree_deleted => S = {}

\* q is the k nearest to t of the points V.
Nearest(q, k, t, V) ==
  /\ q \subseteq V /\ IsFiniteSet(V)
  /\ Cardinality(q) = IF Cardinality(V) <= k THEN Cardinality(V) ELSE k
  /\ \A p \in q, o \in V \ q : Dist(p, t) <= Dist(o, t)

\* Squares grow with what is squared, and so with its distance from 0.
LEMMA SqrGrows ==
  ASSUME NEW a \in Int, NEW b \in Int, 0 <= a, a <= b
  PROVE  Sqr(a) \in Int /\ Sqr(a) <= Sqr(b) /\ 0 <= Sqr(a)
<1>1. a * a <= a * b /\ a * b <= b * b /\ 0 <= a * a  OBVIOUS
<1> QED  BY <1>1 DEF Sqr

LEMMA SqrFar ==
  ASSUME NEW a \in Int, NEW b \in Int, 0 <= a, a <= b \/ b <= -a
  PROVE  Sqr(a) <= Sqr(b)
<1>1. Sqr(-b) = Sqr(b)  BY DEF Sqr
<1> QED  BY <1>1, SqrGrows, -b \in Int

LEMMA DistInt ==
  ASSUME NEW p \in Coordinates, NEW t \in Coordinates
  PROVE  Dist(p, t) \in Int
<1>1. \A a \in Axes : p[a] \in Int /\ t[a] \in Int  BY DEF Coordinates
<1>2. 1 \in Axes /\ 2 \in Axes /\ 3 \in Axes  BY DEF Axes
<1>3. \A i, j \in Int : Sqr(i - j) \in Int  BY DEF Sqr
<1> QED  BY <1>1, <1>2, <1>3 DEF Dist

\* calc_box_dist: no point of the range is nearer.
LEMMA BoxDistBelow ==
  ASSUME NEW n, IsNode(n), NEW p \in Coordinates, NEW t \in Coordinates, Lies(p, n)
  PROVE  BoxDist(n, t) \in Int /\ BoxDist(n, t) <= Dist(p, t)
<1> DEFINE d(a) == IF t[a] < n.min[a] THEN Sqr(n.min[a] - t[a])
                   ELSE IF t[a] > n.max[a] THEN Sqr(t[a] - n.max[a]) ELSE 0
<1>1. ASSUME NEW a \in Axes
      PROVE  d(a) \in Int /\ Sqr(p[a] - t[a]) \in Int /\ d(a) <= Sqr(p[a] - t[a])
  <2>1. /\ p[a] \in Int /\ t[a] \in Int /\ n.min[a] \in Int /\ n.max[a] \in Int
        /\ n.min[a] <= p[a] /\ p[a] <= n.max[a]
    BY DEF Coordinates, IsNode, Lies
  <2>2. \A i \in Int : Sqr(i) \in Int /\ 0 <= Sqr(i)
    <3> TAKE i \in Int
    <3>1. CASE 0 <= i  BY <3>1, SqrGrows
    <3>2. CASE i <= 0  BY <3>2, SqrGrows, -i \in Int, Sqr(-i) = Sqr(i) DEF Sqr
    <3> QED  BY <3>1, <3>2
  <2>3. CASE t[a] < n.min[a]
    <3>1. 0 <= n.min[a] - t[a] /\ n.min[a] - t[a] <= p[a] - t[a]
          /\ n.min[a] - t[a] \in Int /\ p[a] - t[a] \in Int
      BY <2>1, <2>3
    <3> QED  BY <2>2, <2>3, <3>1, SqrFar
  <2>4. CASE t[a] > n.max[a]
    <3>1. /\ 0 <= t[a] - n.max[a] /\ p[a] - t[a] <= -(t[a] - n.max[a])
          /\ t[a] - n.max[a] \in Int /\ p[a] - t[a] \in Int /\ ~(t[a] < n.min[a])
      BY <2>1, <2>4
    <3> QED  BY <2>2, <2>4, <3>1, SqrFar
  <2>5. CASE ~(t[a] < n.min[a]) /\ ~(t[a] > n.max[a])
    <3>1. d(a) = 0 /\ p[a] - t[a] \in Int  BY <2>1, <2>5
    <3> QED  BY <2>2, <3>1
  <2> QED  BY <2>3, <2>4, <2>5
<1>2. 1 \in Axes /\ 2 \in Axes /\ 3 \in Axes  BY DEF Axes
<1>3. BoxDist(n, t) = d(1) + d(2) + d(3)  BY <1>2 DEF BoxDist, Sum3
<1> HIDE DEF d
<1> QED  BY <1>1, <1>2, <1>3 DEF Dist

\* The tests of a box against the range of a node are right about its points.
LEMMA BoxTests ==
  ASSUME NEW n, IsNode(n), NEW p \in Coordinates, Lies(p, n),
         NEW box, box.min \in Coordinates, box.max \in Coordinates
  PROVE  /\ Disjoint(n, box) => ~In(p, box)
         /\ Covers(box, n) => In(p, box)
<1>1. \A a \in Axes : /\ p[a] \in Int /\ n.min[a] \in Int /\ n.max[a] \in Int
                      /\ box.min[a] \in Int /\ box.max[a] \in Int
                      /\ n.min[a] <= p[a] /\ p[a] <= n.max[a]
  BY DEF Coordinates, IsNode, Lies
<1>2. ASSUME Disjoint(n, box) PROVE ~In(p, box)
  <2>1. PICK a \in Axes : box.max[a] <= n.min[a] \/ box.min[a] > n.max[a]
    BY <1>2 DEF Disjoint
  <2> QED  BY <1>1, <2>1 DEF In
<1>3. ASSUME Covers(box, n), NEW a \in Axes PROVE box.min[a] <= p[a] /\ p[a] < box.max[a]
  BY <1>1, <1>3 DEF Covers
<1> QED  BY <1>2, <1>3 DEF In

\* The cells of the downsampling are a partition: a point lies in its own, and
\* whoever lies in it has the same.
LEMMA CellsPart ==
  ASSUME NEW p \in Coordinates, NEW q \in Coordinates
  PROVE  In(p, Cell(p)) /\ (In(q, Cell(p)) <=> Cell(q) = Cell(p))
<1> DEFINE low(x) == (x \div Size) * Size
<1>1. Size \in Nat \ {0}  BY NodeAssumption
<1>2. ASSUME NEW x \in Int PROVE low(x) \in Int /\ low(x) <= x /\ x < low(x) + Size
  <2>1. x \div Size \in Int /\ x % Size \in 0 .. Size - 1
        /\ x = Size * (x \div Size) + (x % Size)
    BY <1>1
  <2>2. Size * (x \div Size) = low(x) /\ low(x) \in Int  BY <1>1, <2>1
  <2> HIDE DEF low
  <2> QED  BY <1>1, <2>1, <2>2
<1>3. ASSUME NEW x \in Int, NEW y \in Int, low(x) <= y, y < low(x) + Size
      PROVE  low(y) = low(x)
  <2> DEFINE i == x \div Size
             j == y \div Size
  <2>1. i \in Int /\ j \in Int  BY <1>1
  <2>2. j * Size <= y /\ y < j * Size + Size  BY <1>2
  <2>3. i * Size <= y /\ y < i * Size + Size  BY <1>3
  <2>4. i = j
    <3> HIDE DEF i, j
    <3>1. CASE i < j
      <4>1. i + 1 <= j  BY <2>1, <3>1
      <4>2. (i + 1) * Size <= j * Size  BY <1>1, <2>1, <4>1
      <4>3. (i + 1) * Size = i * Size + Size  BY <1>1, <2>1
      <4>4. i * Size \in Int /\ j * Size \in Int  BY <1>1, <2>1
      <4> QED  BY <1>1, <1>3, <2>2, <2>3, <4>2, <4>3, <4>4
    <3>2. CASE j < i
      <4>1. j + 1 <= i  BY <2>1, <3>2
      <4>2. (j + 1) * Size <= i * Size  BY <1>1, <2>1, <4>1
      <4>3. (j + 1) * Size = j * Size + Size  BY <1>1, <2>1
      <4>4. i * Size \in Int /\ j * Size \in Int  BY <1>1, <2>1
      <4> QED  BY <1>1, <1>3, <2>2, <2>3, <4>2, <4>3, <4>4
    <3> QED  BY <2>1, <3>1, <3>2
  <2> QED  BY <2>4
<1>4. \A a \in Axes : p[a] \in Int /\ q[a] \in Int  BY DEF Coordinates
<1>5. \A x \in Coordinates, a \in Axes : /\ Cell(x).min[a] = low(x[a])
                                         /\ Cell(x).max[a] = low(x[a]) + Size
  BY DEF Cell
<1>6. In(p, Cell(p))  BY <1>2, <1>4, <1>5 DEF In
<1>7. ASSUME In(q, Cell(p)) PROVE Cell(q) = Cell(p)
  <2>1. ASSUME NEW a \in Axes PROVE low(q[a]) = low(p[a])
    BY <1>3, <1>4, <1>5, <1>7 DEF In
  <2> QED  BY <2>1 DEF Cell
<1>8. ASSUME Cell(q) = Cell(p) PROVE In(q, Cell(p))
  BY <1>2, <1>4, <1>5, <1>8 DEF In
<1> QED  BY <1>6, <1>7, <1>8

\* The heap has a top.
LEMMA TopExists ==
  ASSUME NEW q, IsFiniteSet(q), q # {}, q \subseteq Coordinates, NEW t \in Coordinates
  PROVE  Top(q, t) \in q /\ \A o \in q : Dist(o, t) <= Dist(Top(q, t), t)
<1> DEFINE Over(p, o) == Dist(o, t) < Dist(p, t) \/ (Dist(o, t) = Dist(p, t) /\ o[1] <= p[1])
           HasTop(s) == \E p \in s : \A o \in s : Over(p, o)
           Bad == {c \in Nat : \E s \in SUBSET q : s # {} /\ Cardinality(s) = c /\ ~HasTop(s)}
<1>1. \A p \in q : Dist(p, t) \in Int /\ p[1] \in Int
  BY DistInt DEF Coordinates, Axes
<1>2. Bad = {}
  <2> SUFFICES ASSUME Bad # {} PROVE FALSE  OBVIOUS
  <2>1. PICK c \in Bad : \A b \in Bad : c <= b  BY LeastNat
  <2>2. PICK s \in SUBSET q : s # {} /\ Cardinality(s) = c /\ ~HasTop(s)  BY <2>1
  <2>3. PICK x \in s : TRUE  BY <2>2
  <2> DEFINE r == s \ {x}
  <2>4. c \in Nat /\ IsFiniteSet(s) /\ r \in SUBSET q /\ Cardinality(r) = c - 1 /\ c - 1 \in Nat
    <3>1. IsFiniteSet(s) /\ c \in Nat  BY <2>1, FS_Subset
    <3>2. IsFiniteSet(r) /\ Cardinality(r) = c - 1  BY <2>2, <2>3, <3>1, FS_RemoveElement
    <3> QED  BY <3>1, <3>2, FS_CardinalityType
  <2>5. CASE r = {}
    <3>1. s = {x}  BY <2>3, <2>5
    <3>2. Over(x, x)  BY <1>1, <2>3
    <3> QED  BY <2>2, <3>1, <3>2
  <2>6. CASE r # {}
    <3>1. HasTop(r)
      <4>1. c - 1 \notin Bad  BY <2>1, <2>4
      <4> QED  BY <2>4, <2>6, <4>1
    <3>2. PICK y \in r : \A o \in r : Over(y, o)  BY <3>1
    <3>3. x \in q /\ y \in q /\ \A o \in s : o \in q /\ (o = x \/ o \in r)  BY <2>3, <3>2
    <3>4. CASE Over(y, x)
      <4>1. \A o \in s : Over(y, o)  BY <3>2, <3>3, <3>4
      <4> QED  BY <2>2, <3>2, <4>1
    <3>5. CASE ~Over(y, x)
      <4>1. \A o \in s : Over(x, o)  BY <1>1, <3>2, <3>3, <3>5
      <4> QED  BY <2>2, <2>3, <4>1
    <3> QED  BY <3>4, <3>5
  <2> QED  BY <2>5, <2>6
<1>3. HasTop(q)
  <2>1. Cardinality(q) \in Nat  BY FS_CardinalityType
  <2> QED  BY <1>2, <2>1
<1>4. Top(q, t) \in q /\ \A o \in q : Over(Top(q, t), o)  BY <1>3 DEF Top
<1> QED  BY <1>1, <1>4

\* A point that the heap does not take is not among the nearest.
LEMMA ClosedToFar ==
  ASSUME NEW V, NEW S, V \subseteq Coordinates, S \subseteq Coordinates, IsFiniteSet(S),
         NEW t \in Coordinates, NEW k \in Nat \ {0}, NEW q, Nearest(q, k, t, V),
         NEW d \in Int, ~Open(q, k, t, d), \A p \in S : d <= Dist(p, t)
  PROVE  Nearest(q, k, t, V \union S)
<1>1. /\ q \subseteq V /\ IsFiniteSet(V) /\ IsFiniteSet(q) /\ Cardinality(q) \in Nat
      /\ Cardinality(V) \in Nat
  BY FS_Subset, FS_CardinalityType DEF Nearest
<1>2. Cardinality(q) >= k /\ Dist(Top(q, t), t) <= d /\ q # {}
  <2>1. Cardinality(q) >= k  BY <1>1 DEF Open
  <2>2. q # {}  BY <1>1, <2>1, FS_EmptySet
  <2>3. Dist(Top(q, t), t) \in Int  BY <1>1, <2>2, TopExists, DistInt
  <2> QED  BY <2>1, <2>2, <2>3 DEF Open
<1>3. \A p \in q : Dist(p, t) <= Dist(Top(q, t), t)  BY <1>1, <1>2, TopExists
<1>4. ASSUME NEW p \in q, NEW o \in S PROVE Dist(p, t) <= Dist(o, t)
  <2>1. /\ Dist(p, t) <= Dist(Top(q, t), t) /\ Dist(Top(q, t), t) <= d /\ d <= Dist(o, t)
        /\ Dist(p, t) \in Int /\ Dist(Top(q, t), t) \in Int /\ Dist(o, t) \in Int
    BY <1>1, <1>2, <1>3, <1>4, TopExists, DistInt
  <2> QED  BY <2>1
<1>5. IsFiniteSet(V \union S) /\ Cardinality(V) <= Cardinality(V \union S)
      /\ Cardinality(V \union S) \in Nat
  BY <1>1, FS_Union, FS_Subset, FS_CardinalityType
<1>6. Cardinality(q) = IF Cardinality(V \union S) <= k THEN Cardinality(V \union S) ELSE k
  <2>1. Cardinality(q) = k  BY <1>1, <1>2 DEF Nearest
  <2>2. k <= Cardinality(V)  BY <1>1, <2>1, FS_Subset
  <2> QED  BY <1>1, <1>5, <2>1, <2>2
<1> QED  BY <1>1, <1>4, <1>5, <1>6 DEF Nearest

\* One point: the heap holds the nearest of those seen before and this one.
LEMMA FoundIsNearest ==
  ASSUME NEW V, V \subseteq Coordinates, NEW p \in Coordinates, p \notin V,
         NEW t \in Coordinates, NEW k \in Nat \ {0}, NEW q, Nearest(q, k, t, V)
  PROVE  Nearest(Found(q, k, t, p), k, t, V \union {p})
<1> DEFINE d == Dist(p, t)
           W == V \union {p}
<1>1. /\ q \subseteq V /\ IsFiniteSet(V) /\ IsFiniteSet(q) /\ Cardinality(q) \in Nat
      /\ Cardinality(V) \in Nat /\ d \in Int /\ p \notin q
      /\ IsFiniteSet(W) /\ Cardinality(W) = Cardinality(V) + 1
  BY FS_Subset, FS_CardinalityType, FS_AddElement, DistInt DEF Nearest
<1>2. CASE ~Open(q, k, t, d)
  <2>1. Found(q, k, t, p) = q  BY <1>2 DEF Found
  <2>2. Nearest(q, k, t, V \union {p})
    <3> DEFINE S == {p}
    <3>1. S \subseteq Coordinates /\ IsFiniteSet(S)  BY FS_Singleton
    <3>2. d \in Int /\ ~Open(q, k, t, d)  BY <1>1, <1>2
    <3>3. \A o \in S : d <= Dist(o, t)
      <4>1. Dist(p, t) \in Int  BY <1>1
      <4> QED  BY <4>1
    <3> HIDE DEF d, S
    <3>4. Nearest(q, k, t, V \union S)  BY <3>1, <3>2, <3>3, ClosedToFar
    <3> QED  BY <3>4 DEF S
  <2> QED  BY <2>1, <2>2
<1>3. CASE Cardinality(q) < k
  <2>1. Found(q, k, t, p) = q \union {p}  BY <1>1, <1>3 DEF Found, Open
  <2>2. Cardinality(q) = Cardinality(V)  BY <1>1, <1>3 DEF Nearest
  <2>3. q = V  BY <1>1, <2>2, FS_Subset
  <2>4. Cardinality(W) <= k  BY <1>1, <1>3, <2>2
  <2> QED  BY <1>1, <2>1, <2>3, <2>4 DEF Nearest
<1>4. CASE Cardinality(q) >= k /\ Open(q, k, t, d)
  <2> DEFINE top == Top(q, t)
             r == (q \ {top}) \union {p}
  <2>1. q # {} /\ Cardinality(q) = k /\ k < Cardinality(W)
    <3>1. Cardinality(q) = k  BY <1>1, <1>4 DEF Nearest
    <3>2. Cardinality(q) <= Cardinality(V)  BY <1>1, FS_Subset
    <3> QED  BY <1>1, <3>1, <3>2, FS_EmptySet
  <2>2. top \in q /\ \A o \in q : Dist(o, t) <= Dist(top, t)  BY <1>1, <2>1, TopExists
  <2>3. Found(q, k, t, p) = r  BY <1>4 DEF Found
  <2>4. d < Dist(top, t)  BY <1>1, <1>4, <2>1 DEF Open
  <2>5. Cardinality(r) = k /\ r \subseteq W
    <3>1. IsFiniteSet(q \ {top}) /\ Cardinality(q \ {top}) = k - 1
      BY <1>1, <2>1, <2>2, FS_RemoveElement
    <3>2. Cardinality(r) = k - 1 + 1  BY <1>1, <3>1, FS_AddElement
    <3> QED  BY <1>1, <3>2
  <2>6. \A x \in W : Dist(x, t) \in Int /\ x \in Coordinates  BY DistInt
  <2> HIDE DEF top
  <2>7. ASSUME NEW x \in r, NEW o \in W \ r PROVE Dist(x, t) <= Dist(o, t)
    <3>1. o \in V /\ (o = top \/ o \in V \ q)  BY <2>7
    <3>2. Dist(top, t) <= Dist(o, t)
      <4>1. CASE o = top  BY <2>2, <2>6, <3>1, <4>1
      <4>2. CASE o \in V \ q  BY <2>2, <4>2 DEF Nearest
      <4> QED  BY <3>1, <4>1, <4>2
    <3>3. Dist(x, t) <= Dist(top, t)
      <4>1. CASE x = p  BY <1>1, <2>2, <2>4, <2>6, <1>1, <4>1
      <4>2. CASE x \in q  BY <2>2, <4>2
      <4> QED  BY <2>7, <4>1, <4>2
    <3>4. top \in W /\ x \in W  BY <1>1, <2>2, <2>7
    <3> QED  BY <2>6, <2>7, <3>2, <3>3, <3>4
  <2> QED  BY <1>1, <2>1, <2>3, <2>5, <2>7 DEF Nearest
<1>5. Cardinality(q) < k \/ Cardinality(q) >= k  BY <1>1
<1> QED  BY <1>2, <1>3, <1>4, <1>5

-----------------------------------------------------------------------------
Outside(S, box) == {p \in S : ~In(p, box)}

\* A son that is there promises S; one that is not has no points.
Son(s, S) == IF s = Nil THEN S = {} ELSE IsNode(s) /\ Promises(s, S)

\* The range of a node takes in those of all its parts that are not deleted.
LEMMA InsideLies ==
  ASSUME NEW n, n.left = Nil \/ IsNode(n.left), n.right = Nil \/ IsNode(n.right),
         IsNode(n), NEW o \in Inside(n), NEW a \in Axes
  PROVE  /\ Update(n).min[a] \in Int /\ Update(n).max[a] \in Int
         /\ Update(n).min[a] <= o.min[a] /\ o.max[a] <= Update(n).max[a]
         /\ \E x \in Inside(n) : Update(n).min[a] = x.min[a]
         /\ \E x \in Inside(n) : Update(n).max[a] = x.max[a]
<1> DEFINE own == InitTreeNode(n.point, n.division_axis)
           I == Inside(n)
           lo == {x.min[a] : x \in I}
           hi == {x.max[a] : x \in I}
<1>1. own.min = n.point /\ own.max = n.point  BY DEF InitTreeNode
<1>2. I \subseteq {n.left, n.right, own} \ {Nil} \/ I \subseteq {n.left, n.right, own}
  BY DEF Inside
<1>3. \A x \in I : x = own \/ (x = n.left /\ n.left # Nil) \/ (x = n.right /\ n.right # Nil)
  BY DEF Inside
<1>4. \A x \in I : x.min[a] \in Int /\ x.max[a] \in Int
  BY <1>1, <1>3 DEF IsNode, Coordinates
<1>5. PICK l, r : I \subseteq {own, l, r}  BY <1>2
<1>6. \E x \in lo : \A y \in lo : x <= y
  <2>1. lo # {} /\ \A x \in lo : x \in Int  BY <1>4
  <2>2. \A x \in lo : x = own.min[a] \/ x = l.min[a] \/ x = r.min[a]  BY <1>5
  <2> HIDE DEF lo, own
  <2> QED  BY <2>1, <2>2
<1>7. \E x \in hi : \A y \in hi : x >= y
  <2>1. hi # {} /\ \A x \in hi : x \in Int  BY <1>4
  <2>2. \A x \in hi : x = own.max[a] \/ x = l.max[a] \/ x = r.max[a]  BY <1>5
  <2> HIDE DEF hi, own
  <2> QED  BY <2>1, <2>2
<1>8. LeastOf(lo) \in lo /\ \A y \in lo : LeastOf(lo) <= y  BY <1>6 DEF LeastOf
<1>9. GreatestOf(hi) \in hi /\ \A y \in hi : GreatestOf(hi) >= y  BY <1>7 DEF GreatestOf
<1>10. Update(n).min[a] = LeastOf(lo) /\ Update(n).max[a] = GreatestOf(hi)
  <2>1. {"min", "max"} \subseteq Fields  BY DEF Fields, InitTreeNode
  <2>2. {"min", "max"} \subseteq DOMAIN n  BY <2>1 DEF IsNode
  <2> QED  BY <2>2 DEF Update
<1> QED  BY <1>4, <1>8, <1>9, <1>10

\* The names of the fields, for terms with EXCEPT.
LEMMA FieldNames ==
  Fields = {"point", "division_axis", "left", "right", "min", "max", "TreeSize",
            "invalid_point_num", "down_del_num", "point_deleted", "tree_deleted",
            "point_downsample_deleted", "tree_downsample_deleted", "push_left", "push_right"}
BY DEF Fields, InitTreeNode

\* Update, field by field.
LEMMA UpdateFields ==
  ASSUME NEW n, IsNode(n)
  PROVE  LET u == Update(n)
             count(s, c) == IF s # Nil THEN s[c] ELSE 0
         IN  /\ u = [f \in Fields |-> u[f]]
             /\ \A f \in {"point", "division_axis", "left", "right", "point_deleted",
                          "point_downsample_deleted", "push_left", "push_right"} : u[f] = n[f]
             /\ u.TreeSize = count(n.left, "TreeSize") + count(n.right, "TreeSize") + 1
             /\ u.invalid_point_num = count(n.left, "invalid_point_num")
                  + count(n.right, "invalid_point_num") + IF n.point_deleted THEN 1 ELSE 0
             /\ u.down_del_num = count(n.left, "down_del_num")
                  + count(n.right, "down_del_num") + IF n.point_downsample_deleted THEN 1 ELSE 0
             /\ u.tree_deleted \in BOOLEAN /\ u.tree_downsample_deleted \in BOOLEAN
             /\ u.tree_deleted <=> /\ n.point_deleted
                                   /\ n.left = Nil \/ n.left.tree_deleted
                                   /\ n.right = Nil \/ n.right.tree_deleted
             /\ u.tree_downsample_deleted <=> /\ n.point_downsample_deleted
                                              /\ n.left = Nil \/ n.left.tree_downsample_deleted
                                              /\ n.right = Nil \/ n.right.tree_downsample_deleted
<1> DEFINE u == Update(n)
           count(s, c) == IF s # Nil THEN s[c] ELSE 0
<1>1. DOMAIN n = Fields  BY DEF IsNode
<1>3. /\ u = [f \in Fields |-> u[f]]
      /\ \A f \in {"point", "division_axis", "left", "right", "point_deleted",
                   "point_downsample_deleted", "push_left", "push_right"} : u[f] = n[f]
  BY <1>1, FieldNames DEF Update
<1>4. /\ u.TreeSize = count(n.left, "TreeSize") + count(n.right, "TreeSize") + 1
      /\ u.invalid_point_num = count(n.left, "invalid_point_num")
           + count(n.right, "invalid_point_num") + IF n.point_deleted THEN 1 ELSE 0
      /\ u.down_del_num = count(n.left, "down_del_num")
           + count(n.right, "down_del_num") + IF n.point_downsample_deleted THEN 1 ELSE 0
  BY <1>1, FieldNames DEF Update
<1>5. /\ u.tree_deleted \in BOOLEAN /\ u.tree_downsample_deleted \in BOOLEAN
      /\ u.tree_deleted <=> /\ n.point_deleted
                            /\ n.left = Nil \/ n.left.tree_deleted
                            /\ n.right = Nil \/ n.right.tree_deleted
      /\ u.tree_downsample_deleted <=> /\ n.point_downsample_deleted
                                       /\ n.left = Nil \/ n.left.tree_downsample_deleted
                                       /\ n.right = Nil \/ n.right.tree_downsample_deleted
  BY <1>1, FieldNames DEF Update
<1> QED  BY <1>3, <1>4, <1>5

\* Update, 1475: a node promises the points of its sons and its own.
LEMMA UpdateKept ==
  ASSUME NEW n, IsNode(n), NEW L, NEW R, Son(n.left, L), Son(n.right, R),
         L \intersect R = {}, Own(n) \intersect (L \union R) = {}
  PROVE  IsNode(Update(n)) /\ Promises(Update(n), L \union R \union Own(n))
<1> DEFINE u == Update(n)
           S == L \union R \union Own(n)
           own == InitTreeNode(n.point, n.division_axis)
           count(s, c) == IF s # Nil THEN s[c] ELSE 0
<1>1. DOMAIN n = Fields  BY DEF IsNode
<1>3. /\ u = [f \in Fields |-> u[f]]
      /\ \A f \in {"point", "division_axis", "left", "right", "point_deleted",
                   "point_downsample_deleted", "push_left", "push_right"} : u[f] = n[f]
  BY UpdateFields
<1>4. /\ u.TreeSize = count(n.left, "TreeSize") + count(n.right, "TreeSize") + 1
      /\ u.invalid_point_num = count(n.left, "invalid_point_num")
           + count(n.right, "invalid_point_num") + IF n.point_deleted THEN 1 ELSE 0
      /\ u.down_del_num = count(n.left, "down_del_num")
           + count(n.right, "down_del_num") + IF n.point_downsample_deleted THEN 1 ELSE 0
  BY UpdateFields
<1>5. /\ u.tree_deleted \in BOOLEAN /\ u.tree_downsample_deleted \in BOOLEAN
      /\ u.tree_deleted => /\ n.point_deleted
                           /\ n.left = Nil \/ n.left.tree_deleted
                           /\ n.right = Nil \/ n.right.tree_deleted
  BY UpdateFields
<1>6. u.min \in Coordinates /\ u.max \in Coordinates
  <2>1. /\ u.min = [a \in Axes |-> u.min[a]] /\ u.max = [a \in Axes |-> u.max[a]]
    BY <1>1, FieldNames DEF Update
  <2>2. PICK o : o \in Inside(n)  BY DEF Inside
  <2>3. n.left = Nil \/ IsNode(n.left)  BY DEF Son
  <2>4. n.right = Nil \/ IsNode(n.right)  BY DEF Son
  <2>5. \A a \in Axes : u.min[a] \in Int /\ u.max[a] \in Int
    BY <2>2, <2>3, <2>4, InsideLies
  <2> QED  BY <2>1, <2>5 DEF Coordinates
<1>7. /\ count(n.left, "TreeSize") \in Nat /\ count(n.right, "TreeSize") \in Nat
      /\ count(n.left, "invalid_point_num") \in Nat /\ count(n.right, "invalid_point_num") \in Nat
      /\ count(n.left, "down_del_num") \in Nat /\ count(n.right, "down_del_num") \in Nat
  BY DEF Son, IsNode
<1>8. IsNode(u)
  <2>1. u.TreeSize \in Nat /\ u.invalid_point_num \in Nat /\ u.down_del_num \in Nat
    BY <1>4, <1>7
  <2> QED  BY <1>3, <1>5, <1>6, <2>1 DEF IsNode
<1>9. /\ IsFiniteSet(L) /\ IsFiniteSet(R) /\ IsFiniteSet(Own(n)) /\ S \subseteq Coordinates
      /\ Cardinality(L) = count(n.left, "TreeSize") - count(n.left, "invalid_point_num")
      /\ Cardinality(R) = count(n.right, "TreeSize") - count(n.right, "invalid_point_num")
      /\ Cardinality(Own(n)) = IF n.point_deleted THEN 0 ELSE 1
  <2>1. /\ IsFiniteSet(L) /\ L \subseteq Coordinates
        /\ Cardinality(L) = count(n.left, "TreeSize") - count(n.left, "invalid_point_num")
    BY FS_EmptySet DEF Son, Promises
  <2>2. /\ IsFiniteSet(R) /\ R \subseteq Coordinates
        /\ Cardinality(R) = count(n.right, "TreeSize") - count(n.right, "invalid_point_num")
    BY FS_EmptySet DEF Son, Promises
  <2>3. /\ IsFiniteSet(Own(n)) /\ Own(n) \subseteq Coordinates
        /\ Cardinality(Own(n)) = IF n.point_deleted THEN 0 ELSE 1
    BY FS_EmptySet, FS_Singleton DEF Own, IsNode
  <2> QED  BY <2>1, <2>2, <2>3
<1>10. IsFiniteSet(S) /\ Cardinality(S) = Cardinality(L) + Cardinality(R) + Cardinality(Own(n))
  <2>1. /\ IsFiniteSet(L \union R)
        /\ Cardinality(L \union R) = Cardinality(L) + Cardinality(R) - Cardinality({})
    BY <1>9, FS_Union
  <2>2. /\ IsFiniteSet(S)
        /\ Cardinality(S) = Cardinality(L \union R) + Cardinality(Own(n)) - Cardinality({})
    BY <1>9, <2>1, FS_Union
  <2> QED  BY <1>9, <2>1, <2>2, FS_EmptySet, FS_CardinalityType
<1>11. u.TreeSize - u.invalid_point_num = Cardinality(S)
  BY <1>4, <1>7, <1>9, <1>10 DEF IsNode
<1>12. ASSUME NEW p \in S PROVE Lies(p, u)
  <2>1. n.left = Nil \/ IsNode(n.left)  BY DEF Son
  <2>2. n.right = Nil \/ IsNode(n.right)  BY DEF Son
  <2>3. ASSUME NEW o \in Inside(n), Lies(p, o), o.min \in Coordinates, o.max \in Coordinates
        PROVE  Lies(p, u)
    <3> SUFFICES ASSUME NEW a \in Axes PROVE u.min[a] <= p[a] /\ p[a] <= u.max[a]
      BY DEF Lies
    <3>1. /\ u.min[a] \in Int /\ u.max[a] \in Int
          /\ u.min[a] <= o.min[a] /\ o.max[a] <= u.max[a]
      BY <2>1, <2>2, InsideLies
    <3>2. /\ o.min[a] <= p[a] /\ p[a] <= o.max[a]
          /\ o.min[a] \in Int /\ o.max[a] \in Int /\ p[a] \in Int
      BY <1>9, <2>3 DEF Lies, Coordinates
    <3> QED  BY <3>1, <3>2
  <2>4. CASE p \in L
    <3>1. n.left # Nil /\ ~n.left.tree_deleted /\ IsNode(n.left) /\ Lies(p, n.left)
      BY <2>4 DEF Son, Promises
    <3>2. n.left \in Inside(n)  BY <3>1 DEF Inside
    <3> QED  BY <2>3, <3>1, <3>2 DEF IsNode
  <2>5. CASE p \in R
    <3>1. n.right # Nil /\ ~n.right.tree_deleted /\ IsNode(n.right) /\ Lies(p, n.right)
      BY <2>5 DEF Son, Promises
    <3>2. n.right \in Inside(n)  BY <3>1 DEF Inside
    <3> QED  BY <2>3, <3>1, <3>2 DEF IsNode
  <2>6. CASE p \in Own(n)
    <3>1. p = n.point /\ ~n.point_deleted  BY <2>6 DEF Own
    <3>2. own \in Inside(n)  BY <3>1 DEF Inside
    <3>3. own.min = p /\ own.max = p  BY <3>1 DEF InitTreeNode
    <3>4. p \in Coordinates  BY <1>9
    <3>5. Lies(p, own)  BY <3>3, <3>4 DEF Lies, Coordinates
    <3> QED  BY <2>3, <3>2, <3>3, <3>4, <3>5
  <2> QED  BY <2>4, <2>5, <2>6
<1>13. u.tree_deleted => S = {}  BY <1>5 DEF Own, Son, Promises
<1> QED  BY <1>8, <1>9, <1>10, <1>11, <1>12, <1>13 DEF Promises

\* Add_by_point, 1002: a new leaf promises its point.
LEMMA LeafKept ==
  ASSUME NEW p \in Coordinates, NEW axis \in Axes
  PROVE  LET leaf == Update(InitTreeNode(p, axis)) IN IsNode(leaf) /\ Promises(leaf, {p})
<1> DEFINE n == InitTreeNode(p, axis)
<1>1. IsNode(n) /\ n.left = Nil /\ n.right = Nil /\ Own(n) = {p}
  <2>1. n = [f \in Fields |-> n[f]]  BY FieldNames DEF InitTreeNode
  <2> QED  BY <2>1 DEF IsNode, InitTreeNode, Own
<1>2. Son(n.left, {}) /\ Son(n.right, {})  BY <1>1 DEF Son
<1> HIDE DEF n
<1>3. IsNode(Update(n)) /\ Promises(Update(n), {} \union {} \union Own(n))  BY <1>1, <1>2, UpdateKept
<1> QED  BY <1>1, <1>3 DEF n

\* Delete_by_point, 862: a node without the point it held.
LEMMA HitKept ==
  ASSUME NEW n, IsNode(n), NEW S, Promises(n, S), n.point \in S
  PROVE  IsNode(Hit(n)) /\ Promises(Hit(n), S \ {n.point})
<1> DEFINE h == Hit(n)
<1>1. DOMAIN n = Fields  BY DEF IsNode
<1>2. /\ h = [f \in Fields |-> h[f]] /\ h.point_deleted = TRUE
      /\ h.invalid_point_num = n.invalid_point_num + 1
      /\ h.tree_deleted \in BOOLEAN
      /\ h.tree_deleted <=> n.tree_deleted \/ n.invalid_point_num + 1 = n.TreeSize
      /\ \A f \in Fields \ {"point_deleted", "invalid_point_num", "tree_deleted"} : h[f] = n[f]
  BY <1>1, FieldNames DEF Hit
<1>3. /\ h.min = n.min /\ h.max = n.max /\ h.TreeSize = n.TreeSize /\ h.point = n.point
      /\ h.division_axis = n.division_axis /\ h.down_del_num = n.down_del_num
      /\ h.point_downsample_deleted = n.point_downsample_deleted
      /\ h.tree_downsample_deleted = n.tree_downsample_deleted
      /\ h.push_left = n.push_left /\ h.push_right = n.push_right
  BY <1>2, FieldNames
<1> HIDE DEF h
<1>4. IsNode(h)
  <2>1. h.invalid_point_num \in Nat  BY <1>2 DEF IsNode
  <2>2. h = [f \in Fields |-> h[f]] /\ h.point_deleted \in BOOLEAN /\ h.tree_deleted \in BOOLEAN
    BY <1>2
  <2> QED  BY <1>3, <2>1, <2>2, Zenon DEF IsNode
<1>5. IsFiniteSet(S) /\ Cardinality(S) = n.TreeSize - n.invalid_point_num  BY DEF Promises
<1>6. IsFiniteSet(S \ {n.point}) /\ Cardinality(S \ {n.point}) = Cardinality(S) - 1
  BY <1>5, FS_RemoveElement
<1>7. n.TreeSize \in Nat /\ n.invalid_point_num \in Nat  BY DEF IsNode
<1>8. h.TreeSize - h.invalid_point_num = Cardinality(S \ {n.point})
  BY <1>2, <1>5, <1>6, <1>7, <1>3
<1>9. h.tree_deleted => S \ {n.point} = {}
  <2>1. n.invalid_point_num + 1 = n.TreeSize => Cardinality(S \ {n.point}) = 0
    BY <1>5, <1>6, <1>7
  <2> QED  BY <1>2, <1>6, <2>1, FS_EmptySet DEF Promises
<1> QED  BY <1>6, <1>8, <1>9, <1>3, <1>4 DEF Promises, Lies, h

\* A tree that is deleted as a whole, whatever its sons still say.
Gone(n) ==
  /\ IsNode(n) /\ n.tree_deleted /\ n.point_deleted /\ n.invalid_point_num = n.TreeSize
  /\ n.left # Nil => n.push_left
  /\ n.right # Nil => n.push_right

\* Delete_by_range, 779, and Push_Down, 1372: what is deleted as a whole.
LEMMA GonePromises == ASSUME NEW n, Gone(n) PROVE Promises(n, {})
BY FS_EmptySet DEF Gone, Promises, IsNode

LEMMA DeleteTreeGone ==
  ASSUME NEW n, IsNode(n), NEW sampling \in BOOLEAN PROVE Gone(DeleteTree(n, sampling))
<1>1. DOMAIN n = Fields  BY DEF IsNode
<1> QED  BY <1>1, FieldNames DEF DeleteTree, Gone, IsNode

\* Push_Down: what is below a tree that is deleted is deleted by the time
\* somebody gets there.
LEMMA InheritGone ==
  ASSUME NEW son, IsNode(son), NEW father, IsNode(father), father.tree_deleted
  PROVE  Gone(Inherit(son, father))
<1>1. DOMAIN son = Fields  BY DEF IsNode
<1>2. /\ son.TreeSize \in Nat /\ son.down_del_num \in Nat
      /\ father.tree_downsample_deleted \in BOOLEAN /\ son.tree_downsample_deleted \in BOOLEAN
      /\ son.point_downsample_deleted \in BOOLEAN
  BY DEF IsNode
<1> DEFINE i == Inherit(son, father)
<1>3. /\ i.tree_deleted = TRUE /\ i.point_deleted = TRUE /\ i.invalid_point_num = son.TreeSize
      /\ i.TreeSize = son.TreeSize /\ i.push_left = TRUE /\ i.push_right = TRUE
      /\ i.left = son.left /\ i.right = son.right
  BY <1>1, FieldNames DEF Inherit
<1>4. /\ i = [f \in Fields |-> i[f]] /\ i.down_del_num \in Nat
      /\ i.tree_downsample_deleted \in BOOLEAN /\ i.point_downsample_deleted \in BOOLEAN
      /\ \A f \in {"point", "division_axis", "min", "max"} : i[f] = son[f]
  BY <1>1, <1>2, FieldNames DEF Inherit
<1> QED  BY <1>3, <1>4 DEF Gone, IsNode

\* Push_Down, 1372: the sons of what is deleted as a whole are deleted as well.
LEMMA PushDownGone ==
  ASSUME NEW n, Gone(n), n.left = Nil \/ IsNode(n.left), n.right = Nil \/ IsNode(n.right)
  PROVE  LET m == PushDown(n)
         IN  m.point_deleted /\ (m.left = Nil \/ Gone(m.left)) /\ (m.right = Nil \/ Gone(m.right))
<1> DEFINE m == PushDown(n)
<1>1. DOMAIN n = Fields  BY DEF Gone, IsNode
<1>2. /\ m.point_deleted = n.point_deleted
      /\ m.left = IF n.left # Nil THEN Inherit(n.left, n) ELSE Nil
      /\ m.right = IF n.right # Nil THEN Inherit(n.right, n) ELSE Nil
  BY <1>1, FieldNames DEF PushDown, Gone
<1> HIDE DEF m
<1>3. IsNode(n) /\ n.tree_deleted /\ n.point_deleted  BY DEF Gone
<1>4. m.left = Nil \/ Gone(m.left)  BY <1>2, <1>3, InheritGone
<1>5. m.right = Nil \/ Gone(m.right)  BY <1>2, <1>3, InheritGone
<1> QED  BY <1>2, <1>3, <1>4, <1>5 DEF m

\* A flag that was left set for a son that was not there yet does a new leaf no
\* harm.
LEMMA LeafInherits ==
  ASSUME NEW p \in Coordinates, NEW axis \in Axes, NEW father, IsNode(father),
         ~father.tree_deleted, ~father.tree_downsample_deleted
  PROVE  LET leaf == Inherit(Update(InitTreeNode(p, axis)), father)
         IN  IsNode(leaf) /\ Promises(leaf, {p}) /\ ~leaf.point_deleted
<1> DEFINE n == InitTreeNode(p, axis)
           u == Update(n)
           i == Inherit(u, father)
<1>1. IsNode(u) /\ Promises(u, {p})  BY LeafKept
<1>2. DOMAIN n = Fields /\ n.left = Nil /\ n.right = Nil /\ ~n.point_deleted
      /\ ~n.point_downsample_deleted
  BY FieldNames DEF InitTreeNode
<1>3. /\ ~u.point_deleted /\ ~u.tree_deleted /\ ~u.point_downsample_deleted
      /\ ~u.tree_downsample_deleted /\ u.invalid_point_num = 0 /\ u.down_del_num = 0
  <2> HIDE DEF n
  <2>1. /\ u.point_deleted = n.point_deleted
        /\ u.point_downsample_deleted = n.point_downsample_deleted
        /\ u.tree_deleted => n.point_deleted
        /\ u.tree_downsample_deleted => n.point_downsample_deleted
    BY <1>2, FieldNames DEF Update
  <2>2. u.invalid_point_num = 0 + 0 + 0 /\ u.down_del_num = 0 + 0 + 0
    BY <1>2, FieldNames DEF Update
  <2> QED  BY <1>2, <2>1, <2>2
<1> HIDE DEF u
<1>4. DOMAIN u = Fields  BY <1>1 DEF IsNode
<1>5. /\ i = [f \in Fields |-> i[f]]
      /\ i.tree_deleted = FALSE /\ i.point_deleted = FALSE
      /\ i.tree_downsample_deleted = FALSE /\ i.point_downsample_deleted = FALSE
      /\ i.invalid_point_num = 0 /\ i.down_del_num = 0 /\ i.push_left = TRUE /\ i.push_right = TRUE
      /\ \A f \in {"point", "division_axis", "min", "max", "TreeSize"} : i[f] = u[f]
  BY <1>3, <1>4, FieldNames DEF Inherit
<1>6. /\ i.point = u.point /\ i.division_axis = u.division_axis /\ i.min = u.min /\ i.max = u.max
      /\ i.TreeSize = u.TreeSize
  BY <1>5
<1> HIDE DEF i
<1>7. IsNode(i)
  <2>1. /\ i.tree_deleted \in BOOLEAN /\ i.point_deleted \in BOOLEAN
        /\ i.tree_downsample_deleted \in BOOLEAN /\ i.point_downsample_deleted \in BOOLEAN
        /\ i.push_left \in BOOLEAN /\ i.push_right \in BOOLEAN
    BY <1>5, Zenon
  <2>3. i.invalid_point_num \in Nat /\ i.down_del_num \in Nat  BY <1>5
  <2>2. i = [f \in Fields |-> i[f]]  BY <1>5, Zenon
  <2> QED  BY <1>1, <1>6, <2>1, <2>2, <2>3, Zenon DEF IsNode
<1>8. Promises(i, {p})
  BY <1>1, <1>3, <1>5, <1>6 DEF Promises, Lies
<1> QED  BY <1>5, <1>7, <1>8 DEF i, u

LEMMA DisjointUnion ==
  ASSUME NEW A, NEW B, IsFiniteSet(A), IsFiniteSet(B), A \intersect B = {}
  PROVE  IsFiniteSet(A \union B) /\ Cardinality(A \union B) = Cardinality(A) + Cardinality(B)
<1>1. IsFiniteSet(A \union B) /\ Cardinality(A \union B) = Cardinality(A) + Cardinality(B) - 0
  BY FS_Union, FS_EmptySet
<1>2. Cardinality(A) \in Nat /\ Cardinality(B) \in Nat  BY FS_CardinalityType
<1> QED  BY <1>1, <1>2

-----------------------------------------------------------------------------
(* Trees are built level by level; what holds of Nil, and of a tree if of   *)
(* what Push_Down leaves of its sons, holds of every tree.                  *)

\* The depth is bounded.
LEMMA DepthNat == MaxDepth \in Nat /\ Cardinality(Points) \in Nat
BY TreeAssumption, FS_CardinalityType DEF MaxDepth

\* What holds of 0, and of d + 1 if of d, holds of every depth.
LEMMA DepthInduction ==
  ASSUME NEW D, D \subseteq 0 .. MaxDepth, 0 \in D,
         \A d \in Nat : d \in D /\ d + 1 \in 0 .. MaxDepth => d + 1 \in D
  PROVE  D = 0 .. MaxDepth
<1>1. MaxDepth \in Nat  BY DepthNat
<1> DEFINE Bad == (0 .. MaxDepth) \ D
<1>2. SUFFICES ASSUME Bad # {} PROVE FALSE  OBVIOUS
<1>3. PICK m \in Bad : \A n \in Bad : m <= n
  <2>1. Bad \in SUBSET Nat  BY <1>1
  <2> HIDE DEF Bad
  <2> QED  BY <1>2, <2>1, LeastNat
<1>4. m \in Nat /\ m # 0 /\ m <= MaxDepth /\ m - 1 \in 0 .. MaxDepth /\ m - 1 \notin Bad  BY <1>1, <1>3
<1>5. m - 1 \in Nat /\ m - 1 \in D /\ m - 1 + 1 = m  BY <1>4
<1> QED  BY <1>3, <1>4, <1>5

\* Level is defined by recursion on the depth.
LEMMA LevelDef ==
  \A d \in 0 .. MaxDepth : Level[d] = {Nil} \union (IF d = 0 THEN {} ELSE NodesOver(Level[d - 1]))
<1> DEFINE Of(d, f) == {Nil} \union (IF d = 0 THEN {} ELSE NodesOver(f[d - 1]))
           Upto(e, f) == f = [d \in 0 .. e |-> Of(d, f)]
           D == {e \in 0 .. MaxDepth : \E f : Upto(e, f)}
<1>1. Level = CHOOSE f : Upto(MaxDepth, f)  BY DEF Level
<1>2. MaxDepth \in Nat  BY DepthNat
<1>3. \A d, f, g : d = 0 \/ f[d - 1] = g[d - 1] => Of(d, f) = Of(d, g)  OBVIOUS
<1>4. Upto(0, [d \in 0 .. 0 |-> {Nil}])
  <2> DEFINE f == [d \in 0 .. 0 |-> {Nil}]
  <2>1. \A d \in 0 .. 0 : Of(d, f) = {Nil}  OBVIOUS
  <2> QED  BY <2>1
<1> HIDE DEF Of
<1>5. ASSUME NEW e \in Nat, e + 1 \in 0 .. MaxDepth, NEW f, Upto(e, f) PROVE \E g : Upto(e + 1, g)
  <2> DEFINE g == [d \in 0 .. e + 1 |-> Of(d, f)]
  <2>1. \A d \in 0 .. e : g[d] = f[d]  BY <1>5
  <2>2. \A d \in 0 .. e + 1 : Of(d, f) = Of(d, g)
    <3> TAKE d \in 0 .. e + 1
    <3>1. d = 0 \/ d - 1 \in 0 .. e  OBVIOUS
    <3> QED  BY <1>3, <2>1, <3>1
  <2> QED  BY <2>2
<1>6. 0 \in D  BY <1>2, <1>4
<1>7. MaxDepth \in D
  <2>1. \A e \in Nat : e \in D /\ e + 1 \in 0 .. MaxDepth => e + 1 \in D
    <3> HIDE DEF Upto
    <3> QED  BY <1>5
  <2>2. D = 0 .. MaxDepth
    <3>1. D \subseteq 0 .. MaxDepth  OBVIOUS
    <3> HIDE DEF D
    <3> QED  BY <1>6, <2>1, <3>1, DepthInduction
  <2> QED  BY <1>2, <2>2
<1>8. Upto(MaxDepth, Level)  BY <1>1, <1>7
<1>9. \A d \in 0 .. MaxDepth : Level[d] = Of(d, Level)  BY <1>8
<1> QED  BY <1>9 DEF Of

\* What a node of NodesOver consists of.
LEMMA NodeOver ==
  ASSUME NEW T, NEW n
  PROVE  n \in NodesOver(T) <=>
           IsNode(n) /\ n.point \in Points /\ n.left \in T /\ n.right \in T
<1>1. ASSUME n \in NodesOver(T) PROVE IsNode(n) /\ n.point \in Points /\ n.left \in T /\ n.right \in T
  <2>1. n.point \in Coordinates  BY <1>1, TreeAssumption DEF NodesOver
  <2>2. n = [f \in Fields |-> n[f]]  BY <1>1, FieldNames DEF NodesOver
  <2> QED  BY <1>1, <2>1, <2>2 DEF NodesOver, IsNode
<1>2. ASSUME IsNode(n), n.point \in Points, n.left \in T, n.right \in T PROVE n \in NodesOver(T)
  BY <1>2, FieldNames DEF NodesOver, IsNode
<1> QED  BY <1>1, <1>2

\* Push_Down, 1372, changes no point, no range, no size and no son of a son.
LEMMA InheritKept ==
  ASSUME NEW son, IsNode(son), NEW father, IsNode(father)
  PROVE  LET i == Inherit(son, father)
         IN  /\ IsNode(i)
             /\ \A f \in {"point", "division_axis", "left", "right", "min", "max", "TreeSize"} : i[f] = son[f]
<1>1. DOMAIN son = Fields  BY DEF IsNode
<1>2. /\ son.TreeSize \in Nat /\ son.down_del_num \in Nat
      /\ father.tree_downsample_deleted \in BOOLEAN /\ son.tree_downsample_deleted \in BOOLEAN
      /\ son.point_downsample_deleted \in BOOLEAN /\ father.tree_deleted \in BOOLEAN
  BY DEF IsNode
<1> DEFINE i == Inherit(son, father)
<1>3. /\ i = [f \in Fields |-> i[f]]
      /\ \A f \in {"point", "division_axis", "left", "right", "min", "max", "TreeSize"} : i[f] = son[f]
  BY <1>1, FieldNames DEF Inherit
<1>4. /\ i.tree_deleted \in BOOLEAN /\ i.point_deleted \in BOOLEAN
      /\ i.tree_downsample_deleted \in BOOLEAN /\ i.point_downsample_deleted \in BOOLEAN
      /\ i.push_left \in BOOLEAN /\ i.push_right \in BOOLEAN
  BY <1>1, <1>2, FieldNames DEF Inherit
<1>5. i.down_del_num \in Nat /\ i.invalid_point_num \in Nat
  BY <1>1, <1>2, FieldNames DEF Inherit
<1> QED  BY <1>3, <1>4, <1>5, FieldNames DEF IsNode

\* Push_Down changes the sons whose flags are set, and those flags.
LEMMA PushDownFields ==
  ASSUME NEW n, IsNode(n)
  PROVE  LET m == PushDown(n)
         IN  /\ m = [f \in Fields |-> m[f]]
             /\ \A f \in Fields \ {"left", "right", "push_left", "push_right"} : m[f] = n[f]
             /\ m.left = IF n.left # Nil /\ n.push_left THEN Inherit(n.left, n) ELSE n.left
             /\ m.right = IF n.right # Nil /\ n.push_right THEN Inherit(n.right, n) ELSE n.right
             /\ m.push_left = (n.push_left /\ n.left = Nil)
             /\ m.push_right = (n.push_right /\ n.right = Nil)
<1>1. DOMAIN n = Fields /\ n.push_left \in BOOLEAN /\ n.push_right \in BOOLEAN  BY DEF IsNode
<1> QED  BY <1>1, FieldNames DEF PushDown

\* A node is one after Push_Down, too.
LEMMA PushDownIsNode == ASSUME NEW n, IsNode(n) PROVE IsNode(PushDown(n))
<1> DEFINE m == PushDown(n)
<1>1. /\ m = [f \in Fields |-> m[f]]
      /\ \A f \in Fields \ {"left", "right", "push_left", "push_right"} : m[f] = n[f]
      /\ m.push_left = (n.push_left /\ n.left = Nil)
      /\ m.push_right = (n.push_right /\ n.right = Nil)
  BY PushDownFields
<1> HIDE DEF m
<1>2. IsNode(m)  BY <1>1, FieldNames DEF IsNode
<1> QED  BY <1>2 DEF m

-----------------------------------------------------------------------------
\* More sons, more nodes; deeper levels hold the flatter ones.
LEMMA NodesOverGrows == ASSUME NEW T, NEW U, T \subseteq U PROVE NodesOver(T) \subseteq NodesOver(U)
BY DEF NodesOver

LEMMA LevelsGrow == \A d \in 0 .. MaxDepth : \A e \in 0 .. d : Level[e] \subseteq Level[d]
<1> DEFINE D == {d \in 0 .. MaxDepth : d + 1 <= MaxDepth => Level[d] \subseteq Level[d + 1]}
           E == {d \in 0 .. MaxDepth : \A e \in 0 .. d : Level[e] \subseteq Level[d]}
<1>1. MaxDepth \in Nat  BY DepthNat
<1>2. 0 \in D
  <2>1. Level[0] = {Nil}  BY <1>1, LevelDef
  <2>2. 1 <= MaxDepth => Nil \in Level[1]  BY <1>1, LevelDef
  <2> QED  BY <1>1, <2>1, <2>2
<1>3. ASSUME NEW d \in Nat, d \in D, d + 1 \in 0 .. MaxDepth, d + 1 + 1 <= MaxDepth
      PROVE  Level[d + 1] \subseteq Level[d + 1 + 1]
  <2>1. Level[d + 1] = {Nil} \union NodesOver(Level[d])
    <3>1. d + 1 # 0 /\ (d + 1) - 1 = d  OBVIOUS
    <3> QED  BY <1>3, <3>1, LevelDef
  <2>2. Level[d + 1 + 1] = {Nil} \union NodesOver(Level[d + 1])
    <3>1. d + 1 + 1 # 0 /\ (d + 1 + 1) - 1 = d + 1 /\ d + 1 + 1 \in 0 .. MaxDepth  BY <1>3
    <3> QED  BY <3>1, LevelDef
  <2>3. Level[d] \subseteq Level[d + 1]  BY <1>3
  <2> QED  BY <2>1, <2>2, <2>3, NodesOverGrows
<1>4. D = 0 .. MaxDepth
  <2>1. D \subseteq 0 .. MaxDepth  OBVIOUS
  <2>2. \A d \in Nat : d \in D /\ d + 1 \in 0 .. MaxDepth => d + 1 \in D
    <3> TAKE d \in Nat
    <3> HAVE d \in D /\ d + 1 \in 0 .. MaxDepth
    <3>1. d + 1 + 1 <= MaxDepth => Level[d + 1] \subseteq Level[d + 1 + 1]  BY <1>3
    <3> QED  BY <3>1
  <2> HIDE DEF D
  <2> QED  BY <1>2, <2>1, <2>2, DepthInduction
<1>5. 0 \in E  BY <1>1
<1>6. ASSUME NEW d \in Nat, d \in E, d + 1 \in 0 .. MaxDepth PROVE d + 1 \in E
  <2>1. Level[d] \subseteq Level[d + 1]
    <3>1. d \in D  BY <1>4, <1>6
    <3> QED  BY <1>6, <3>1
  <2>2. ASSUME NEW e \in 0 .. d + 1 PROVE Level[e] \subseteq Level[d + 1]
    <3>1. e = d + 1 \/ e \in 0 .. d  OBVIOUS
    <3> QED  BY <1>6, <2>1, <3>1
  <2> QED  BY <1>6, <2>2
<1>7. E = 0 .. MaxDepth
  <2>1. E \subseteq 0 .. MaxDepth  OBVIOUS
  <2> HIDE DEF E
  <2> QED  BY <1>5, <1>6, <2>1, DepthInduction
<1> QED  BY <1>7

\* A tree of a level is Nil or has sons of the level below.
LEMMA LevelNodes ==
  ASSUME NEW d \in 0 .. MaxDepth
  PROVE  /\ Nil \in Level[d] /\ Level[d] \subseteq Trees
         /\ d = 0 => Level[d] = {Nil}
         /\ d # 0 => Level[d] \ {Nil} = NodesOver(Level[d - 1]) /\ d - 1 \in 0 .. MaxDepth
<1>1. MaxDepth \in Nat  BY DepthNat
<1>2. Level[d] = {Nil} \union (IF d = 0 THEN {} ELSE NodesOver(Level[d - 1]))  BY LevelDef
<1>3. Level[d] \subseteq Trees  BY <1>1, LevelsGrow DEF Trees
<1>4. ASSUME d # 0 PROVE Nil \notin NodesOver(Level[d - 1]) /\ d - 1 \in 0 .. MaxDepth
  <2>1. d - 1 \in 0 .. MaxDepth  BY <1>1, <1>4
  <2>2. Level[d - 1] \subseteq Trees  BY <1>1, <2>1, LevelsGrow DEF Trees
  <2>3. Nil \notin NodesOver(Trees)  BY TreeAssumption
  <2> QED  BY <2>1, <2>2, <2>3, NodesOverGrows
<1> QED  BY <1>2, <1>3, <1>4

\* What a node of a tree consists of.
LEMMA TreeNode ==
  ASSUME NEW n \in Trees, n # Nil
  PROVE  IsNode(n) /\ n.point \in Points /\ n.left \in Trees /\ n.right \in Trees /\ n \in NodesOver(Trees)
<1>1. MaxDepth \in 0 .. MaxDepth  BY DepthNat
<1>2. MaxDepth # 0 /\ n \in NodesOver(Level[MaxDepth - 1]) /\ Level[MaxDepth - 1] \subseteq Trees
  BY <1>1, LevelNodes DEF Trees
<1>3. n \in NodesOver(Trees)  BY <1>2, NodesOverGrows
<1> QED  BY <1>3, NodeOver

\* What Push_Down makes of a son is as deep as the son.
LEMMA InheritLevel ==
  ASSUME NEW d \in 0 .. MaxDepth, NEW son \in Level[d], son # Nil, NEW father, IsNode(father)
  PROVE  Inherit(son, father) \in Level[d] /\ Inherit(son, father) # Nil
<1>1. d # 0 /\ son \in NodesOver(Level[d - 1])  BY LevelNodes
<1>2. IsNode(son) /\ son.point \in Points /\ son.left \in Level[d - 1] /\ son.right \in Level[d - 1]
  BY <1>1, NodeOver
<1>3. LET i == Inherit(son, father)
      IN  IsNode(i) /\ i.point = son.point /\ i.left = son.left /\ i.right = son.right
  BY <1>2, InheritKept
<1>4. Inherit(son, father) \in NodesOver(Level[d - 1])  BY <1>2, <1>3, NodeOver
<1> QED  BY <1>1, <1>4, LevelNodes

\* Whoever comes down to the sons of a node finds trees that are less deep.
LEMMA PushedLevel ==
  ASSUME NEW d \in 0 .. MaxDepth, NEW n \in Level[d], n # Nil
  PROVE  /\ d # 0 /\ d - 1 \in 0 .. MaxDepth /\ n.left \in Level[d - 1] /\ n.right \in Level[d - 1]
         /\ PushDown(n) \in Level[d] /\ PushDown(n) # Nil
         /\ PushDown(n).left \in Level[d - 1] /\ PushDown(n).right \in Level[d - 1]
<1>1. d # 0 /\ d - 1 \in 0 .. MaxDepth /\ n \in NodesOver(Level[d - 1])  BY LevelNodes
<1>2. IsNode(n) /\ n.point \in Points /\ n.left \in Level[d - 1] /\ n.right \in Level[d - 1]
  BY <1>1, NodeOver
<1> DEFINE m == PushDown(n)
<1>3. /\ m.left = IF n.left # Nil /\ n.push_left THEN Inherit(n.left, n) ELSE n.left
      /\ m.right = IF n.right # Nil /\ n.push_right THEN Inherit(n.right, n) ELSE n.right
      /\ m.point = n.point
  BY <1>2, PushDownFields, FieldNames
<1>4. IsNode(m)  BY <1>2, PushDownIsNode
<1> HIDE DEF m
<1>5. m.left \in Level[d - 1] /\ m.right \in Level[d - 1]  BY <1>1, <1>2, <1>3, InheritLevel
<1>6. m \in NodesOver(Level[d - 1])  BY <1>2, <1>3, <1>4, <1>5, NodeOver
<1>7. m \in Level[d] /\ m # Nil  BY <1>1, <1>6, LevelNodes
<1> QED  BY <1>1, <1>2, <1>5, <1>7 DEF m

\* Push_Down of a tree is a tree, and so are the sons it leaves.
LEMMA Pushed ==
  ASSUME NEW n \in Trees, n # Nil
  PROVE  PushDown(n) \in Trees /\ PushDown(n) # Nil /\ PushDown(n).left \in Trees /\ PushDown(n).right \in Trees
<1>1. MaxDepth \in 0 .. MaxDepth  BY DepthNat
<1>2. n \in Level[MaxDepth]  BY DEF Trees
<1>3. MaxDepth - 1 \in 0 .. MaxDepth  BY <1>1, <1>2, PushedLevel
<1> QED  BY <1>1, <1>2, <1>3, PushedLevel, LevelNodes DEF Trees

\* What holds of no tree, and of a tree if of its sons, holds of every tree; the sons
\* as they are, or as those who come down find them.
LEMMA TreeInduction ==
  ASSUME NEW S, Nil \in S,
         \A n \in Trees \ {Nil} : PushDown(n).left \in S /\ PushDown(n).right \in S => n \in S
  PROVE  Trees \subseteq S
<1> DEFINE D == {d \in 0 .. MaxDepth : Level[d] \subseteq S}
<1>1. MaxDepth \in Nat /\ 0 \in 0 .. MaxDepth  BY DepthNat
<1>2. 0 \in D  BY <1>1, LevelNodes
<1>3. ASSUME NEW d \in Nat, d \in D, d + 1 \in 0 .. MaxDepth PROVE d + 1 \in D
  <2> SUFFICES ASSUME NEW n \in Level[d + 1], n # Nil PROVE n \in S  BY <1>3
  <2>1. (d + 1) - 1 = d  OBVIOUS
  <2>2. PushDown(n).left \in Level[d] /\ PushDown(n).right \in Level[d]  BY <1>3, <2>1, PushedLevel
  <2>3. n \in Trees  BY <1>3, LevelNodes
  <2> QED  BY <1>3, <2>2, <2>3
<1>4. D = 0 .. MaxDepth
  <2>1. D \subseteq 0 .. MaxDepth  OBVIOUS
  <2> HIDE DEF D
  <2> QED  BY <1>2, <1>3, <2>1, DepthInduction
<1> QED  BY <1>1, <1>4 DEF Trees

\* The same, by the sons as they are stored.
LEMMA StoredInduction ==
  ASSUME NEW S, Nil \in S,
         \A n \in Trees \ {Nil} : n.left \in S /\ n.right \in S => n \in S
  PROVE  Trees \subseteq S
<1> DEFINE D == {d \in 0 .. MaxDepth : Level[d] \subseteq S}
<1>1. MaxDepth \in Nat /\ 0 \in 0 .. MaxDepth  BY DepthNat
<1>2. 0 \in D  BY <1>1, LevelNodes
<1>3. ASSUME NEW d \in Nat, d \in D, d + 1 \in 0 .. MaxDepth PROVE d + 1 \in D
  <2> SUFFICES ASSUME NEW n \in Level[d + 1], n # Nil PROVE n \in S  BY <1>3
  <2>1. (d + 1) - 1 = d  OBVIOUS
  <2>2. n.left \in Level[d] /\ n.right \in Level[d]  BY <1>3, <2>1, PushedLevel
  <2>3. n \in Trees  BY <1>3, LevelNodes
  <2> QED  BY <1>3, <2>2, <2>3
<1>4. D = 0 .. MaxDepth
  <2>1. D \subseteq 0 .. MaxDepth  OBVIOUS
  <2> HIDE DEF D
  <2> QED  BY <1>2, <1>3, <2>1, DepthInduction
<1> QED  BY <1>1, <1>4 DEF Trees

-----------------------------------------------------------------------------
(* The recursive equations of the functions over trees.                     *)

\* Live, Nodes, Count and the operations by their recursive equations: a function of
\* the levels up to d can be extended to level d + 1.
LEMMA LiveOf ==
  \A n \in Trees :
    Live[n] = IF n = Nil THEN {}
              ELSE Own(PushDown(n)) \union Live[PushDown(n).left] \union Live[PushDown(n).right]
<1> DEFINE Of(n, f) == IF n = Nil THEN {}
                       ELSE Own(PushDown(n)) \union f[PushDown(n).left] \union f[PushDown(n).right]
           Upto(d, f) == f = [n \in Level[d] |-> Of(n, f)]
           D == {d \in 0 .. MaxDepth : \E f : Upto(d, f)}
<1>1. Live = CHOOSE f : Upto(MaxDepth, f)  BY DEF Live, Trees
<1>2. \A n, f, g : n = Nil \/ (f[PushDown(n).left] = g[PushDown(n).left] /\ f[PushDown(n).right] = g[PushDown(n).right])
                    => Of(n, f) = Of(n, g)
  OBVIOUS
<1> HIDE DEF Of
<1>3. MaxDepth \in Nat  BY DepthNat
<1>4. 0 \in D
  <2> DEFINE g == [n \in Level[0] |-> Of(n, <<>>)]
  <2>1. 0 \in 0 .. MaxDepth  BY <1>3
  <2>2. \A n \in Level[0] : Of(n, <<>>) = Of(n, g)
    <3> HIDE DEF g
    <3> QED  BY <1>2, <2>1, LevelNodes
  <2>3. Upto(0, g)  BY <2>2
  <2> HIDE DEF Upto, g
  <2> QED  BY <2>1, <2>3
<1>5. ASSUME NEW d \in Nat, d + 1 \in 0 .. MaxDepth, NEW f, Upto(d, f) PROVE \E g : Upto(d + 1, g)
  <2> DEFINE g == [n \in Level[d + 1] |-> Of(n, f)]
  <2>1. \A n \in Level[d] : g[n] = f[n]
    <3>1. Level[d] \subseteq Level[d + 1]  BY <1>5, LevelsGrow
    <3> QED  BY <1>5, <3>1
  <2>2. ASSUME NEW n \in Level[d + 1] PROVE Of(n, f) = Of(n, g)
    <3>1. CASE n = Nil  BY <1>2, <3>1
    <3>2. CASE n # Nil
      <4>1. (d + 1) - 1 = d  OBVIOUS
      <4>2. PushDown(n).left \in Level[d] /\ PushDown(n).right \in Level[d]  BY <1>5, <3>2, <4>1, PushedLevel
      <4> HIDE DEF g
      <4> QED  BY <1>2, <2>1, <4>2
    <3> QED  BY <3>1, <3>2
  <2> QED  BY <2>2
<1>6. MaxDepth \in D
  <2>1. \A d \in Nat : d \in D /\ d + 1 \in 0 .. MaxDepth => d + 1 \in D
    <3> HIDE DEF Upto
    <3> QED  BY <1>5
  <2>2. D \subseteq 0 .. MaxDepth  OBVIOUS
  <2> HIDE DEF D
  <2>3. D = 0 .. MaxDepth  BY <1>4, <2>1, <2>2, DepthInduction
  <2> QED  BY <1>3, <2>3
<1>7. Upto(MaxDepth, Live)  BY <1>1, <1>6
<1>8. \A n \in Trees : Live[n] = Of(n, Live)  BY <1>7 DEF Trees
<1> QED  BY <1>8 DEF Of

LEMMA NodesOf ==
  \A n \in Trees :
    Nodes[n] = IF n = Nil THEN {} ELSE {n} \union Nodes[PushDown(n).left] \union Nodes[PushDown(n).right]
<1> DEFINE Of(n, f) == IF n = Nil THEN {} ELSE {n} \union f[PushDown(n).left] \union f[PushDown(n).right]
           Upto(d, f) == f = [n \in Level[d] |-> Of(n, f)]
           D == {d \in 0 .. MaxDepth : \E f : Upto(d, f)}
<1>1. Nodes = CHOOSE f : Upto(MaxDepth, f)  BY DEF Nodes, Trees
<1>2. \A n, f, g : n = Nil \/ (f[PushDown(n).left] = g[PushDown(n).left] /\ f[PushDown(n).right] = g[PushDown(n).right])
                    => Of(n, f) = Of(n, g)
  OBVIOUS
<1> HIDE DEF Of
<1>3. MaxDepth \in Nat  BY DepthNat
<1>4. 0 \in D
  <2> DEFINE g == [n \in Level[0] |-> Of(n, <<>>)]
  <2>1. 0 \in 0 .. MaxDepth  BY <1>3
  <2>2. \A n \in Level[0] : Of(n, <<>>) = Of(n, g)
    <3> HIDE DEF g
    <3> QED  BY <1>2, <2>1, LevelNodes
  <2>3. Upto(0, g)  BY <2>2
  <2> HIDE DEF Upto, g
  <2> QED  BY <2>1, <2>3
<1>5. ASSUME NEW d \in Nat, d + 1 \in 0 .. MaxDepth, NEW f, Upto(d, f) PROVE \E g : Upto(d + 1, g)
  <2> DEFINE g == [n \in Level[d + 1] |-> Of(n, f)]
  <2>1. \A n \in Level[d] : g[n] = f[n]
    <3>1. Level[d] \subseteq Level[d + 1]  BY <1>5, LevelsGrow
    <3> QED  BY <1>5, <3>1
  <2>2. ASSUME NEW n \in Level[d + 1] PROVE Of(n, f) = Of(n, g)
    <3>1. CASE n = Nil  BY <1>2, <3>1
    <3>2. CASE n # Nil
      <4>1. (d + 1) - 1 = d  OBVIOUS
      <4>2. PushDown(n).left \in Level[d] /\ PushDown(n).right \in Level[d]  BY <1>5, <3>2, <4>1, PushedLevel
      <4> HIDE DEF g
      <4> QED  BY <1>2, <2>1, <4>2
    <3> QED  BY <3>1, <3>2
  <2> QED  BY <2>2
<1>6. MaxDepth \in D
  <2>1. \A d \in Nat : d \in D /\ d + 1 \in 0 .. MaxDepth => d + 1 \in D
    <3> HIDE DEF Upto
    <3> QED  BY <1>5
  <2>2. D \subseteq 0 .. MaxDepth  OBVIOUS
  <2> HIDE DEF D
  <2>3. D = 0 .. MaxDepth  BY <1>4, <2>1, <2>2, DepthInduction
  <2> QED  BY <1>3, <2>3
<1>7. Upto(MaxDepth, Nodes)  BY <1>1, <1>6
<1>8. \A n \in Trees : Nodes[n] = Of(n, Nodes)  BY <1>7 DEF Trees
<1> QED  BY <1>8 DEF Of

LEMMA CountOf ==
  \A n \in Trees : Count[n] = IF n = Nil THEN 0 ELSE 1 + Count[n.left] + Count[n.right]
<1> DEFINE Of(n, f) == IF n = Nil THEN 0 ELSE 1 + f[n.left] + f[n.right]
           Upto(d, f) == f = [n \in Level[d] |-> Of(n, f)]
           D == {d \in 0 .. MaxDepth : \E f : Upto(d, f)}
<1>1. Count = CHOOSE f : Upto(MaxDepth, f)  BY DEF Count, Trees
<1>2. \A n, f, g : n = Nil \/ (f[n.left] = g[n.left] /\ f[n.right] = g[n.right])
                    => Of(n, f) = Of(n, g)
  OBVIOUS
<1> HIDE DEF Of
<1>3. MaxDepth \in Nat  BY DepthNat
<1>4. 0 \in D
  <2> DEFINE g == [n \in Level[0] |-> Of(n, <<>>)]
  <2>1. 0 \in 0 .. MaxDepth  BY <1>3
  <2>2. \A n \in Level[0] : Of(n, <<>>) = Of(n, g)
    <3> HIDE DEF g
    <3> QED  BY <1>2, <2>1, LevelNodes
  <2>3. Upto(0, g)  BY <2>2
  <2> HIDE DEF Upto, g
  <2> QED  BY <2>1, <2>3
<1>5. ASSUME NEW d \in Nat, d + 1 \in 0 .. MaxDepth, NEW f, Upto(d, f) PROVE \E g : Upto(d + 1, g)
  <2> DEFINE g == [n \in Level[d + 1] |-> Of(n, f)]
  <2>1. \A n \in Level[d] : g[n] = f[n]
    <3>1. Level[d] \subseteq Level[d + 1]  BY <1>5, LevelsGrow
    <3> QED  BY <1>5, <3>1
  <2>2. ASSUME NEW n \in Level[d + 1] PROVE Of(n, f) = Of(n, g)
    <3>1. CASE n = Nil  BY <1>2, <3>1
    <3>2. CASE n # Nil
      <4>1. (d + 1) - 1 = d  OBVIOUS
      <4>2. n.left \in Level[d] /\ n.right \in Level[d]  BY <1>5, <3>2, <4>1, PushedLevel
      <4> HIDE DEF g
      <4> QED  BY <1>2, <2>1, <4>2
    <3> QED  BY <3>1, <3>2
  <2> QED  BY <2>2
<1>6. MaxDepth \in D
  <2>1. \A d \in Nat : d \in D /\ d + 1 \in 0 .. MaxDepth => d + 1 \in D
    <3> HIDE DEF Upto
    <3> QED  BY <1>5
  <2>2. D \subseteq 0 .. MaxDepth  OBVIOUS
  <2> HIDE DEF D
  <2>3. D = 0 .. MaxDepth  BY <1>4, <2>1, <2>2, DepthInduction
  <2> QED  BY <1>3, <2>3
<1>7. Upto(MaxDepth, Count)  BY <1>1, <1>6
<1>8. \A n \in Trees : Count[n] = Of(n, Count)  BY <1>7 DEF Trees
<1> QED  BY <1>8 DEF Of

\* What the steps of the operations are, once for all.
Flattened(n, l, r) ==
  [tree |-> [PushDown(n) EXCEPT !.left = l.tree, !.right = r.tree],
   points |-> l.points \union r.points \union Own(PushDown(n))]

LEMMA FlattenOf ==
  \A n \in Trees :
    Flatten[n] = IF n = Nil THEN [tree |-> Nil, points |-> {}]
                 ELSE Flattened(n, Flatten[PushDown(n).left], Flatten[PushDown(n).right])
<1> DEFINE Of(n, f) == IF n = Nil THEN [tree |-> Nil, points |-> {}]
                       ELSE Flattened(n, f[PushDown(n).left], f[PushDown(n).right])
           Upto(d, f) == f = [n \in Level[d] |-> Of(n, f)]
           D == {d \in 0 .. MaxDepth : \E f : Upto(d, f)}
<1>1. Flatten = CHOOSE f : Upto(MaxDepth, f)  BY DEF Flatten, Trees, Flattened
<1>2. \A n, f, g : n = Nil \/ (f[PushDown(n).left] = g[PushDown(n).left] /\ f[PushDown(n).right] = g[PushDown(n).right])
                    => Of(n, f) = Of(n, g)
  OBVIOUS
<1> HIDE DEF Of
<1>3. MaxDepth \in Nat  BY DepthNat
<1>4. 0 \in D
  <2> DEFINE g == [n \in Level[0] |-> Of(n, <<>>)]
  <2>1. 0 \in 0 .. MaxDepth  BY <1>3
  <2>2. \A n \in Level[0] : Of(n, <<>>) = Of(n, g)
    <3> HIDE DEF g
    <3> QED  BY <1>2, <2>1, LevelNodes
  <2>3. Upto(0, g)  BY <2>2
  <2> HIDE DEF Upto, g
  <2> QED  BY <2>1, <2>3
<1>5. ASSUME NEW d \in Nat, d + 1 \in 0 .. MaxDepth, NEW f, Upto(d, f) PROVE \E g : Upto(d + 1, g)
  <2> DEFINE g == [n \in Level[d + 1] |-> Of(n, f)]
  <2>1. \A n \in Level[d] : g[n] = f[n]
    <3>1. Level[d] \subseteq Level[d + 1]  BY <1>5, LevelsGrow
    <3> QED  BY <1>5, <3>1
  <2>2. ASSUME NEW n \in Level[d + 1] PROVE Of(n, f) = Of(n, g)
    <3>1. CASE n = Nil  BY <1>2, <3>1
    <3>2. CASE n # Nil
      <4>1. (d + 1) - 1 = d  OBVIOUS
      <4>2. PushDown(n).left \in Level[d] /\ PushDown(n).right \in Level[d]  BY <1>5, <3>2, <4>1, PushedLevel
      <4> HIDE DEF g
      <4> QED  BY <1>2, <2>1, <4>2
    <3> QED  BY <3>1, <3>2
  <2> QED  BY <2>2
<1>6. MaxDepth \in D
  <2>1. \A d \in Nat : d \in D /\ d + 1 \in 0 .. MaxDepth => d + 1 \in D
    <3> HIDE DEF Upto
    <3> QED  BY <1>5
  <2>2. D \subseteq 0 .. MaxDepth  OBVIOUS
  <2> HIDE DEF D
  <2>3. D = 0 .. MaxDepth  BY <1>4, <2>1, <2>2, DepthInduction
  <2> QED  BY <1>3, <2>3
<1>7. Upto(MaxDepth, Flatten)  BY <1>1, <1>6
<1>8. \A n \in Trees : Flatten[n] = Of(n, Flatten)  BY <1>7 DEF Trees
<1> QED  BY <1>8 DEF Of

AddedTo(n, p, l, r) ==
  LET m == PushDown(n)
      leaf == Update(InitTreeNode(p, AxisAfter(m.division_axis)))
  IN  Settle(IF GoesLeft(m, p) THEN [m EXCEPT !.left = IF @ = Nil THEN leaf ELSE l]
                               ELSE [m EXCEPT !.right = IF @ = Nil THEN leaf ELSE r])

DeletedFrom(n, p, l, r) ==
  LET m == PushDown(n)
  IN  IF IsHit(m, p) THEN Hit(m)
      ELSE Settle(IF GoesLeft(m, p) THEN [m EXCEPT !.left = l] ELSE [m EXCEPT !.right = r])

RangeDeleted(n, box, sampling, l, r) ==
  LET m == PushDown(n)
      hit == ~m.point_deleted /\ In(m.point, box)
  IN  IF Disjoint(m, box) THEN [tree |-> m, count |-> 0]
      ELSE IF Covers(box, m)
      THEN [tree |-> DeleteTree(m, sampling), count |-> m.TreeSize - m.invalid_point_num]
      ELSE [tree |-> Settle([m EXCEPT !.left = l.tree, !.right = r.tree,
                                !.point_deleted = @ \/ hit,
                                !.point_downsample_deleted = @ \/ (hit /\ sampling)]),
            count |-> l.count + r.count + IF hit THEN 1 ELSE 0]

RangeFound(n, box, l, r) ==
  LET m == PushDown(n)
  IN  IF Disjoint(m, box) THEN [tree |-> m, points |-> {}]
      ELSE IF Covers(box, m) THEN Flatten[m]
      ELSE [tree |-> [m EXCEPT !.left = l.tree, !.right = r.tree],
            points |-> l.points \union r.points \union {p \in Own(m) : In(p, box)}]

\* search(son, h) is what comes of going down to the son.
Visiting(son, k, t, search, h) ==
  IF son # Nil /\ Open(h, k, t, BoxDist(son, t)) THEN search[h] ELSE [tree |-> son, heap |-> h]
Searched(n, k, t, q, l, r) ==
  LET m == PushDown(n)
      own == IF m.point_deleted THEN q ELSE Found(q, k, t, m.point)
      first == IF LeftFirst(m, t) THEN Visiting(m.left, k, t, l, own) ELSE Visiting(m.right, k, t, r, own)
      second == IF LeftFirst(m, t) THEN Visiting(m.right, k, t, r, first.heap)
                                   ELSE Visiting(m.left, k, t, l, first.heap)
  IN  [tree |-> IF LeftFirst(m, t) THEN [m EXCEPT !.left = first.tree, !.right = second.tree]
                                   ELSE [m EXCEPT !.left = second.tree, !.right = first.tree],
       heap |-> second.heap]

LEMMA DeletePointOf ==
  ASSUME NEW p
  PROVE  \A n \in Trees :
           DeleteByPoint(n, p) =
             IF n = Nil THEN Nil ELSE IF n.tree_deleted THEN n
             ELSE DeletedFrom(n, p, DeleteByPoint(PushDown(n).left, p), DeleteByPoint(PushDown(n).right, p))
<1> DEFINE Of(n, f) == IF n = Nil THEN Nil ELSE IF n.tree_deleted THEN n
                       ELSE DeletedFrom(n, p, f[PushDown(n).left], f[PushDown(n).right])
           Upto(d, f) == f = [n \in Level[d] |-> Of(n, f)]
           D == {d \in 0 .. MaxDepth : \E f : Upto(d, f)}
           F == CHOOSE f : Upto(MaxDepth, f)
<1>1. \A n : DeleteByPoint(n, p) = F[n]
  BY DEF DeleteByPoint, DeletedFrom, Trees
<1>2. \A n, f, g : n = Nil \/ (f[PushDown(n).left] = g[PushDown(n).left] /\ f[PushDown(n).right] = g[PushDown(n).right])
                    => Of(n, f) = Of(n, g)
  OBVIOUS
<1> HIDE DEF Of
<1>3. MaxDepth \in Nat  BY DepthNat
<1>4. 0 \in D
  <2> DEFINE g == [n \in Level[0] |-> Of(n, <<>>)]
  <2>1. 0 \in 0 .. MaxDepth  BY <1>3
  <2>2. \A n \in Level[0] : Of(n, <<>>) = Of(n, g)
    <3> HIDE DEF g
    <3> QED  BY <1>2, <2>1, LevelNodes
  <2>3. Upto(0, g)  BY <2>2
  <2> HIDE DEF Upto, g
  <2> QED  BY <2>1, <2>3
<1>5. ASSUME NEW d \in Nat, d + 1 \in 0 .. MaxDepth, NEW f, Upto(d, f) PROVE \E g : Upto(d + 1, g)
  <2> DEFINE g == [n \in Level[d + 1] |-> Of(n, f)]
  <2>1. \A n \in Level[d] : g[n] = f[n]
    <3>1. Level[d] \subseteq Level[d + 1]  BY <1>5, LevelsGrow
    <3> QED  BY <1>5, <3>1
  <2>2. ASSUME NEW n \in Level[d + 1] PROVE Of(n, f) = Of(n, g)
    <3>1. CASE n = Nil  BY <1>2, <3>1
    <3>2. CASE n # Nil
      <4>1. (d + 1) - 1 = d  OBVIOUS
      <4>2. PushDown(n).left \in Level[d] /\ PushDown(n).right \in Level[d]  BY <1>5, <3>2, <4>1, PushedLevel
      <4> HIDE DEF g
      <4> QED  BY <1>2, <2>1, <4>2
    <3> QED  BY <3>1, <3>2
  <2> QED  BY <2>2
<1>6. MaxDepth \in D
  <2>1. \A d \in Nat : d \in D /\ d + 1 \in 0 .. MaxDepth => d + 1 \in D
    <3> HIDE DEF Upto
    <3> QED  BY <1>5
  <2>2. D \subseteq 0 .. MaxDepth  OBVIOUS
  <2> HIDE DEF D
  <2>3. D = 0 .. MaxDepth  BY <1>4, <2>1, <2>2, DepthInduction
  <2> QED  BY <1>3, <2>3
<1>7. Upto(MaxDepth, F)  BY <1>6
<1>8. \A n \in Trees : F[n] = Of(n, F)  BY <1>7 DEF Trees
<1> HIDE DEF F
<1> QED  BY <1>1, <1>8 DEF Of

LEMMA DeleteRangeOf ==
  ASSUME NEW box, NEW sampling
  PROVE  \A n \in Trees :
           DeleteByRange(n, box, sampling) =
             IF n = Nil THEN [tree |-> Nil, count |-> 0]
             ELSE IF n.tree_deleted THEN [tree |-> n, count |-> 0]
             ELSE RangeDeleted(n, box, sampling, DeleteByRange(PushDown(n).left, box, sampling),
                                                 DeleteByRange(PushDown(n).right, box, sampling))
<1> DEFINE Of(n, f) == IF n = Nil THEN [tree |-> Nil, count |-> 0]
                       ELSE IF n.tree_deleted THEN [tree |-> n, count |-> 0]
                       ELSE RangeDeleted(n, box, sampling, f[PushDown(n).left], f[PushDown(n).right])
           Upto(d, f) == f = [n \in Level[d] |-> Of(n, f)]
           D == {d \in 0 .. MaxDepth : \E f : Upto(d, f)}
           F == CHOOSE f : Upto(MaxDepth, f)
<1>1. \A n : DeleteByRange(n, box, sampling) = F[n]
  BY DEF DeleteByRange, RangeDeleted, Trees
<1>2. \A n, f, g : n = Nil \/ (f[PushDown(n).left] = g[PushDown(n).left] /\ f[PushDown(n).right] = g[PushDown(n).right])
                    => Of(n, f) = Of(n, g)
  OBVIOUS
<1> HIDE DEF Of
<1>3. MaxDepth \in Nat  BY DepthNat
<1>4. 0 \in D
  <2> DEFINE g == [n \in Level[0] |-> Of(n, <<>>)]
  <2>1. 0 \in 0 .. MaxDepth  BY <1>3
  <2>2. \A n \in Level[0] : Of(n, <<>>) = Of(n, g)
    <3> HIDE DEF g
    <3> QED  BY <1>2, <2>1, LevelNodes
  <2>3. Upto(0, g)  BY <2>2
  <2> HIDE DEF Upto, g
  <2> QED  BY <2>1, <2>3
<1>5. ASSUME NEW d \in Nat, d + 1 \in 0 .. MaxDepth, NEW f, Upto(d, f) PROVE \E g : Upto(d + 1, g)
  <2> DEFINE g == [n \in Level[d + 1] |-> Of(n, f)]
  <2>1. \A n \in Level[d] : g[n] = f[n]
    <3>1. Level[d] \subseteq Level[d + 1]  BY <1>5, LevelsGrow
    <3> QED  BY <1>5, <3>1
  <2>2. ASSUME NEW n \in Level[d + 1] PROVE Of(n, f) = Of(n, g)
    <3>1. CASE n = Nil  BY <1>2, <3>1
    <3>2. CASE n # Nil
      <4>1. (d + 1) - 1 = d  OBVIOUS
      <4>2. PushDown(n).left \in Level[d] /\ PushDown(n).right \in Level[d]  BY <1>5, <3>2, <4>1, PushedLevel
      <4> HIDE DEF g
      <4> QED  BY <1>2, <2>1, <4>2
    <3> QED  BY <3>1, <3>2
  <2> QED  BY <2>2
<1>6. MaxDepth \in D
  <2>1. \A d \in Nat : d \in D /\ d + 1 \in 0 .. MaxDepth => d + 1 \in D
    <3> HIDE DEF Upto
    <3> QED  BY <1>5
  <2>2. D \subseteq 0 .. MaxDepth  OBVIOUS
  <2> HIDE DEF D
  <2>3. D = 0 .. MaxDepth  BY <1>4, <2>1, <2>2, DepthInduction
  <2> QED  BY <1>3, <2>3
<1>7. Upto(MaxDepth, F)  BY <1>6
<1>8. \A n \in Trees : F[n] = Of(n, F)  BY <1>7 DEF Trees
<1> HIDE DEF F
<1> QED  BY <1>1, <1>8 DEF Of

LEMMA SearchRangeOf ==
  ASSUME NEW box
  PROVE  \A n \in Trees :
           SearchByRange(n, box) =
             IF n = Nil THEN [tree |-> Nil, points |-> {}]
             ELSE RangeFound(n, box, SearchByRange(PushDown(n).left, box), SearchByRange(PushDown(n).right, box))
<1> DEFINE Of(n, f) == IF n = Nil THEN [tree |-> Nil, points |-> {}]
                       ELSE RangeFound(n, box, f[PushDown(n).left], f[PushDown(n).right])
           Upto(d, f) == f = [n \in Level[d] |-> Of(n, f)]
           D == {d \in 0 .. MaxDepth : \E f : Upto(d, f)}
           F == CHOOSE f : Upto(MaxDepth, f)
<1>1. \A n : SearchByRange(n, box) = F[n]
  BY DEF SearchByRange, RangeFound, Trees
<1>2. \A n, f, g : n = Nil \/ (f[PushDown(n).left] = g[PushDown(n).left] /\ f[PushDown(n).right] = g[PushDown(n).right])
                    => Of(n, f) = Of(n, g)
  OBVIOUS
<1> HIDE DEF Of
<1>3. MaxDepth \in Nat  BY DepthNat
<1>4. 0 \in D
  <2> DEFINE g == [n \in Level[0] |-> Of(n, <<>>)]
  <2>1. 0 \in 0 .. MaxDepth  BY <1>3
  <2>2. \A n \in Level[0] : Of(n, <<>>) = Of(n, g)
    <3> HIDE DEF g
    <3> QED  BY <1>2, <2>1, LevelNodes
  <2>3. Upto(0, g)  BY <2>2
  <2> HIDE DEF Upto, g
  <2> QED  BY <2>1, <2>3
<1>5. ASSUME NEW d \in Nat, d + 1 \in 0 .. MaxDepth, NEW f, Upto(d, f) PROVE \E g : Upto(d + 1, g)
  <2> DEFINE g == [n \in Level[d + 1] |-> Of(n, f)]
  <2>1. \A n \in Level[d] : g[n] = f[n]
    <3>1. Level[d] \subseteq Level[d + 1]  BY <1>5, LevelsGrow
    <3> QED  BY <1>5, <3>1
  <2>2. ASSUME NEW n \in Level[d + 1] PROVE Of(n, f) = Of(n, g)
    <3>1. CASE n = Nil  BY <1>2, <3>1
    <3>2. CASE n # Nil
      <4>1. (d + 1) - 1 = d  OBVIOUS
      <4>2. PushDown(n).left \in Level[d] /\ PushDown(n).right \in Level[d]  BY <1>5, <3>2, <4>1, PushedLevel
      <4> HIDE DEF g
      <4> QED  BY <1>2, <2>1, <4>2
    <3> QED  BY <3>1, <3>2
  <2> QED  BY <2>2
<1>6. MaxDepth \in D
  <2>1. \A d \in Nat : d \in D /\ d + 1 \in 0 .. MaxDepth => d + 1 \in D
    <3> HIDE DEF Upto
    <3> QED  BY <1>5
  <2>2. D \subseteq 0 .. MaxDepth  OBVIOUS
  <2> HIDE DEF D
  <2>3. D = 0 .. MaxDepth  BY <1>4, <2>1, <2>2, DepthInduction
  <2> QED  BY <1>3, <2>3
<1>7. Upto(MaxDepth, F)  BY <1>6
<1>8. \A n \in Trees : F[n] = Of(n, F)  BY <1>7 DEF Trees
<1> HIDE DEF F
<1> QED  BY <1>1, <1>8 DEF Of

LEMMA AddOf ==
  ASSUME NEW p
  PROVE  \A n \in Trees \ {Nil} :
           AddByPoint(n, p) =
             AddedTo(n, p, AddByPoint(PushDown(n).left, p), AddByPoint(PushDown(n).right, p))
<1> DEFINE Of(n, f) == AddedTo(n, p, f[PushDown(n).left], f[PushDown(n).right])
           Upto(d, f) == f = [n \in Level[d] \ {Nil} |-> Of(n, f)]
           D == {d \in 0 .. MaxDepth : \E f : Upto(d, f)}
           F == CHOOSE f : Upto(MaxDepth, f)
<1>1. \A n : AddByPoint(n, p) = F[n]
  BY DEF AddByPoint, AddedTo, Trees
<1>2. \A n, f, g : (/\ PushDown(n).left = Nil \/ f[PushDown(n).left] = g[PushDown(n).left]
                    /\ PushDown(n).right = Nil \/ f[PushDown(n).right] = g[PushDown(n).right])
                    => Of(n, f) = Of(n, g)
  <2> TAKE n, f, g
  <2> HAVE (/\ PushDown(n).left = Nil \/ f[PushDown(n).left] = g[PushDown(n).left]
            /\ PushDown(n).right = Nil \/ f[PushDown(n).right] = g[PushDown(n).right])
  <2> DEFINE m == PushDown(n)
             leaf == Update(InitTreeNode(p, AxisAfter(m.division_axis)))
  <2>1. (IF m.left = Nil THEN leaf ELSE f[m.left]) = (IF m.left = Nil THEN leaf ELSE g[m.left])
    OBVIOUS
  <2>2. (IF m.right = Nil THEN leaf ELSE f[m.right]) = (IF m.right = Nil THEN leaf ELSE g[m.right])
    OBVIOUS
  <2> QED  BY <2>1, <2>2, Zenon DEF AddedTo
<1> HIDE DEF Of
<1>3. MaxDepth \in Nat  BY DepthNat
<1>4. 0 \in D
  <2> DEFINE g == [n \in Level[0] \ {Nil} |-> Of(n, <<>>)]
  <2>1. 0 \in 0 .. MaxDepth  BY <1>3
  <2>2. \A n \in Level[0] \ {Nil} : Of(n, <<>>) = Of(n, g)
    <3> HIDE DEF g
    <3> QED  BY <1>2, <2>1, LevelNodes
  <2>3. Upto(0, g)  BY <2>2
  <2> HIDE DEF Upto, g
  <2> QED  BY <2>1, <2>3
<1>5. ASSUME NEW d \in Nat, d + 1 \in 0 .. MaxDepth, NEW f, Upto(d, f) PROVE \E g : Upto(d + 1, g)
  <2> DEFINE g == [n \in Level[d + 1] \ {Nil} |-> Of(n, f)]
  <2>1. \A n \in Level[d] \ {Nil} : g[n] = f[n]
    <3>1. Level[d] \subseteq Level[d + 1]  BY <1>5, LevelsGrow
    <3> QED  BY <1>5, <3>1
  <2>2. ASSUME NEW n \in Level[d + 1] \ {Nil} PROVE Of(n, f) = Of(n, g)
    <3>1. (d + 1) - 1 = d  OBVIOUS
    <3>2. PushDown(n).left \in Level[d] /\ PushDown(n).right \in Level[d]  BY <1>5, <3>1, PushedLevel
    <3> HIDE DEF g
    <3> QED  BY <1>2, <2>1, <3>2
  <2> QED  BY <2>2
<1>6. MaxDepth \in D
  <2>1. \A d \in Nat : d \in D /\ d + 1 \in 0 .. MaxDepth => d + 1 \in D
    <3> HIDE DEF Upto
    <3> QED  BY <1>5
  <2>2. D \subseteq 0 .. MaxDepth  OBVIOUS
  <2> HIDE DEF D
  <2>3. D = 0 .. MaxDepth  BY <1>4, <2>1, <2>2, DepthInduction
  <2> QED  BY <1>3, <2>3
<1>7. Upto(MaxDepth, F)  BY <1>6
<1>8. \A n \in Trees \ {Nil} : F[n] = Of(n, F)  BY <1>7 DEF Trees
<1> HIDE DEF F
<1> QED  BY <1>1, <1>8 DEF Of

-----------------------------------------------------------------------------
(* The size of a tree bounds its depth.                                     *)

\* A tree has finitely many nodes, and none only if it is Nil.
LEMMA CountNat == \A n \in Trees : Count[n] \in Nat /\ (Count[n] = 0 <=> n = Nil)
<1> DEFINE S == {n \in Trees : Count[n] \in Nat /\ (Count[n] = 0 <=> n = Nil)}
<1>1. Nil \in S
  <2>1. Nil \in Trees  BY DepthNat, LevelNodes DEF Trees
  <2> QED  BY <2>1, CountOf
<1>2. ASSUME NEW n \in Trees \ {Nil}, n.left \in S, n.right \in S PROVE n \in S
  <2>1. Count[n] = 1 + Count[n.left] + Count[n.right]  BY CountOf
  <2>2. Count[n.left] \in Nat /\ Count[n.right] \in Nat  BY <1>2
  <2> QED  BY <2>1, <2>2
<1> HIDE DEF S
<1>3. Trees \subseteq S  BY <1>1, <1>2, StoredInduction
<1> QED  BY <1>3 DEF S

\* Whatever is in a tree was added to it.
LEMMA LivePoints == \A n \in Trees : Live[n] \subseteq Points
<1> DEFINE S == {n \in Trees : Live[n] \subseteq Points}
<1>1. Nil \in S
  <2>1. Nil \in Trees  BY DepthNat, LevelNodes DEF Trees
  <2> QED  BY <2>1, LiveOf
<1>2. ASSUME NEW n \in Trees \ {Nil}, PushDown(n).left \in S, PushDown(n).right \in S PROVE n \in S
  <2>1. PushDown(n).point \in Points  BY Pushed, TreeNode
  <2>2. Own(PushDown(n)) \subseteq Points  BY <2>1 DEF Own
  <2> QED  BY <1>2, <2>2, LiveOf
<1> HIDE DEF S
<1>3. Trees \subseteq S  BY <1>1, <1>2, TreeInduction
<1> QED  BY <1>3 DEF S

\* The tree that is not there.
LEMMA NoTree == Nil \in Trees /\ Live[Nil] = {} /\ Nodes[Nil] = {} /\ Count[Nil] = 0
<1>1. Nil \in Trees  BY DepthNat, LevelNodes DEF Trees
<1> QED  BY <1>1, LiveOf, NodesOf, CountOf

\* Push_Down keeps the number of nodes, which bounds the depth.
LEMMA CountInherit ==
  ASSUME NEW son \in Trees, son # Nil, NEW father, IsNode(father)
  PROVE  Inherit(son, father) \in Trees /\ Inherit(son, father) # Nil /\ Count[Inherit(son, father)] = Count[son]
<1>1. Inherit(son, father) \in Trees /\ Inherit(son, father) # Nil  BY DepthNat, InheritLevel DEF Trees
<1>2. Inherit(son, father).left = son.left /\ Inherit(son, father).right = son.right
  BY TreeNode, InheritKept
<1> QED  BY <1>1, <1>2, CountOf

LEMMA CountPushed ==
  ASSUME NEW n \in Trees, n # Nil
  PROVE  /\ Count[PushDown(n).left] = Count[n.left] /\ Count[PushDown(n).right] = Count[n.right]
         /\ Count[PushDown(n)] = Count[n]
         /\ Count[n] = 1 + Count[PushDown(n).left] + Count[PushDown(n).right]
<1>1. IsNode(n) /\ n.left \in Trees /\ n.right \in Trees  BY TreeNode
<1>2. Count[PushDown(n).left] = Count[n.left]  BY <1>1, PushDownFields, CountInherit
<1>3. Count[PushDown(n).right] = Count[n.right]  BY <1>1, PushDownFields, CountInherit
<1>4. PushDown(n) \in Trees /\ PushDown(n) # Nil  BY Pushed
<1> QED  BY <1>2, <1>3, <1>4, CountOf

LEMMA LevelByCount == \A n \in Trees : \A c \in 0 .. MaxDepth : Count[n] <= c => n \in Level[c]
<1> DEFINE S == {n \in Trees : \A c \in 0 .. MaxDepth : Count[n] <= c => n \in Level[c]}
<1>1. Nil \in S  BY NoTree, LevelNodes
<1>2. ASSUME NEW n \in Trees \ {Nil}, n.left \in S, n.right \in S PROVE n \in S
  <2> SUFFICES ASSUME NEW c \in 0 .. MaxDepth, Count[n] <= c PROVE n \in Level[c]  OBVIOUS
  <2>1. IsNode(n) /\ n.point \in Points /\ n.left \in Trees /\ n.right \in Trees  BY TreeNode
  <2>2. Count[n] = 1 + Count[n.left] + Count[n.right] /\ Count[n.left] \in Nat /\ Count[n.right] \in Nat
    BY <2>1, CountOf, CountNat
  <2>3. c # 0 /\ c - 1 \in 0 .. MaxDepth /\ Count[n.left] <= c - 1 /\ Count[n.right] <= c - 1
    BY <2>2, DepthNat
  <2>4. n.left \in Level[c - 1] /\ n.right \in Level[c - 1]  BY <1>2, <2>3
  <2>5. n \in NodesOver(Level[c - 1])  BY <2>1, <2>4, NodeOver
  <2> QED  BY <2>3, <2>5, LevelNodes
<1> HIDE DEF S
<1>3. Trees \subseteq S  BY <1>1, <1>2, StoredInduction
<1> QED  BY <1>3 DEF S

\* A node over two trees is a tree, as long as it has not too many nodes.
LEMMA MadeTree ==
  ASSUME NEW n, IsNode(n), n.point \in Points, n.left \in Trees, n.right \in Trees,
         1 + Count[n.left] + Count[n.right] <= MaxDepth
  PROVE  n \in Trees /\ n # Nil /\ Count[n] = 1 + Count[n.left] + Count[n.right]
<1>1. MaxDepth \in Nat /\ Count[n.left] \in Nat /\ Count[n.right] \in Nat  BY DepthNat, CountNat
<1>2. MaxDepth # 0 /\ MaxDepth - 1 \in 0 .. MaxDepth
      /\ Count[n.left] <= MaxDepth - 1 /\ Count[n.right] <= MaxDepth - 1
  BY <1>1
<1>3. n.left \in Level[MaxDepth - 1] /\ n.right \in Level[MaxDepth - 1]  BY <1>2, LevelByCount
<1>4. n \in NodesOver(Level[MaxDepth - 1])  BY <1>3, NodeOver
<1>5. n \in Trees /\ n # Nil  BY <1>1, <1>2, <1>4, LevelNodes DEF Trees
<1> QED  BY <1>5, CountOf

-----------------------------------------------------------------------------
(* The promises of a whole tree: Holds(tree, S, tight) for a tree that is all *)
(* right and has the points S.                                              *)

\* The range of a node is no larger than its points need it, and the mark is set if
\* none is left.  Delete_by_point, which returns before it updates, does not keep that.
Tight(n, S) ==
  /\ S = {} => n.tree_deleted
  /\ S # {} => \A a \in Axes : (\E p \in S : p[a] = n.min[a]) /\ (\E p \in S : p[a] = n.max[a])

\* The points of the sons lie on the side of the node that those who look for a point
\* go down to.
Sided(n, L, R) == (\A p \in L : GoesLeft(n, p)) /\ (\A p \in R : ~GoesLeft(n, p))

NodeGood(n, tight) ==
  /\ Promises(n, Live[n]) /\ n.TreeSize = Count[n]
  /\ Live[PushDown(n).left] \intersect Live[PushDown(n).right] = {}
  /\ Own(PushDown(n)) \intersect (Live[PushDown(n).left] \union Live[PushDown(n).right]) = {}
  /\ Sided(PushDown(n), Live[PushDown(n).left], Live[PushDown(n).right])
  /\ tight => Tight(n, Live[n])

Good(tree, tight) == \A n \in Nodes[tree] : NodeGood(n, tight)

\* The tree is all right and its points are S.
Holds(tree, S, tight) == tree \in Trees /\ Good(tree, tight) /\ Live[tree] = S

\* It depends on the point and the axis of the node, and on no point that is not there.
LEMMA SidedSame ==
  ASSUME NEW n, NEW m, n.point = m.point, n.division_axis = m.division_axis,
         NEW L, NEW R, Sided(m, L, R), NEW X \in SUBSET L, NEW Y \in SUBSET R
  PROVE  Sided(n, X, Y)
BY DEF Sided, GoesLeft

\* A tree is all right if its node and the sons below it are.
LEMMA GoodOf ==
  ASSUME NEW n \in Trees, n # Nil, NEW tight
  PROVE  Good(n, tight) <=>
           NodeGood(n, tight) /\ Good(PushDown(n).left, tight) /\ Good(PushDown(n).right, tight)
<1>1. Nodes[n] = {n} \union Nodes[PushDown(n).left] \union Nodes[PushDown(n).right]  BY NodesOf
<1> QED  BY <1>1 DEF Good

LEMMA HoldsNothing == ASSUME NEW tight PROVE Holds(Nil, {}, tight)
BY NoTree DEF Holds, Good

\* A tree that is all right keeps the promises of a son.
LEMMA HoldsSon ==
  ASSUME NEW n, NEW S, NEW tight, Holds(n, S, tight)
  PROVE  /\ Son(n, S) /\ n \in Trees /\ S \subseteq Points
         /\ n # Nil => n.TreeSize = Count[n] /\ (tight => Tight(n, S))
<1>1. CASE n = Nil  BY <1>1, NoTree DEF Holds, Son
<1>2. CASE n # Nil
  <2>1. NodeGood(n, tight) /\ IsNode(n)  BY <1>2, GoodOf, TreeNode DEF Holds
  <2> QED  BY <1>2, <2>1, LivePoints DEF Holds, Son, NodeGood
<1> QED  BY <1>1, <1>2

\* What whoever comes down to a node finds.
LEMMA Descended ==
  ASSUME NEW n, n # Nil, NEW S, NEW tight, Holds(n, S, tight),
         NEW m, m = PushDown(n), NEW L, L = Live[m.left], NEW R, R = Live[m.right]
  PROVE  /\ m \in Trees /\ m # Nil /\ IsNode(m) /\ m.point \in Points
         /\ Holds(m.left, L, tight) /\ Holds(m.right, R, tight)
         /\ L \intersect R = {} /\ Own(m) \intersect (L \union R) = {} /\ Sided(m, L, R)
         /\ S = L \union R \union Own(m) /\ Promises(m, S) /\ (tight => Tight(m, S))
         /\ m.TreeSize = Count[n] /\ Count[n] = 1 + Count[m.left] + Count[m.right] /\ Count[m] = Count[n]
         /\ Count[m.left] \in Nat /\ Count[m.right] \in Nat
         /\ (m.push_left => m.left = Nil) /\ (m.push_right => m.right = Nil)
<1>1. n \in Trees /\ Good(n, tight) /\ S = Live[n] /\ IsNode(n)  BY TreeNode DEF Holds
<1>2. m \in Trees /\ m # Nil /\ m.left \in Trees /\ m.right \in Trees  BY <1>1, Pushed
<1>3. IsNode(m) /\ m.point \in Points  BY <1>2, TreeNode
<1>4. NodeGood(n, tight) /\ Good(m.left, tight) /\ Good(m.right, tight)  BY <1>1, GoodOf
<1>5. S = L \union R \union Own(m)  BY <1>1, LiveOf
<1>6. /\ \A f \in Fields \ {"left", "right", "push_left", "push_right"} : m[f] = n[f]
      /\ m.left = IF n.left # Nil /\ n.push_left THEN Inherit(n.left, n) ELSE n.left
      /\ m.right = IF n.right # Nil /\ n.push_right THEN Inherit(n.right, n) ELSE n.right
      /\ m.push_left = (n.push_left /\ n.left = Nil)
      /\ m.push_right = (n.push_right /\ n.right = Nil)
  BY <1>1, PushDownFields
<1>7. /\ m.min = n.min /\ m.max = n.max /\ m.TreeSize = n.TreeSize
      /\ m.invalid_point_num = n.invalid_point_num /\ m.tree_deleted = n.tree_deleted
  BY <1>6, FieldNames
<1>8. Promises(m, S) /\ (tight => Tight(m, S))
  BY <1>1, <1>4, <1>7 DEF NodeGood, Promises, Lies, Tight
<1>9. m.TreeSize = Count[n] /\ Count[n] = 1 + Count[m.left] + Count[m.right] /\ Count[m] = Count[n]
      /\ Count[m.left] \in Nat /\ Count[m.right] \in Nat
  BY <1>1, <1>2, <1>4, <1>7, CountPushed, CountNat DEF NodeGood
<1>10. (m.push_left => m.left = Nil) /\ (m.push_right => m.right = Nil)  BY <1>6
<1>11. L \intersect R = {} /\ Own(m) \intersect (L \union R) = {} /\ Sided(m, L, R)  BY <1>4 DEF NodeGood
<1>12. Holds(m.left, L, tight) /\ Holds(m.right, R, tight)  BY <1>2, <1>4 DEF Holds
<1> QED  BY <1>2, <1>3, <1>5, <1>8, <1>9, <1>10, <1>11, <1>12

\* A node that promises the points of its sons, with nothing left to push down.
LEMMA Ascended ==
  ASSUME NEW u, IsNode(u), u.point \in Points, NEW L, NEW R, NEW tight,
         Holds(u.left, L, tight), Holds(u.right, R, tight),
         1 + Count[u.left] + Count[u.right] <= MaxDepth,
         u.push_left => u.left = Nil, u.push_right => u.right = Nil,
         L \intersect R = {}, Own(u) \intersect (L \union R) = {}, Sided(u, L, R),
         NEW S, S = L \union R \union Own(u), Promises(u, S), tight => Tight(u, S),
         u.TreeSize = 1 + Count[u.left] + Count[u.right]
  PROVE  Holds(u, S, tight) /\ u # Nil /\ Count[u] = 1 + Count[u.left] + Count[u.right]
<1>1. u.left \in Trees /\ u.right \in Trees  BY DEF Holds
<1>2. u \in Trees /\ u # Nil /\ Count[u] = 1 + Count[u.left] + Count[u.right]  BY <1>1, MadeTree
<1> DEFINE m == PushDown(u)
<1>3. m.left = u.left /\ m.right = u.right /\ Own(m) = Own(u) /\ Sided(m, L, R)
  <2>1. /\ \A f \in Fields \ {"left", "right", "push_left", "push_right"} : m[f] = u[f]
        /\ m.left = IF u.left # Nil /\ u.push_left THEN Inherit(u.left, u) ELSE u.left
        /\ m.right = IF u.right # Nil /\ u.push_right THEN Inherit(u.right, u) ELSE u.right
    BY PushDownFields
  <2>2. m.point = u.point /\ m.point_deleted = u.point_deleted /\ m.division_axis = u.division_axis
    BY <2>1, FieldNames
  <2>3. Sided(m, L, R)  BY <2>2, SidedSame
  <2> QED  BY <2>1, <2>2, <2>3 DEF Own
<1> HIDE DEF m
<1>4. Live[m.left] = L /\ Live[m.right] = R /\ Good(m.left, tight) /\ Good(m.right, tight)
  BY <1>3 DEF Holds
<1>5. Live[u] = S  BY <1>2, <1>3, <1>4, LiveOf DEF m
<1>6. NodeGood(u, tight)  BY <1>2, <1>3, <1>4, <1>5 DEF NodeGood, m
<1>7. Good(u, tight)  BY <1>2, <1>4, <1>6, GoodOf DEF m
<1> QED  BY <1>2, <1>5, <1>7 DEF Holds

\* Update, 1480-1595: the range of a node is as tight as those of its sons.
LEMMA UpdateTight ==
  ASSUME NEW n, IsNode(n), NEW L, NEW R, Son(n.left, L), Son(n.right, R),
         n.left # Nil => Tight(n.left, L), n.right # Nil => Tight(n.right, R)
  PROVE  Tight(Update(n), L \union R \union Own(n))
<1> DEFINE S == L \union R \union Own(n)
           own == InitTreeNode(n.point, n.division_axis)
<1>1. (n.left = Nil \/ IsNode(n.left)) /\ (n.right = Nil \/ IsNode(n.right))  BY DEF Son
<1>2. ASSUME S = {} PROVE Update(n).tree_deleted
  <2>1. n.point_deleted  BY <1>2 DEF Own
  <2>2. (n.left = Nil \/ n.left.tree_deleted) /\ (n.right = Nil \/ n.right.tree_deleted)  BY <1>2 DEF Tight
  <2> QED  BY <2>1, <2>2, UpdateFields
<1>3. ASSUME NEW a \in Axes, S # {}, NEW o \in Inside(n)
      PROVE  (\E p \in S : p[a] = o.min[a]) /\ (\E p \in S : p[a] = o.max[a])
  <2>1. /\ L # {} => n.left # Nil /\ ~n.left.tree_deleted
        /\ R # {} => n.right # Nil /\ ~n.right.tree_deleted
    BY DEF Son, Promises
  <2>2. Own(n) # {} => ~n.point_deleted  BY DEF Own
  <2>3. \/ o = own /\ ~n.point_deleted
        \/ o = n.left /\ n.left # Nil /\ ~n.left.tree_deleted
        \/ o = n.right /\ n.right # Nil /\ ~n.right.tree_deleted
    BY <1>3, <2>1, <2>2 DEF Inside
  <2>4. CASE o = own /\ ~n.point_deleted
    <3>1. own.min = n.point /\ own.max = n.point  BY DEF InitTreeNode
    <3>2. n.point \in S  BY <2>4 DEF Own
    <3> QED  BY <2>4, <3>1, <3>2
  <2>5. CASE o = n.left /\ n.left # Nil /\ ~n.left.tree_deleted  BY <2>5 DEF Tight
  <2>6. CASE o = n.right /\ n.right # Nil /\ ~n.right.tree_deleted  BY <2>6 DEF Tight
  <2> QED  BY <2>3, <2>4, <2>5, <2>6
<1>4. ASSUME NEW a \in Axes, S # {}
      PROVE  (\E p \in S : p[a] = Update(n).min[a]) /\ (\E p \in S : p[a] = Update(n).max[a])
  <2>1. PICK o : o \in Inside(n)  BY DEF Inside
  <2>2. PICK x \in Inside(n) : Update(n).min[a] = x.min[a]  BY <1>1, <2>1, InsideLies
  <2>3. PICK y \in Inside(n) : Update(n).max[a] = y.max[a]  BY <1>1, <2>1, InsideLies
  <2>4. (\E p \in S : p[a] = x.min[a]) /\ (\E p \in S : p[a] = y.max[a])  BY <1>3, <1>4
  <2> QED  BY <2>2, <2>3, <2>4
<1> HIDE DEF S
<1> QED  BY <1>2, <1>4 DEF Tight, S

\* A node that was updated promises the points of its sons.
LEMMA Updated ==
  ASSUME NEW u, IsNode(u), u.point \in Points, NEW L, NEW R, NEW tight,
         Holds(u.left, L, tight), Holds(u.right, R, tight),
         1 + Count[u.left] + Count[u.right] <= MaxDepth,
         L \intersect R = {}, Own(u) \intersect (L \union R) = {}
  PROVE  LET v == Update(u)
             S == L \union R \union Own(u)
         IN  /\ IsNode(v) /\ v \in Trees /\ v # Nil /\ v.point = u.point /\ Own(v) = Own(u)
             /\ v.division_axis = u.division_axis
             /\ v.left = u.left /\ v.right = u.right
             /\ v.push_left = u.push_left /\ v.push_right = u.push_right
             /\ Promises(v, S) /\ (tight => Tight(v, S))
             /\ v.TreeSize = 1 + Count[u.left] + Count[u.right] /\ Count[v] = v.TreeSize
<1> DEFINE v == Update(u)
           S == L \union R \union Own(u)
<1>1. Son(u.left, L) /\ Son(u.right, R) /\ u.left \in Trees /\ u.right \in Trees  BY HoldsSon
<1>2. IsNode(v) /\ Promises(v, S)  BY <1>1, UpdateKept
<1>3. tight => Tight(v, S)
  <2>1. ASSUME tight PROVE (u.left # Nil => Tight(u.left, L)) /\ (u.right # Nil => Tight(u.right, R))
    BY <2>1, HoldsSon
  <2> QED  BY <1>1, <2>1, UpdateTight
<1>4. /\ \A f \in {"point", "division_axis", "left", "right", "point_deleted",
                   "point_downsample_deleted", "push_left", "push_right"} : v[f] = u[f]
      /\ v.TreeSize = (IF u.left # Nil THEN u.left["TreeSize"] ELSE 0)
                       + (IF u.right # Nil THEN u.right["TreeSize"] ELSE 0) + 1
  BY UpdateFields
<1>5. v.point = u.point /\ v.division_axis = u.division_axis /\ v.left = u.left /\ v.right = u.right /\ v.push_left = u.push_left
      /\ v.push_right = u.push_right /\ v.point_deleted = u.point_deleted
  BY <1>4
<1>6. (IF u.left # Nil THEN u.left.TreeSize ELSE 0) = Count[u.left]
      /\ (IF u.right # Nil THEN u.right.TreeSize ELSE 0) = Count[u.right]
      /\ Count[u.left] \in Nat /\ Count[u.right] \in Nat
  BY <1>1, HoldsSon, NoTree, CountNat
<1>7. v.TreeSize = 1 + Count[u.left] + Count[u.right]  BY <1>4, <1>6
<1>8. v \in Trees /\ v # Nil /\ Count[v] = 1 + Count[u.left] + Count[u.right]  BY <1>1, <1>2, <1>5, MadeTree
<1>9. Own(v) = Own(u)  BY <1>5 DEF Own
<1> QED  BY <1>2, <1>3, <1>5, <1>7, <1>8, <1>9

\* Without anything to push down, that is all.
LEMMA UpdatedHolds ==
  ASSUME NEW u, IsNode(u), u.point \in Points, NEW L, NEW R, NEW tight,
         Holds(u.left, L, tight), Holds(u.right, R, tight),
         1 + Count[u.left] + Count[u.right] <= MaxDepth,
         u.push_left => u.left = Nil, u.push_right => u.right = Nil,
         L \intersect R = {}, Own(u) \intersect (L \union R) = {}, Sided(u, L, R),
         NEW S, S = L \union R \union Own(u)
  PROVE  Holds(Update(u), S, tight)
<1> DEFINE v == Update(u)
<1>1. /\ IsNode(v) /\ v.point = u.point /\ Own(v) = Own(u) /\ v.division_axis = u.division_axis
      /\ v.left = u.left /\ v.right = u.right /\ v.push_left = u.push_left /\ v.push_right = u.push_right
      /\ Promises(v, S) /\ (tight => Tight(v, S))
      /\ v.TreeSize = 1 + Count[u.left] + Count[u.right]
  BY Updated
<1> HIDE DEF v
<1>2. Sided(v, L, R)  BY <1>1, SidedSame
<1>3. Holds(v, S, tight)  BY <1>1, <1>2, Ascended
<1> QED  BY <1>3 DEF v

\* A new leaf, as it is and as its father's flag leaves it.
LEMMA Leaf ==
  ASSUME NEW p \in Points, NEW axis \in Axes, NEW tight, 1 <= MaxDepth
  PROVE  LET leaf == Update(InitTreeNode(p, axis))
         IN  /\ Holds(leaf, {p}, tight) /\ leaf # Nil /\ Count[leaf] = 1 /\ leaf.tree_deleted = FALSE
             /\ leaf.tree_downsample_deleted = FALSE
             /\ \A father : IsNode(father) /\ ~father.tree_deleted /\ ~father.tree_downsample_deleted
                              => Holds(Inherit(leaf, father), {p}, tight)
<1> DEFINE n == InitTreeNode(p, axis)
           u == Update(n)
<1>1. p \in Coordinates  BY TreeAssumption
<1>2. IsNode(n) /\ n.point = p /\ n.left = Nil /\ n.right = Nil /\ ~n.point_deleted
      /\ n.point_downsample_deleted = FALSE
  BY <1>1, FieldNames DEF InitTreeNode, IsNode
<1>3. Own(n) = {p} /\ Count[Nil] = 0  BY <1>2, NoTree DEF Own
<1> HIDE DEF n
<1>4. Holds(n.left, {}, tight) /\ Holds(n.right, {}, tight)  BY <1>2, HoldsNothing
<1>9. /\ {p} = {} \union {} \union Own(n) /\ {} \intersect {} = {} /\ Own(n) \intersect ({} \union {}) = {}
      /\ 1 + Count[n.left] + Count[n.right] = 1 /\ u = Update(n)
  BY <1>2, <1>3
<1> HIDE DEF u
<1>5. /\ IsNode(u) /\ u # Nil /\ u.point = p /\ u.left = Nil /\ u.right = Nil /\ Own(u) = {p}
      /\ Promises(u, {p}) /\ (tight => Tight(u, {p})) /\ u.TreeSize = 1 /\ Count[u] = 1
  <2> DEFINE S == {} \union {} \union Own(n)
  <2>1. /\ IsNode(u) /\ u # Nil /\ u.point = n.point /\ u.left = n.left /\ u.right = n.right
        /\ Own(u) = Own(n) /\ Promises(u, S) /\ (tight => Tight(u, S))
        /\ u.TreeSize = 1 + Count[n.left] + Count[n.right] /\ Count[u] = u.TreeSize
    BY <1>2, <1>4, <1>9, Updated DEF u
  <2>2. S = {p}  BY <1>9
  <2> HIDE DEF S
  <2> QED  BY <1>2, <1>3, <2>1, <2>2
<1>10. \A x : Sided(x, {}, {})  BY DEF Sided
<1>6. Holds(u, {p}, tight)  BY <1>2, <1>4, <1>9, <1>10, UpdatedHolds DEF u
<1>7. u.tree_deleted = FALSE /\ u.tree_downsample_deleted = FALSE
  <2>1. u.tree_deleted \in BOOLEAN /\ u.tree_downsample_deleted \in BOOLEAN
        /\ (u.tree_deleted => n.point_deleted)
        /\ (u.tree_downsample_deleted => n.point_downsample_deleted)
    BY <1>2, UpdateFields DEF u
  <2> QED  BY <1>2, <2>1
<1>8. ASSUME NEW father, IsNode(father), ~father.tree_deleted, ~father.tree_downsample_deleted
      PROVE  Holds(Inherit(u, father), {p}, tight)
  <2> DEFINE i == Inherit(u, father)
  <2>1. IsNode(i) /\ Promises(i, {p}) /\ ~i.point_deleted  BY <1>1, <1>8, LeafInherits DEF n, u
  <2>2. \A f \in {"point", "division_axis", "left", "right", "min", "max", "TreeSize"} : i[f] = u[f]
    BY <1>5, <1>8, InheritKept
  <2> HIDE DEF i
  <2>3. i.point = p /\ i.left = Nil /\ i.right = Nil /\ i.min = u.min /\ i.max = u.max /\ i.TreeSize = 1
    BY <1>5, <2>2
  <2>4. Own(i) = {p}  BY <2>1, <2>3 DEF Own
  <2>5. tight => Tight(i, {p})  BY <1>5, <2>3 DEF Tight
  <2>6. Holds(i.left, {}, tight) /\ Holds(i.right, {}, tight)  BY <2>3, HoldsNothing
  <2>7. Holds(i, {p}, tight)  BY <1>3, <1>10, <2>1, <2>3, <2>4, <2>5, <2>6, Ascended
  <2> QED  BY <2>7 DEF i
<1> QED  BY <1>5, <1>6, <1>7, <1>8 DEF n, u

\* What is below a tree that was deleted as a whole is deleted for everybody who
\* gets there.
LEMMA GoneHolds ==
  ASSUME NEW tight
  PROVE  \A n \in Trees : Good(n, tight) =>
           \A g \in Trees :
             /\ g = Nil <=> n = Nil
             /\ g # Nil => Gone(g) /\ g.left = n.left /\ g.right = n.right /\ g.TreeSize = n.TreeSize
             => Holds(g, {}, tight)
<1> DEFINE Alike(g, n) ==
             /\ g = Nil <=> n = Nil
             /\ g # Nil => Gone(g) /\ g.left = n.left /\ g.right = n.right /\ g.TreeSize = n.TreeSize
           S == {n \in Trees : Good(n, tight) => \A g \in Trees : Alike(g, n) => Holds(g, {}, tight)}
<1>1. Nil \in S  BY NoTree, HoldsNothing
<1>2. ASSUME NEW n \in Trees \ {Nil}, PushDown(n).left \in S, PushDown(n).right \in S PROVE n \in S
  <2> SUFFICES ASSUME Good(n, tight), NEW g \in Trees, Alike(g, n) PROVE Holds(g, {}, tight)  OBVIOUS
  <2> DEFINE m == PushDown(n)
             h == PushDown(g)
  <2>1. g # Nil /\ Gone(g) /\ g.left = n.left /\ g.right = n.right /\ g.TreeSize = n.TreeSize  OBVIOUS
  <2>2. IsNode(n) /\ n.left \in Trees /\ n.right \in Trees /\ IsNode(g)  BY <2>1, TreeNode
  <2>3. (n.left = Nil \/ IsNode(n.left)) /\ (n.right = Nil \/ IsNode(n.right))  BY <2>2, TreeNode
  <2>4. NodeGood(n, tight) /\ Good(m.left, tight) /\ Good(m.right, tight)  BY GoodOf
  <2>5. /\ m.left = IF n.left # Nil /\ n.push_left THEN Inherit(n.left, n) ELSE n.left
        /\ m.right = IF n.right # Nil /\ n.push_right THEN Inherit(n.right, n) ELSE n.right
    BY <2>2, PushDownFields
  <2>6. /\ h.left = IF g.left # Nil THEN Inherit(g.left, g) ELSE Nil
        /\ h.right = IF g.right # Nil THEN Inherit(g.right, g) ELSE Nil
    BY <2>1, <2>2, PushDownFields DEF Gone
  <2>7. h.point_deleted /\ (h.left = Nil \/ Gone(h.left)) /\ (h.right = Nil \/ Gone(h.right))
    BY <2>1, <2>3, PushDownGone
  <2>8. h \in Trees /\ h.left \in Trees /\ h.right \in Trees /\ m.left \in Trees /\ m.right \in Trees
    BY <2>1, Pushed
  <2>9. \A son \in Trees \ {Nil} : \A father :
          IsNode(father) => LET i == Inherit(son, father)
                            IN  i # Nil /\ i.left = son.left /\ i.right = son.right /\ i.TreeSize = son.TreeSize
    BY TreeNode, InheritKept, CountInherit
  <2>10. Alike(h.left, m.left)
    <3>1. CASE n.left = Nil  BY <2>1, <2>5, <2>6, <3>1
    <3>2. CASE n.left # Nil
      <4>1. h.left # Nil /\ h.left.left = n.left.left /\ h.left.right = n.left.right
            /\ h.left.TreeSize = n.left.TreeSize
        BY <2>1, <2>2, <2>6, <2>9, <3>2
      <4>2. m.left # Nil /\ m.left.left = n.left.left /\ m.left.right = n.left.right
            /\ m.left.TreeSize = n.left.TreeSize
        BY <2>2, <2>5, <2>9, <3>2
      <4> QED  BY <2>7, <4>1, <4>2
    <3> QED  BY <3>1, <3>2
  <2>11. Alike(h.right, m.right)
    <3>1. CASE n.right = Nil  BY <2>1, <2>5, <2>6, <3>1
    <3>2. CASE n.right # Nil
      <4>1. h.right # Nil /\ h.right.left = n.right.left /\ h.right.right = n.right.right
            /\ h.right.TreeSize = n.right.TreeSize
        BY <2>1, <2>2, <2>6, <2>9, <3>2
      <4>2. m.right # Nil /\ m.right.left = n.right.left /\ m.right.right = n.right.right
            /\ m.right.TreeSize = n.right.TreeSize
        BY <2>2, <2>5, <2>9, <3>2
      <4> QED  BY <2>7, <4>1, <4>2
    <3> QED  BY <3>1, <3>2
  <2> HIDE DEF Alike
  <2>12. Holds(h.left, {}, tight) /\ Holds(h.right, {}, tight)  BY <1>2, <2>4, <2>8, <2>10, <2>11
  <2> HIDE DEF h, m
  <2>13. Live[h.left] = {} /\ Live[h.right] = {} /\ Good(h.left, tight) /\ Good(h.right, tight)
    BY <2>12 DEF Holds
  <2>14. Own(h) = {}  BY <2>7 DEF Own
  <2>15. Live[g] = {}  BY <2>1, <2>13, <2>14, LiveOf DEF h
  <2>16. g.TreeSize = Count[g]
    <3>1. n.TreeSize = Count[n]  BY <2>4 DEF NodeGood
    <3> QED  BY <2>1, <3>1, CountOf
  <2>17. Promises(g, {}) /\ Tight(g, {})  BY <2>1, GonePromises DEF Tight, Gone
  <2>18. NodeGood(g, tight)  BY <2>13, <2>14, <2>15, <2>16, <2>17 DEF NodeGood, Sided, h
  <2> QED  BY <2>1, <2>13, <2>15, <2>18, GoodOf DEF Holds, h
<1> HIDE DEF S
<1>3. Trees \subseteq S  BY <1>1, <1>2, TreeInduction
<1> QED  BY <1>3 DEF S

\* Delete_by_range, 779, of a tree that lies in the box.
LEMMA DeleteTreeHolds ==
  ASSUME NEW m, NEW S, NEW tight, Holds(m, S, tight), m # Nil, Count[m] <= MaxDepth, NEW sampling \in BOOLEAN
  PROVE  Holds(DeleteTree(m, sampling), {}, tight) /\ DeleteTree(m, sampling) # Nil
         /\ Count[DeleteTree(m, sampling)] = Count[m]
<1> DEFINE g == DeleteTree(m, sampling)
<1>1. m \in Trees /\ Good(m, tight)  BY DEF Holds
<1>2. IsNode(m) /\ m.point \in Points /\ m.left \in Trees /\ m.right \in Trees  BY <1>1, TreeNode
<1>3. Gone(g)  BY <1>2, DeleteTreeGone
<1>4. g.left = m.left /\ g.right = m.right /\ g.TreeSize = m.TreeSize /\ g.point = m.point
  <2>1. DOMAIN m = Fields  BY <1>2 DEF IsNode
  <2> QED  BY <2>1, FieldNames DEF DeleteTree
<1> HIDE DEF g
<1>5. Count[m] = 1 + Count[m.left] + Count[m.right]  BY <1>1, CountOf
<1>6. g \in Trees /\ g # Nil /\ Count[g] = Count[m]  BY <1>2, <1>3, <1>4, <1>5, MadeTree DEF Gone
<1>7. Holds(g, {}, tight)  BY <1>1, <1>3, <1>4, <1>6, GoneHolds
<1> QED  BY <1>6, <1>7 DEF g

-----------------------------------------------------------------------------
(* What the operations do to a tree, one after the other.                   *)

Replaced(m, l, r) == [m EXCEPT !.left = l, !.right = r]

\* A node with other sons.
LEMMA SonsReplaced ==
  ASSUME NEW m, IsNode(m), NEW l, NEW r
  PROVE  LET u == Replaced(m, l, r)
         IN  /\ IsNode(u) /\ u.left = l /\ u.right = r
             /\ \A f \in Fields \ {"left", "right"} : u[f] = m[f]
             /\ u.division_axis = m.division_axis
             /\ u.point = m.point /\ u.point_deleted = m.point_deleted /\ Own(u) = Own(m)
             /\ u.push_left = m.push_left /\ u.push_right = m.push_right
             /\ u.min = m.min /\ u.max = m.max /\ u.TreeSize = m.TreeSize
             /\ u.invalid_point_num = m.invalid_point_num /\ u.tree_deleted = m.tree_deleted
<1> DEFINE u == Replaced(m, l, r)
<1>1. DOMAIN m = Fields  BY DEF IsNode
<1>2. /\ u.left = l /\ u.right = r /\ u = [f \in Fields |-> u[f]]
      /\ \A f \in Fields \ {"left", "right"} : u[f] = m[f]
  BY <1>1, FieldNames DEF Replaced
<1> HIDE DEF u
<1>3. /\ u.point = m.point /\ u.point_deleted = m.point_deleted /\ u.division_axis = m.division_axis
      /\ u.push_left = m.push_left /\ u.push_right = m.push_right
      /\ u.min = m.min /\ u.max = m.max /\ u.TreeSize = m.TreeSize
      /\ u.invalid_point_num = m.invalid_point_num /\ u.tree_deleted = m.tree_deleted
  BY <1>2, FieldNames
<1>4. IsNode(u)  BY <1>2, FieldNames DEF IsNode
<1> QED  BY <1>2, <1>3, <1>4 DEF u, Own

\* A node whose sons were passed by searches.
LEMMA Passed ==
  ASSUME NEW n, n # Nil, NEW S, NEW tight, Holds(n, S, tight), Count[n] <= MaxDepth,
         NEW l, Holds(l, Live[PushDown(n).left], tight), Count[l] = Count[PushDown(n).left],
         NEW r, Holds(r, Live[PushDown(n).right], tight), Count[r] = Count[PushDown(n).right]
  PROVE  LET u == Replaced(PushDown(n), l, r)
         IN  Holds(u, S, tight) /\ u # Nil /\ Count[u] = Count[n]
<1> DEFINE m == PushDown(n)
           u == Replaced(m, l, r)
           L == Live[m.left]
           R == Live[m.right]
<1>1. /\ m \in Trees /\ IsNode(m) /\ m.point \in Points
      /\ Holds(m.left, L, tight) /\ Holds(m.right, R, tight)
      /\ L \intersect R = {} /\ Own(m) \intersect (L \union R) = {} /\ Sided(m, L, R)
      /\ S = L \union R \union Own(m) /\ Promises(m, S) /\ (tight => Tight(m, S))
      /\ m.TreeSize = Count[n] /\ Count[n] = 1 + Count[m.left] + Count[m.right]
      /\ (m.push_left => m.left = Nil) /\ (m.push_right => m.right = Nil)
  BY Descended
<1>2. /\ IsNode(u) /\ u.left = l /\ u.right = r
      /\ u.point = m.point /\ Own(u) = Own(m) /\ u.division_axis = m.division_axis
      /\ u.push_left = m.push_left /\ u.push_right = m.push_right
      /\ u.min = m.min /\ u.max = m.max /\ u.TreeSize = m.TreeSize
      /\ u.invalid_point_num = m.invalid_point_num /\ u.tree_deleted = m.tree_deleted
  BY <1>1, SonsReplaced
<1> HIDE DEF u
<1>3. Promises(u, S) /\ (tight => Tight(u, S))  BY <1>1, <1>2 DEF Promises, Lies, Tight
<1>4. (u.push_left => u.left = Nil) /\ (u.push_right => u.right = Nil)
  <2>1. (m.left = Nil => l = Nil) /\ (m.right = Nil => r = Nil)  BY NoTree, CountNat DEF Holds
  <2> QED  BY <1>1, <1>2, <2>1
<1>5. 1 + Count[u.left] + Count[u.right] = Count[n]  BY <1>1, <1>2
<1>6. Holds(u.left, L, tight) /\ Holds(u.right, R, tight) /\ Sided(u, L, R)  BY <1>1, <1>2, SidedSame
<1> HIDE DEF m, L, R
<1>7. /\ IsNode(u) /\ u.point \in Points /\ S = L \union R \union Own(u)
      /\ Own(u) \intersect (L \union R) = {} /\ L \intersect R = {}
      /\ 1 + Count[u.left] + Count[u.right] <= MaxDepth
      /\ u.TreeSize = 1 + Count[u.left] + Count[u.right]
  BY <1>1, <1>2, <1>5
<1>8. Holds(u, S, tight) /\ u # Nil /\ Count[u] = 1 + Count[u.left] + Count[u.right]
  BY <1>3, <1>4, <1>6, <1>7, Ascended
<1> QED  BY <1>5, <1>8 DEF u, m

\* flatten: the points that are not deleted.
LEMMA FlattenHolds ==
  ASSUME NEW tight
  PROVE  \A n \in Trees : Good(n, tight) /\ Count[n] <= MaxDepth =>
           /\ Flatten[n].points = Live[n]
           /\ Holds(Flatten[n].tree, Live[n], tight) /\ Count[Flatten[n].tree] = Count[n]
<1> DEFINE Claim(n) == /\ Flatten[n].points = Live[n]
                       /\ Holds(Flatten[n].tree, Live[n], tight) /\ Count[Flatten[n].tree] = Count[n]
           S == {n \in Trees : Good(n, tight) /\ Count[n] <= MaxDepth => Claim(n)}
<1>1. Nil \in S  BY NoTree, HoldsNothing, FlattenOf
<1>2. ASSUME NEW n \in Trees \ {Nil}, PushDown(n).left \in S, PushDown(n).right \in S PROVE n \in S
  <2> SUFFICES ASSUME Good(n, tight), Count[n] <= MaxDepth PROVE Claim(n)  OBVIOUS
  <2> DEFINE m == PushDown(n)
             l == Flatten[m.left]
             r == Flatten[m.right]
  <2>1. /\ Holds(m.left, Live[m.left], tight) /\ Holds(m.right, Live[m.right], tight)
        /\ Live[n] = Live[m.left] \union Live[m.right] \union Own(m)
        /\ Count[n] = 1 + Count[m.left] + Count[m.right]
        /\ Count[m.left] \in Nat /\ Count[m.right] \in Nat /\ Count[n] \in Nat
    BY Descended, CountNat DEF Holds
  <2>2. Claim(m.left) /\ Claim(m.right)
    <3>1. Count[m.left] <= MaxDepth /\ Count[m.right] <= MaxDepth  BY <2>1, DepthNat
    <3> QED  BY <1>2, <2>1, <3>1 DEF Holds
  <2>3. Flatten[n] = Flattened(n, l, r)  BY FlattenOf
  <2>4. Flatten[n].tree = Replaced(m, l.tree, r.tree)
        /\ Flatten[n].points = l.points \union r.points \union Own(m)
    BY <2>3 DEF Flattened, Replaced
  <2>5. Holds(Flatten[n].tree, Live[n], tight) /\ Count[Flatten[n].tree] = Count[n]
    <3>1. Holds(n, Live[n], tight)  BY DEF Holds
    <3>2. /\ Holds(l.tree, Live[m.left], tight) /\ Count[l.tree] = Count[m.left]
          /\ Holds(r.tree, Live[m.right], tight) /\ Count[r.tree] = Count[m.right]
      BY <2>2
    <3> HIDE DEF l, r
    <3>3. Holds(Replaced(m, l.tree, r.tree), Live[n], tight) /\ Count[Replaced(m, l.tree, r.tree)] = Count[n]
      BY <3>1, <3>2, Passed
    <3> QED  BY <2>4, <3>3
  <2> QED  BY <2>1, <2>2, <2>4, <2>5
<1> HIDE DEF S
<1>3. Trees \subseteq S  BY <1>1, <1>2, TreeInduction
<1> QED  BY <1>3 DEF S

-----------------------------------------------------------------------------
(* BuildTree: there is a median, and half of the points on each side of it. *)

\* What holds of a finite set if of the set without any of its elements, holds of
\* every finite set.
LEMMA FiniteInduction ==
  ASSUME NEW T, IsFiniteSet(T), NEW F,
         \A s \in SUBSET T : (\A x \in s : s \ {x} \in F) => s \in F
  PROVE  T \in F
<1> DEFINE Bad == {c \in Nat : \E s \in SUBSET T : s \notin F /\ Cardinality(s) = c}
<1>1. Bad = {}
  <2> SUFFICES ASSUME Bad # {} PROVE FALSE  OBVIOUS
  <2>1. PICK c \in Bad : \A b \in Bad : c <= b  BY LeastNat
  <2>2. PICK s \in SUBSET T : s \notin F /\ Cardinality(s) = c  BY <2>1
  <2>3. PICK x \in s : s \ {x} \notin F  BY <2>2
  <2>4. s \ {x} \in SUBSET T  BY <2>2
  <2>5. Cardinality(s \ {x}) = c - 1 /\ c - 1 \in Nat /\ c \in Nat
    BY <2>2, <2>3, FS_Subset, FS_RemoveElement, FS_CardinalityType
  <2>6. c - 1 \in Bad  BY <2>3, <2>4, <2>5
  <2> QED  BY <2>1, <2>5, <2>6
<1>2. Cardinality(T) \in Nat /\ T \in SUBSET T  BY FS_CardinalityType
<1>3. T \notin F => Cardinality(T) \in Bad  BY <1>2
<1> HIDE DEF Bad
<1> QED  BY <1>1, <1>3

\* One element of a finite set has the greatest value of an integer function.
LEMMA FiniteGreatest ==
  ASSUME NEW T, IsFiniteSet(T), T # {}, NEW f, \A x \in T : f[x] \in Int
  PROVE  \E x \in T : \A y \in T : f[y] <= f[x]
<1> DEFINE Has(s) == s = {} \/ \E x \in s : \A y \in s : f[y] <= f[x]
           F == {s \in SUBSET T : Has(s)}
<1>1. {} \in F  OBVIOUS
<1>2. ASSUME NEW s \in SUBSET T, NEW x \in s, s \ {x} \in F PROVE s \in F
  <2>1. CASE s \ {x} = {}
    <3>1. s = {x} /\ f[x] <= f[x]  BY <1>2, <2>1
    <3>2. Has(s)  BY <3>1
    <3> QED  BY <3>2
  <2>2. CASE s \ {x} # {}
    <3>1. PICK y \in s \ {x} : \A z \in s \ {x} : f[z] <= f[y]  BY <1>2, <2>2
    <3>2. x \in T /\ y \in T /\ y \in s /\ \A z \in s : z \in T /\ (z = x \/ z \in s \ {x})  BY <1>2, <3>1
    <3>3. CASE f[x] <= f[y]
      <4>1. \A z \in s : f[z] <= f[y]  BY <3>1, <3>2, <3>3
      <4>2. Has(s)  BY <3>2, <4>1
      <4> QED  BY <4>2
    <3>4. CASE ~(f[x] <= f[y])
      <4>1. \A z \in s : f[z] <= f[x]  BY <3>1, <3>2, <3>4
      <4>2. Has(s)  BY <4>1
      <4> QED  BY <4>2
    <3> QED  BY <3>3, <3>4
  <2> QED  BY <2>1, <2>2
<1> HIDE DEF F
<1>3. \A s \in SUBSET T : (\A x \in s : s \ {x} \in F) => s \in F
  <2> TAKE s \in SUBSET T
  <2>1. s # {} => \E x \in s : TRUE  OBVIOUS
  <2> QED  BY <1>1, <1>2, <2>1
<1>4. T \in F  BY <1>3, FiniteInduction
<1> QED  BY <1>4 DEF F

\* The extremes of the points along an axis.
LEMMA ExtremesAre ==
  ASSUME NEW S \in SUBSET Points, S # {}, NEW a \in Axes
  PROVE  GreatestOf({p[a] : p \in S}) \in Int /\ LeastOf({p[a] : p \in S}) \in Int
<1>1. IsFiniteSet(S) /\ \A p \in S : p[a] \in Int  BY TreeAssumption, FS_Subset DEF Coordinates
<1>2. \E x \in {p[a] : p \in S} : \A y \in {p[a] : p \in S} : x >= y
  <2> DEFINE f == [p \in S |-> p[a]]
  <2>1. \A p \in S : f[p] = p[a] /\ f[p] \in Int  BY <1>1
  <2> HIDE DEF f
  <2>2. PICK p \in S : \A q \in S : f[q] <= f[p]  BY <1>1, <2>1, FiniteGreatest
  <2> QED  BY <1>1, <2>1, <2>2
<1>3. \E x \in {p[a] : p \in S} : \A y \in {p[a] : p \in S} : x <= y
  <2> DEFINE f == [p \in S |-> -p[a]]
  <2>1. \A p \in S : f[p] = -p[a] /\ f[p] \in Int  BY <1>1
  <2> HIDE DEF f
  <2>2. PICK p \in S : \A q \in S : f[q] <= f[p]  BY <1>1, <2>1, FiniteGreatest
  <2>3. \A q \in S : p[a] <= q[a]  BY <1>1, <2>1, <2>2
  <2> QED  BY <2>3
<1> QED  BY <1>1, <1>2, <1>3 DEF GreatestOf, LeastOf

SideOf(S, a) == GreatestOf({p[a] : p \in S}) - LeastOf({p[a] : p \in S})
AxisOf(S) == CHOOSE a \in Axes : /\ \A b \in Axes : SideOf(S, b) <= SideOf(S, a)
                                 /\ \A b \in 1 .. a - 1 : SideOf(S, b) < SideOf(S, a)
BelowOf(S, axis, p) == {q \in S : q[axis] < p[axis]}
MidOf(S) == CHOOSE p \in S : Cardinality(BelowOf(S, AxisOf(S), p)) = (Cardinality(S) - 1) \div 2
BelowMid(S) == BelowOf(S, AxisOf(S), MidOf(S))
AboveMid(S) == (S \ BelowMid(S)) \ {MidOf(S)}
Built(S, l, r) == Update([InitTreeNode(MidOf(S), AxisOf(S)) EXCEPT !.left = l, !.right = r])

\* The longest side.
LEMMA AxisExists == ASSUME NEW S \in SUBSET Points, S # {} PROVE AxisOf(S) \in Axes
<1> DEFINE d(a) == SideOf(S, a)
           Best(a) == (\A b \in Axes : d(b) <= d(a)) /\ (\A b \in 1 .. a - 1 : d(b) < d(a))
<1>1. d(1) \in Int /\ d(2) \in Int /\ d(3) \in Int
  <2>1. ASSUME NEW a \in Axes PROVE d(a) \in Int
    <3>1. GreatestOf({p[a] : p \in S}) \in Int /\ LeastOf({p[a] : p \in S}) \in Int  BY ExtremesAre
    <3> QED  BY <3>1 DEF SideOf
  <2>2. 1 \in Axes /\ 2 \in Axes /\ 3 \in Axes  BY DEF Axes
  <2> HIDE DEF d
  <2> QED  BY <2>1, <2>2
<1> HIDE DEF d
<1>2. Best(1) \/ Best(2) \/ Best(3)
  <2>1. \A b \in Axes : b = 1 \/ b = 2 \/ b = 3  BY DEF Axes
  <2>2. /\ \A b \in 1 .. 1 - 1 : FALSE
        /\ \A b \in 1 .. 2 - 1 : b = 1
        /\ \A b \in 1 .. 3 - 1 : b = 1 \/ b = 2
    OBVIOUS
  <2>3. CASE d(2) <= d(1) /\ d(3) <= d(1)
    <3>1. \A b \in Axes : d(b) <= d(1)  BY <1>1, <2>1, <2>3
    <3> QED  BY <2>2, <3>1
  <2>4. CASE d(1) < d(2) /\ d(3) <= d(2)  BY <1>1, <2>1, <2>2, <2>4
  <2>5. CASE d(1) < d(3) /\ d(2) < d(3)  BY <1>1, <2>1, <2>2, <2>5
  <2> QED  BY <1>1, <2>3, <2>4, <2>5
<1>3. \E a \in Axes : Best(a)
  <2>1. 1 \in Axes /\ 2 \in Axes /\ 3 \in Axes  BY DEF Axes
  <2> HIDE DEF Best
  <2> QED  BY <1>2, <2>1
<1> QED  BY <1>3 DEF AxisOf, d

\* nth_element finds a point of every rank.
LEMMA RankExists ==
  ASSUME NEW T \in SUBSET Points, NEW axis \in Axes
  PROVE  \A r \in Nat : r < Cardinality(T) => \E p \in T : Cardinality(BelowOf(T, axis, p)) = r
<1> DEFINE Has(s) == \A r \in Nat : r < Cardinality(s) => \E p \in s : Cardinality(BelowOf(s, axis, p)) = r
           F == {s \in SUBSET T : Has(s)}
<1>1. IsFiniteSet(T) /\ \A p \in T : p[axis] \in Int  BY TreeAssumption, FS_Subset DEF Coordinates
<1>2. {} \in F
  <2>1. Cardinality({}) = 0  BY FS_EmptySet
  <2> QED  BY <2>1
<1>3. ASSUME NEW s \in SUBSET T, s # {}, \A x \in s : s \ {x} \in F PROVE Has(s)
  <2>1. IsFiniteSet(s)  BY <1>1, FS_Subset
  <2>2. PICK x \in s : \A y \in s : y[axis] <= x[axis]
    <3> DEFINE f == [p \in s |-> p[axis]]
    <3>1. \A p \in s : f[p] = p[axis] /\ f[p] \in Int  BY <1>1, <1>3
    <3> HIDE DEF f
    <3>2. PICK p \in s : \A q \in s : f[q] <= f[p]  BY <1>3, <2>1, <3>1, FiniteGreatest
    <3> QED  BY <3>1, <3>2
  <2> DEFINE u == s \ {x}
  <2>3. Cardinality(u) = Cardinality(s) - 1 /\ Cardinality(s) \in Nat
    BY <2>1, <2>2, FS_RemoveElement, FS_CardinalityType
  <2>4. BelowOf(s, axis, x) = u
    <3>1. \A y \in u : y # x /\ y \in Points /\ x \in Points  BY <1>3, <2>2
    <3>2. \A y \in u : y[axis] # x[axis]  BY <3>1, TreeAssumption
    <3>3. \A y \in u : y[axis] < x[axis]  BY <1>1, <1>3, <2>2, <3>2
    <3>4. ~(x[axis] < x[axis])  BY <1>1, <1>3, <2>2
    <3> QED  BY <2>2, <3>3, <3>4 DEF BelowOf
  <2>5. ASSUME NEW p \in u PROVE BelowOf(s, axis, p) = BelowOf(u, axis, p)
    <3>1. ~(x[axis] < p[axis])  BY <1>1, <1>3, <2>2, <2>5
    <3> QED  BY <3>1 DEF BelowOf
  <2> SUFFICES ASSUME NEW r \in Nat, r < Cardinality(s)
               PROVE  \E p \in s : Cardinality(BelowOf(s, axis, p)) = r
    OBVIOUS
  <2>6. CASE r = Cardinality(s) - 1  BY <2>2, <2>3, <2>4, <2>6
  <2>7. CASE r # Cardinality(s) - 1
    <3>1. r < Cardinality(u)  BY <2>3, <2>7
    <3>2. Has(u)  BY <1>3
    <3>3. PICK p \in u : Cardinality(BelowOf(u, axis, p)) = r  BY <3>1, <3>2
    <3> QED  BY <2>5, <3>3
  <2> QED  BY <2>6, <2>7
<1> HIDE DEF Has
<1>4. \A s \in SUBSET T : (\A x \in s : s \ {x} \in F) => s \in F
  <2> TAKE s \in SUBSET T
  <2>1. CASE s = {}  BY <1>2, <2>1
  <2>2. CASE s # {}  BY <1>3, <2>2
  <2> QED  BY <2>1, <2>2
<1> HIDE DEF F
<1>5. T \in F  BY <1>1, <1>4, FiniteInduction
<1>6. Has(T)  BY <1>5 DEF F
<1> QED  BY <1>6 DEF Has

\* There is a point with half of the others below it, along any axis.
LEMMA MidExists ==
  ASSUME NEW S \in SUBSET Points, S # {}
  PROVE  MidOf(S) \in S
<1> DEFINE r == (Cardinality(S) - 1) \div 2
<1>1. Cardinality(S) \in Nat /\ Cardinality(S) # 0
  BY TreeAssumption, FS_Subset, FS_CardinalityType, FS_EmptySet
<1>2. r \in Nat /\ r < Cardinality(S)  BY <1>1
<1> HIDE DEF r
<1>3. \E p \in S : Cardinality(BelowOf(S, AxisOf(S), p)) = r  BY <1>2, AxisExists, RankExists
<1> QED  BY <1>3 DEF MidOf, r

\* Both halves are smaller.
LEMMA HalvesAre ==
  ASSUME NEW S \in SUBSET Points, S # {}
  PROVE  /\ MidOf(S) \in S /\ AxisOf(S) \in Axes
         /\ S = BelowMid(S) \union AboveMid(S) \union {MidOf(S)}
         /\ BelowMid(S) \intersect AboveMid(S) = {}
         /\ {MidOf(S)} \intersect (BelowMid(S) \union AboveMid(S)) = {}
         /\ Sided(InitTreeNode(MidOf(S), AxisOf(S)), BelowMid(S), AboveMid(S))
         /\ BelowMid(S) \in SUBSET Points /\ AboveMid(S) \in SUBSET Points
         /\ Cardinality(S) \in Nat \ {0}
         /\ Cardinality(BelowMid(S)) \in Nat /\ Cardinality(AboveMid(S)) \in Nat
         /\ Cardinality(S) = 1 + Cardinality(BelowMid(S)) + Cardinality(AboveMid(S))
<1>1. MidOf(S) \in S /\ AxisOf(S) \in Axes  BY MidExists, AxisExists
<1>2. MidOf(S) \notin BelowMid(S) /\ BelowMid(S) \subseteq S
  <2>1. MidOf(S)[AxisOf(S)] \in Int  BY <1>1, TreeAssumption DEF Coordinates
  <2> QED  BY <2>1 DEF BelowMid, BelowOf
<1>8. Sided(InitTreeNode(MidOf(S), AxisOf(S)), BelowMid(S), AboveMid(S))
  <2> DEFINE n == InitTreeNode(MidOf(S), AxisOf(S))
  <2>1. n.point = MidOf(S) /\ n.division_axis = AxisOf(S)  BY DEF InitTreeNode
  <2> QED  BY <2>1 DEF Sided, GoesLeft, BelowMid, AboveMid, BelowOf
<1> DEFINE A == BelowMid(S)
           B == AboveMid(S)
           m == MidOf(S)
<1>3. /\ S = A \union B \union {m} /\ A \intersect B = {} /\ {m} \intersect (A \union B) = {}
      /\ A \subseteq S /\ B \subseteq S
  BY <1>1, <1>2 DEF AboveMid
<1> HIDE DEF A, B, m
<1>4. IsFiniteSet(S) /\ IsFiniteSet(A) /\ IsFiniteSet(B)  BY <1>3, TreeAssumption, FS_Subset
<1>5. IsFiniteSet(A \union B) /\ Cardinality(A \union B) = Cardinality(A) + Cardinality(B)
  BY <1>3, <1>4, DisjointUnion
<1>6. Cardinality(S) = Cardinality(A \union B) + 1
  <2>1. m \notin A \union B /\ S = (A \union B) \union {m}  BY <1>3
  <2> QED  BY <1>5, <2>1, FS_AddElement
<1>7. Cardinality(A) \in Nat /\ Cardinality(B) \in Nat  BY <1>4, FS_CardinalityType
<1> QED  BY <1>1, <1>3, <1>5, <1>6, <1>7, <1>8 DEF A, B, m

\* The points are finitely many.
LEMMA SizeNat == \A S \in SUBSET Points : IsFiniteSet(S) /\ Cardinality(S) \in Nat /\ Cardinality(S) <= Cardinality(Points)
                                          /\ Cardinality(S) <= MaxDepth
<1> TAKE S \in SUBSET Points
<1>1. /\ IsFiniteSet(S) /\ Cardinality(S) \in Nat /\ Cardinality(Points) \in Nat
      /\ Cardinality(S) <= Cardinality(Points)
  BY TreeAssumption, FS_Subset, FS_CardinalityType
<1> QED  BY <1>1, TreeAssumption DEF MaxDepth

\* BuildTree by its recursive equation, over the number of points.
LEMMA BuildOf ==
  \A S \in SUBSET Points :
    BuildTree[S] = IF S = {} THEN Nil ELSE Built(S, BuildTree[BelowMid(S)], BuildTree[AboveMid(S)])
<1> DEFINE Of(S, f) == IF S = {} THEN Nil ELSE Built(S, f[BelowMid(S)], f[AboveMid(S)])
           Sized(d) == {S \in SUBSET Points : Cardinality(S) <= d}
           Upto(d, f) == f = [S \in Sized(d) |-> Of(S, f)]
           D == {d \in 0 .. MaxDepth : \E f : Upto(d, f)}
           Whole(f) == f = [S \in SUBSET Points |-> Of(S, f)]
<1>1. BuildTree = CHOOSE f : Whole(f)
  BY DEF BuildTree, Built, BelowMid, AboveMid, MidOf, BelowOf, AxisOf, SideOf
<1>2. \A S, f, g : S = {} \/ (f[BelowMid(S)] = g[BelowMid(S)] /\ f[AboveMid(S)] = g[AboveMid(S)])
                    => Of(S, f) = Of(S, g)
  OBVIOUS
<1> HIDE DEF Of
<1>3. MaxDepth \in Nat /\ Sized(MaxDepth) = SUBSET Points  BY DepthNat, SizeNat
<1>4. 0 \in D
  <2> DEFINE g == [S \in Sized(0) |-> Of(S, <<>>)]
  <2>1. 0 \in 0 .. MaxDepth  BY <1>3
  <2>2. \A S \in Sized(0) : Of(S, <<>>) = Of(S, g)
    <3>1. \A S \in Sized(0) : S = {}  BY SizeNat, FS_EmptySet
    <3> HIDE DEF g
    <3> QED  BY <1>2, <3>1
  <2>3. Upto(0, g)  BY <2>2
  <2> HIDE DEF Upto, g
  <2> QED  BY <2>1, <2>3
<1>5. ASSUME NEW d \in Nat, d + 1 \in 0 .. MaxDepth, NEW f, Upto(d, f) PROVE \E g : Upto(d + 1, g)
  <2> DEFINE g == [S \in Sized(d + 1) |-> Of(S, f)]
  <2>1. \A S \in Sized(d) : g[S] = f[S]
    <3>1. Sized(d) \subseteq Sized(d + 1)  BY <1>5, SizeNat
    <3> QED  BY <1>5, <3>1
  <2>2. ASSUME NEW S \in Sized(d + 1) PROVE Of(S, f) = Of(S, g)
    <3>1. CASE S = {}  BY <1>2, <3>1
    <3>2. CASE S # {}
      <4>1. BelowMid(S) \in Sized(d) /\ AboveMid(S) \in Sized(d)  BY <1>5, <3>2, HalvesAre
      <4> HIDE DEF g, Sized
      <4> QED  BY <1>2, <2>1, <4>1
    <3> QED  BY <3>1, <3>2
  <2> QED  BY <2>2
<1>6. MaxDepth \in D
  <2>1. \A d \in Nat : d \in D /\ d + 1 \in 0 .. MaxDepth => d + 1 \in D
    <3> HIDE DEF Upto
    <3> QED  BY <1>5
  <2>2. D \subseteq 0 .. MaxDepth  OBVIOUS
  <2> HIDE DEF D
  <2>3. D = 0 .. MaxDepth  BY <1>4, <2>1, <2>2, DepthInduction
  <2> QED  BY <1>3, <2>3
<1>7. Whole(BuildTree)
  <2>1. \E f : Whole(f)
    <3>1. PICK f : Upto(MaxDepth, f)  BY <1>6
    <3>2. Whole(f)  BY <1>3, <3>1
    <3> QED  BY <3>2
  <2> HIDE DEF Whole
  <2> QED  BY <1>1, <2>1
<1>8. \A S \in SUBSET Points : BuildTree[S] = Of(S, BuildTree)  BY <1>7
<1> QED  BY <1>8 DEF Of

\* BuildTree builds a tree of the points.
LEMMA BuildHolds ==
  ASSUME NEW tight
  PROVE  \A S \in SUBSET Points : Holds(BuildTree[S], S, tight) /\ Count[BuildTree[S]] = Cardinality(S)
<1> DEFINE Claim(S) == Holds(BuildTree[S], S, tight) /\ Count[BuildTree[S]] = Cardinality(S)
           D == {d \in 0 .. MaxDepth : \A S \in SUBSET Points : Cardinality(S) <= d => Claim(S)}
<1>1. Claim({})
  <2>1. {} \in SUBSET Points  OBVIOUS
  <2>2. BuildTree[{}] = Nil  BY <2>1, BuildOf
  <2> QED  BY <2>2, HoldsNothing, NoTree, FS_EmptySet
<1> HIDE DEF Claim
<1>2. 0 \in D
  <2>1. \A S \in SUBSET Points : Cardinality(S) <= 0 => S = {}  BY SizeNat, FS_EmptySet
  <2> QED  BY <1>1, <2>1, DepthNat
<1>3. ASSUME NEW d \in Nat, d \in D, d + 1 \in 0 .. MaxDepth, NEW S \in SUBSET Points,
             Cardinality(S) <= d + 1, S # {}
      PROVE  Claim(S)
  <2> DEFINE A == BelowMid(S)
             B == AboveMid(S)
             mid == MidOf(S)
             axis == AxisOf(S)
             l == BuildTree[A]
             r == BuildTree[B]
             n == InitTreeNode(mid, axis)
             u == Replaced(n, l, r)
  <2>1. /\ mid \in S /\ axis \in Axes /\ S = A \union B \union {mid} /\ A \intersect B = {}
        /\ {mid} \intersect (A \union B) = {} /\ Sided(n, A, B) /\ A \in SUBSET Points /\ B \in SUBSET Points
        /\ Cardinality(S) \in Nat /\ Cardinality(A) \in Nat /\ Cardinality(B) \in Nat
        /\ Cardinality(S) = 1 + Cardinality(A) + Cardinality(B)
    BY <1>3, HalvesAre
  <2>2. BuildTree[S] = Update(u)  BY <1>3, BuildOf DEF Built, Replaced
  <2> HIDE DEF A, B, mid, axis
  <2>3. Claim(A) /\ Claim(B)
    <3>1. Cardinality(A) <= d /\ Cardinality(B) <= d  BY <1>3, <2>1
    <3> QED  BY <1>3, <2>1, <3>1
  <2>4. /\ Holds(l, A, tight) /\ Holds(r, B, tight)
        /\ Count[l] = Cardinality(A) /\ Count[r] = Cardinality(B)
    BY <2>3 DEF Claim
  <2>5. IsNode(n) /\ n.point = mid /\ Own(n) = {mid} /\ n.push_left = FALSE /\ n.push_right = FALSE
        /\ mid \in Points
    <3>1. mid \in Coordinates /\ mid \in Points  BY <2>1, TreeAssumption
    <3>2. n = [f \in Fields |-> n[f]]  BY FieldNames DEF InitTreeNode
    <3>3. /\ n.point = mid /\ n.min = mid /\ n.max = mid /\ n.division_axis = axis
          /\ n.TreeSize = 0 /\ n.invalid_point_num = 0 /\ n.down_del_num = 0
          /\ n.point_deleted = FALSE /\ n.tree_deleted = FALSE
          /\ n.point_downsample_deleted = FALSE /\ n.tree_downsample_deleted = FALSE
          /\ n.push_left = FALSE /\ n.push_right = FALSE
      BY DEF InitTreeNode
    <3> HIDE DEF n
    <3>4. /\ n.point_deleted \in BOOLEAN /\ n.tree_deleted \in BOOLEAN
          /\ n.point_downsample_deleted \in BOOLEAN /\ n.tree_downsample_deleted \in BOOLEAN
          /\ n.push_left \in BOOLEAN /\ n.push_right \in BOOLEAN
      BY <3>3, Zenon
    <3>5. n.TreeSize \in Nat /\ n.invalid_point_num \in Nat /\ n.down_del_num \in Nat  BY <3>3
    <3>6. n.point \in Coordinates /\ n.min \in Coordinates /\ n.max \in Coordinates
          /\ n.division_axis \in Axes
      BY <2>1, <3>1, <3>3
    <3>7. IsNode(n)  BY <3>2, <3>4, <3>5, <3>6, Zenon DEF IsNode
    <3>8. Own(n) = {mid}  BY <3>3 DEF Own
    <3> QED  BY <3>1, <3>3, <3>7, <3>8, Zenon
  <2> HIDE DEF l, r, n
  <2>6. /\ IsNode(u) /\ u.left = l /\ u.right = r /\ u.point = mid /\ Own(u) = {mid}
        /\ u.push_left = FALSE /\ u.push_right = FALSE
        /\ u.point = n.point /\ u.division_axis = n.division_axis
    BY <2>5, SonsReplaced
  <2> HIDE DEF u
  <2>7. 1 + Count[u.left] + Count[u.right] <= MaxDepth /\ 1 + Count[u.left] + Count[u.right] = Cardinality(S)
    BY <2>1, <2>4, <2>6, SizeNat
  <2>8. Holds(u.left, A, tight) /\ Holds(u.right, B, tight)  BY <2>4, <2>6
  <2>9. Own(u) \intersect (A \union B) = {} /\ S = A \union B \union Own(u) /\ Sided(u, A, B)
    BY <2>1, <2>6, SidedSame
  <2>10. Holds(Update(u), S, tight)  BY <2>1, <2>5, <2>6, <2>7, <2>8, <2>9, UpdatedHolds
  <2>11. Count[Update(u)] = Cardinality(S)
    <3>1. u.point \in Points /\ Own(u) \intersect (A \union B) = {} /\ A \intersect B = {}
          /\ 1 + Count[u.left] + Count[u.right] <= MaxDepth
      BY <2>1, <2>5, <2>6, <2>7, <2>9
    <3>2. Count[Update(u)] = 1 + Count[u.left] + Count[u.right]  BY <2>6, <2>8, <3>1, Updated
    <3> QED  BY <2>7, <3>2
  <2> QED  BY <2>2, <2>10, <2>11 DEF Claim
<1>4. MaxDepth \in D
  <2>1. \A d \in Nat : d \in D /\ d + 1 \in 0 .. MaxDepth => d + 1 \in D  BY <1>1, <1>3
  <2>2. D \subseteq 0 .. MaxDepth  OBVIOUS
  <2> HIDE DEF D
  <2>3. D = 0 .. MaxDepth  BY <1>2, <2>1, <2>2, DepthInduction
  <2> QED  BY <2>3, DepthNat
<1>5. \A S \in SUBSET Points : Claim(S)  BY <1>4, SizeNat
<1> QED  BY <1>5 DEF Claim

-----------------------------------------------------------------------------
(* Add_by_point.                                                            *)

\* Whatever those who come down to the sons find is all right.
LEMMA Composed ==
  ASSUME NEW v \in Trees, v # Nil, NEW m, m = PushDown(v), NEW L, NEW R, NEW tight,
         Holds(m.left, L, tight), Holds(m.right, R, tight),
         L \intersect R = {}, Own(m) \intersect (L \union R) = {}, Sided(m, L, R),
         NEW S, S = L \union R \union Own(m), Promises(v, S), tight => Tight(v, S),
         v.TreeSize = Count[v]
  PROVE  Holds(v, S, tight)
<1>1. Live[m.left] = L /\ Live[m.right] = R /\ Good(m.left, tight) /\ Good(m.right, tight)  BY DEF Holds
<1>2. Live[v] = S  BY <1>1, LiveOf
<1>3. NodeGood(v, tight)  BY <1>1, <1>2 DEF NodeGood
<1>4. Good(v, tight)  BY <1>1, <1>3, GoodOf
<1> QED  BY <1>2, <1>4 DEF Holds

\* A son whom a pending flag of its father does no harm.
Fresh(x, S, tight) ==
  /\ x # Nil => x.tree_deleted = FALSE /\ x.tree_downsample_deleted = FALSE
  /\ x # Nil => \A father : IsNode(father) /\ ~father.tree_deleted /\ ~father.tree_downsample_deleted
                            => Holds(Inherit(x, father), S, tight)

\* Add_by_point, 1030: a new son under a flag that was left set does no harm.
LEMMA UpdatedFresh ==
  ASSUME NEW u, IsNode(u), u.point \in Points, NEW L, NEW R, NEW tight,
         Holds(u.left, L, tight), Holds(u.right, R, tight),
         1 + Count[u.left] + Count[u.right] <= MaxDepth,
         u.push_left => Fresh(u.left, L, tight), u.push_right => Fresh(u.right, R, tight),
         L \intersect R = {}, Own(u) \intersect (L \union R) = {}, Sided(u, L, R),
         NEW S, S = L \union R \union Own(u)
  PROVE  /\ Holds(Update(u), S, tight) /\ Update(u) # Nil
         /\ Count[Update(u)] = 1 + Count[u.left] + Count[u.right]
<1> DEFINE v == Update(u)
           m == PushDown(v)
<1>1. /\ IsNode(v) /\ v \in Trees /\ v # Nil /\ v.point = u.point /\ Own(v) = Own(u)
      /\ v.division_axis = u.division_axis
      /\ v.left = u.left /\ v.right = u.right /\ v.push_left = u.push_left /\ v.push_right = u.push_right
      /\ Promises(v, S) /\ (tight => Tight(v, S))
      /\ v.TreeSize = 1 + Count[u.left] + Count[u.right] /\ Count[v] = v.TreeSize
  BY Updated
<1>2. /\ v.tree_deleted => (u.left = Nil \/ u.left.tree_deleted) /\ (u.right = Nil \/ u.right.tree_deleted)
      /\ v.tree_downsample_deleted => /\ u.left = Nil \/ u.left.tree_downsample_deleted
                                      /\ u.right = Nil \/ u.right.tree_downsample_deleted
  BY UpdateFields
<1> HIDE DEF v
<1>3. /\ \A f \in Fields \ {"left", "right", "push_left", "push_right"} : m[f] = v[f]
      /\ m.left = IF v.left # Nil /\ v.push_left THEN Inherit(v.left, v) ELSE v.left
      /\ m.right = IF v.right # Nil /\ v.push_right THEN Inherit(v.right, v) ELSE v.right
  BY <1>1, PushDownFields
<1>4. Own(m) = Own(u) /\ Sided(m, L, R)
  <2>1. m.point = v.point /\ m.point_deleted = v.point_deleted /\ m.division_axis = v.division_axis
    BY <1>3, FieldNames
  <2>2. Sided(m, L, R)  BY <1>1, <2>1, SidedSame
  <2> QED  BY <1>1, <2>1, <2>2 DEF Own
<1> HIDE DEF m
<1>5. Holds(m.left, L, tight)
  <2>1. CASE v.left # Nil /\ v.push_left  BY <1>1, <1>2, <1>3, <2>1 DEF Fresh
  <2>2. CASE ~(v.left # Nil /\ v.push_left)  BY <1>1, <1>3, <2>2
  <2> QED  BY <2>1, <2>2
<1>6. Holds(m.right, R, tight)
  <2>1. CASE v.right # Nil /\ v.push_right  BY <1>1, <1>2, <1>3, <2>1 DEF Fresh
  <2>2. CASE ~(v.right # Nil /\ v.push_right)  BY <1>1, <1>3, <2>2
  <2> QED  BY <2>1, <2>2
<1>7. Holds(v, S, tight)  BY <1>1, <1>4, <1>5, <1>6, Composed DEF m
<1> QED  BY <1>1, <1>7 DEF v

\* The end of an operation keeps the points, and makes no more nodes.
LEMMA SettleHolds ==
  ASSUME NEW u, NEW S, NEW tight, Holds(Update(u), S, tight), Update(u) # Nil,
         Count[Update(u)] <= MaxDepth
  PROVE  Holds(Settle(u), S, tight) /\ Count[Settle(u)] <= Count[Update(u)] /\ (S # {} => Settle(u) # Nil)
<1> DEFINE v == Update(u)
<1>1. v \in Trees /\ Good(v, tight) /\ Live[v] = S /\ Count[v] \in Nat  BY CountNat DEF Holds
<1>2. CASE ~CriterionCheck(v)  BY <1>1, <1>2 DEF Settle
<1>3. CASE CriterionCheck(v)
  <2>1. Flatten[v].points = S  BY <1>1, FlattenHolds
  <2>2. Settle(u) = BuildTree[S]  BY <1>3, <2>1 DEF Settle, Rebuild
  <2>3. S \in SUBSET Points  BY <1>1, LivePoints
  <2>4. Holds(BuildTree[S], S, tight) /\ Count[BuildTree[S]] = Cardinality(S)  BY <2>3, BuildHolds
  <2>5. Cardinality(S) <= Count[v]
    <3>1. Son(v, S) /\ v.TreeSize = Count[v]  BY HoldsSon
    <3>2. v.TreeSize \in Nat /\ v.invalid_point_num \in Nat /\ v.TreeSize - v.invalid_point_num = Cardinality(S)
      BY <3>1 DEF Son, IsNode, Promises
    <3> QED  BY <3>1, <3>2
  <2>6. S # {} => BuildTree[S] # Nil  BY <2>4, NoTree DEF Holds
  <2> QED  BY <2>2, <2>4, <2>5, <2>6
<1> QED  BY <1>2, <1>3

\* An operation that goes down to one son leaves the other alone.
LEMMA OneReplaced ==
  ASSUME NEW m, IsNode(m), NEW l, NEW r
  PROVE  [m EXCEPT !.left = l] = Replaced(m, l, m.right) /\ [m EXCEPT !.right = r] = Replaced(m, m.left, r)
<1>1. DOMAIN m = Fields  BY DEF IsNode
<1> QED  BY <1>1, FieldNames DEF Replaced

\* The son that the point is added to.
LEMMA NewSon ==
  ASSUME NEW p \in Points, NEW axis \in Axes, NEW tight, NEW son, NEW L, Holds(son, L, tight), p \notin L,
         1 <= MaxDepth, NEW added,
         son # Nil => Holds(added, L \union {p}, tight) /\ added # Nil /\ Count[added] <= Count[son] + 1
  PROVE  LET x == IF son = Nil THEN Update(InitTreeNode(p, axis)) ELSE added
         IN  /\ Holds(x, L \union {p}, tight) /\ x # Nil /\ Count[x] <= Count[son] + 1
             /\ son = Nil => Fresh(x, L \union {p}, tight)
<1>1. CASE son # Nil  BY <1>1
<1>2. CASE son = Nil
  <2> DEFINE x == Update(InitTreeNode(p, axis))
  <2>1. L = {} /\ Count[son] = 0  BY <1>2, NoTree DEF Holds
  <2>2. L \union {p} = {p}  BY <2>1
  <2>3. /\ Holds(x, {p}, tight) /\ x # Nil /\ Count[x] = 1 /\ x.tree_deleted = FALSE
        /\ x.tree_downsample_deleted = FALSE
        /\ \A father : IsNode(father) /\ ~father.tree_deleted /\ ~father.tree_downsample_deleted
                         => Holds(Inherit(x, father), {p}, tight)
    BY Leaf
  <2> HIDE DEF x
  <2>4. Fresh(x, {p}, tight)  BY <2>3 DEF Fresh
  <2> QED  BY <1>2, <2>1, <2>2, <2>3, <2>4 DEF x
<1> QED  BY <1>1, <1>2

\* Add_by_point adds the point.
LEMMA AddHolds ==
  ASSUME NEW p \in Points, NEW tight
  PROVE  \A n \in Trees :
           n # Nil /\ Good(n, tight) /\ Count[n] + 1 <= MaxDepth /\ p \notin Live[n] =>
             /\ Holds(AddByPoint(n, p), Live[n] \union {p}, tight) /\ AddByPoint(n, p) # Nil
             /\ Count[AddByPoint(n, p)] <= Count[n] + 1
<1> DEFINE Claim(n) == /\ Holds(AddByPoint(n, p), Live[n] \union {p}, tight) /\ AddByPoint(n, p) # Nil
                       /\ Count[AddByPoint(n, p)] <= Count[n] + 1
           S == {n \in Trees : n # Nil /\ Good(n, tight) /\ Count[n] + 1 <= MaxDepth /\ p \notin Live[n] => Claim(n)}
<1>1. Nil \in S  BY NoTree
<1>2. ASSUME NEW n \in Trees \ {Nil}, PushDown(n).left \in S, PushDown(n).right \in S PROVE n \in S
  <2> SUFFICES ASSUME Good(n, tight), Count[n] + 1 <= MaxDepth, p \notin Live[n] PROVE Claim(n)  OBVIOUS
  <2> DEFINE m == PushDown(n)
             L == Live[m.left]
             R == Live[m.right]
             A == AddByPoint(m.left, p)
             B == AddByPoint(m.right, p)
             leaf == Update(InitTreeNode(p, AxisAfter(m.division_axis)))
             l == IF m.left = Nil THEN leaf ELSE A
             r == IF m.right = Nil THEN leaf ELSE B
  <2>1. Holds(n, Live[n], tight)  BY DEF Holds
  <2>2. /\ IsNode(m) /\ m.point \in Points
        /\ Holds(m.left, L, tight) /\ Holds(m.right, R, tight)
        /\ L \intersect R = {} /\ Own(m) \intersect (L \union R) = {} /\ Sided(m, L, R)
        /\ Live[n] = L \union R \union Own(m)
        /\ Count[n] = 1 + Count[m.left] + Count[m.right]
        /\ Count[m.left] \in Nat /\ Count[m.right] \in Nat
        /\ (m.push_left => m.left = Nil) /\ (m.push_right => m.right = Nil)
    BY <2>1, Descended
  <2>3. AddByPoint(n, p) = Settle(IF GoesLeft(m, p) THEN Replaced(m, l, m.right) ELSE Replaced(m, m.left, r))
    <3>1. AddByPoint(n, p) = AddedTo(n, p, A, B)  BY AddOf
    <3>2. AddedTo(n, p, A, B) = Settle(IF GoesLeft(m, p) THEN [m EXCEPT !.left = l] ELSE [m EXCEPT !.right = r])
      BY DEF AddedTo
    <3>3. [m EXCEPT !.left = l] = Replaced(m, l, m.right) /\ [m EXCEPT !.right = r] = Replaced(m, m.left, r)
      BY <2>2, OneReplaced
    <3> QED  BY <3>1, <3>2, <3>3
  <2>4. AxisAfter(m.division_axis) \in Axes
    <3>1. m.division_axis \in 1 .. 3  BY <2>2 DEF IsNode, Axes
    <3> QED  BY <3>1 DEF AxisAfter, Axes
  <2>5. p \notin L /\ p \notin R /\ p \notin Own(m) /\ Count[m.left] + 1 <= MaxDepth
        /\ Count[m.right] + 1 <= MaxDepth /\ 1 <= MaxDepth
    BY <2>2, DepthNat
  <2>6. m.left # Nil => Claim(m.left)  BY <1>2, <2>2, <2>5 DEF Holds
  <2>7. m.right # Nil => Claim(m.right)  BY <1>2, <2>2, <2>5 DEF Holds
  <2>8. /\ Holds(l, L \union {p}, tight) /\ l # Nil /\ Count[l] <= Count[m.left] + 1
        /\ m.left = Nil => Fresh(l, L \union {p}, tight)
    BY <2>2, <2>4, <2>5, <2>6, NewSon
  <2>9. /\ Holds(r, R \union {p}, tight) /\ r # Nil /\ Count[r] <= Count[m.right] + 1
        /\ m.right = Nil => Fresh(r, R \union {p}, tight)
    BY <2>2, <2>4, <2>5, <2>7, NewSon
  <2>10. Count[l] \in Nat /\ Count[r] \in Nat  BY <2>8, <2>9, CountNat DEF Holds
  <2> HIDE DEF l, r, m, L, R
  <2>11. ASSUME NEW u, IsNode(u), u.point \in Points, NEW X, NEW Y,
                Holds(u.left, X, tight), Holds(u.right, Y, tight),
                1 + Count[u.left] + Count[u.right] <= Count[n] + 1,
                u.push_left => Fresh(u.left, X, tight), u.push_right => Fresh(u.right, Y, tight),
                X \intersect Y = {}, Own(u) \intersect (X \union Y) = {}, Sided(u, X, Y),
                Live[n] \union {p} = X \union Y \union Own(u), AddByPoint(n, p) = Settle(u)
         PROVE  Claim(n)
    <3>1. 1 + Count[u.left] + Count[u.right] <= MaxDepth /\ Count[u.left] \in Nat /\ Count[u.right] \in Nat
          /\ Count[n] \in Nat
      BY <2>11, DepthNat, CountNat DEF Holds
    <3>2. /\ Holds(Update(u), Live[n] \union {p}, tight) /\ Update(u) # Nil
          /\ Count[Update(u)] = 1 + Count[u.left] + Count[u.right]
      BY <2>11, <3>1, UpdatedFresh
    <3>3. Count[Update(u)] <= MaxDepth  BY <3>1, <3>2
    <3>4. /\ Holds(Settle(u), Live[n] \union {p}, tight) /\ Count[Settle(u)] <= Count[Update(u)]
          /\ Live[n] \union {p} # {} => Settle(u) # Nil
      BY <3>2, <3>3, SettleHolds
    <3>5. Count[Settle(u)] \in Nat  BY <3>4, CountNat DEF Holds
    <3> QED  BY <2>11, <3>1, <3>2, <3>4, <3>5
  <2> HIDE DEF Claim
  <2>12. Fresh(Nil, L, tight) /\ Fresh(Nil, R, tight)  BY DEF Fresh
  <2>13. CASE GoesLeft(m, p)
    <3> DEFINE u == Replaced(m, l, m.right)
    <3>1. /\ IsNode(u) /\ u.left = l /\ u.right = m.right /\ u.point = m.point /\ Own(u) = Own(m)
          /\ u.division_axis = m.division_axis
          /\ u.push_left = m.push_left /\ u.push_right = m.push_right
      BY <2>2, SonsReplaced
    <3>2. AddByPoint(n, p) = Settle(u)  BY <2>3, <2>13
    <3> HIDE DEF u
    <3> DEFINE X == L \union {p}
    <3>3. /\ Holds(u.left, X, tight) /\ Holds(u.right, R, tight)
          /\ 1 + Count[u.left] + Count[u.right] <= Count[n] + 1
      BY <2>2, <2>8, <2>10, <3>1
    <3>4. (u.push_left => Fresh(u.left, X, tight)) /\ (u.push_right => Fresh(u.right, R, tight))
      BY <2>2, <2>8, <2>12, <3>1
    <3>5. /\ X \intersect R = {} /\ Own(u) \intersect (X \union R) = {}
          /\ Live[n] \union {p} = X \union R \union Own(u)
      BY <2>2, <2>5, <3>1
    <3>6. Sided(u, X, R)  BY <2>2, <2>13, <3>1 DEF Sided, GoesLeft
    <3> HIDE DEF X
    <3> QED  BY <2>2, <2>11, <3>1, <3>2, <3>3, <3>4, <3>5, <3>6
  <2>14. CASE ~GoesLeft(m, p)
    <3> DEFINE u == Replaced(m, m.left, r)
    <3>1. /\ IsNode(u) /\ u.left = m.left /\ u.right = r /\ u.point = m.point /\ Own(u) = Own(m)
          /\ u.division_axis = m.division_axis
          /\ u.push_left = m.push_left /\ u.push_right = m.push_right
      BY <2>2, SonsReplaced
    <3>2. AddByPoint(n, p) = Settle(u)  BY <2>3, <2>14
    <3> HIDE DEF u
    <3> DEFINE X == R \union {p}
    <3>3. /\ Holds(u.left, L, tight) /\ Holds(u.right, X, tight)
          /\ 1 + Count[u.left] + Count[u.right] <= Count[n] + 1
      BY <2>2, <2>9, <2>10, <3>1
    <3>4. (u.push_left => Fresh(u.left, L, tight)) /\ (u.push_right => Fresh(u.right, X, tight))
      BY <2>2, <2>9, <2>12, <3>1
    <3>5. /\ L \intersect X = {} /\ Own(u) \intersect (L \union X) = {}
          /\ Live[n] \union {p} = L \union X \union Own(u)
      BY <2>2, <2>5, <3>1
    <3>6. Sided(u, L, X)  BY <2>2, <2>14, <3>1 DEF Sided, GoesLeft
    <3> HIDE DEF X
    <3> QED  BY <2>2, <2>11, <3>1, <3>2, <3>3, <3>4, <3>5, <3>6
  <2> QED  BY <2>13, <2>14
<1> HIDE DEF S
<1>3. Trees \subseteq S  BY <1>1, <1>2, TreeInduction
<1> QED  BY <1>3 DEF S

-----------------------------------------------------------------------------
(* Delete_by_point.                                                         *)

\* Push_Down of a tree that is all right.
LEMMA PushedHolds ==
  ASSUME NEW n, n # Nil, NEW S, NEW tight, Holds(n, S, tight), Count[n] <= MaxDepth
  PROVE  Holds(PushDown(n), S, tight) /\ PushDown(n) # Nil /\ Count[PushDown(n)] = Count[n]
<1> DEFINE m == PushDown(n)
           L == Live[m.left]
           R == Live[m.right]
<1>1. /\ m # Nil /\ IsNode(m) /\ m.point \in Points
      /\ Holds(m.left, L, tight) /\ Holds(m.right, R, tight)
      /\ L \intersect R = {} /\ Own(m) \intersect (L \union R) = {} /\ Sided(m, L, R)
      /\ S = L \union R \union Own(m) /\ Promises(m, S) /\ (tight => Tight(m, S))
      /\ m.TreeSize = Count[n] /\ Count[n] = 1 + Count[m.left] + Count[m.right] /\ Count[m] = Count[n]
      /\ (m.push_left => m.left = Nil) /\ (m.push_right => m.right = Nil)
  BY Descended
<1> HIDE DEF m, L, R
<1>2. Holds(m, S, tight)  BY <1>1, Ascended
<1> QED  BY <1>1, <1>2 DEF m

\* Only a son of which nothing is left has no nodes.
LEMMA NoNodes ==
  ASSUME NEW x \in Trees, NEW y, y = Nil, Count[x] <= Count[y] PROVE x = Nil
BY NoTree, CountNat

\* Delete_by_point deletes the point, if it is there, and no other.
LEMMA DeletePointHolds ==
  ASSUME NEW p \in Points, NEW tight, ~tight
  PROVE  \A n \in Trees :
           Good(n, tight) /\ Count[n] <= MaxDepth =>
             Holds(DeleteByPoint(n, p), Live[n] \ {p}, tight) /\ Count[DeleteByPoint(n, p)] <= Count[n]
<1> DEFINE d(n) == DeleteByPoint(n, p)
           Claim(n) == Holds(d(n), Live[n] \ {p}, tight) /\ Count[d(n)] <= Count[n]
           T == {n \in Trees : Good(n, tight) /\ Count[n] <= MaxDepth => Claim(n)}
<1>1. Nil \in T
  <2>1. d(Nil) = Nil  BY NoTree, DeletePointOf
  <2>2. Claim(Nil)
    <3>1. Count[Nil] <= Count[Nil] /\ {} = Live[Nil] \ {p}  BY NoTree
    <3>2. Holds(Nil, {}, tight)  BY HoldsNothing
    <3> HIDE DEF d
    <3> QED  BY <2>1, <3>1, <3>2
  <2> QED  BY <2>2, NoTree
<1>2. ASSUME NEW n \in Trees \ {Nil}, PushDown(n).left \in T, PushDown(n).right \in T PROVE n \in T
  <2> SUFFICES ASSUME Good(n, tight), Count[n] <= MaxDepth PROVE Claim(n)  OBVIOUS
  <2> DEFINE m == PushDown(n)
             L == Live[m.left]
             R == Live[m.right]
             S == Live[n]
             l == d(m.left)
             r == d(m.right)
  <2>1. Holds(n, S, tight)  BY DEF Holds
  <2>2. /\ m \in Trees /\ IsNode(m) /\ m.point \in Points
        /\ Holds(m.left, L, tight) /\ Holds(m.right, R, tight)
        /\ L \intersect R = {} /\ Own(m) \intersect (L \union R) = {} /\ Sided(m, L, R)
        /\ S = L \union R \union Own(m) /\ Promises(m, S)
        /\ m.TreeSize = Count[n] /\ Count[n] = 1 + Count[m.left] + Count[m.right]
        /\ Count[m.left] \in Nat /\ Count[m.right] \in Nat
        /\ (m.push_left => m.left = Nil) /\ (m.push_right => m.right = Nil)
    BY <2>1, Descended
  <2>3. d(n) = IF n.tree_deleted THEN n
               ELSE IF IsHit(m, p) THEN Hit(m)
               ELSE Settle(IF GoesLeft(m, p) THEN Replaced(m, l, m.right) ELSE Replaced(m, m.left, r))
    <3>1. d(n) = IF n.tree_deleted THEN n ELSE DeletedFrom(n, p, l, r)  BY DeletePointOf
    <3>2. [m EXCEPT !.left = l] = Replaced(m, l, m.right) /\ [m EXCEPT !.right = r] = Replaced(m, m.left, r)
      BY <2>2, OneReplaced
    <3> QED  BY <3>1, <3>2 DEF DeletedFrom
  <2>4. Count[m.left] <= MaxDepth /\ Count[m.right] <= MaxDepth  BY <2>2, DepthNat
  <2>5. Claim(m.left)  BY <1>2, <2>2, <2>4 DEF Holds
  <2>6. Claim(m.right)  BY <1>2, <2>2, <2>4 DEF Holds
  <2>7. CASE n.tree_deleted
    <3>1. Son(n, S)  BY <2>1, HoldsSon
    <3>2. S = {} /\ S \ {p} = S  BY <2>7, <3>1 DEF Son, Promises
    <3>3. d(n) = n  BY <2>3, <2>7
    <3> HIDE DEF d
    <3> QED  BY <2>1, <3>2, <3>3, CountNat
  <2>8. CASE ~n.tree_deleted /\ IsHit(m, p)
    <3> DEFINE h == Hit(m)
    <3>1. m.point = p /\ ~m.point_deleted /\ Own(m) = {p}  BY <2>8 DEF IsHit, Own
    <3>2. m.point \in S  BY <2>2, <3>1
    <3>3. IsNode(h) /\ Promises(h, S \ {p})  BY <2>2, <3>1, <3>2, HitKept
    <3>4. /\ h.point = m.point /\ h.division_axis = m.division_axis /\ h.left = m.left /\ h.right = m.right /\ h.TreeSize = m.TreeSize
          /\ h.push_left = m.push_left /\ h.push_right = m.push_right /\ h.point_deleted = TRUE
      <4>1. DOMAIN m = Fields  BY <2>2 DEF IsNode
      <4> QED  BY <4>1, FieldNames DEF Hit
    <3> HIDE DEF h, m, L, R, S
    <3>5. Own(h) = {}  BY <3>4 DEF Own
    <3>6. S \ {p} = L \union R \union Own(h) /\ Own(h) \intersect (L \union R) = {}  BY <2>2, <3>1, <3>5
    <3>7. /\ Holds(h.left, L, tight) /\ Holds(h.right, R, tight)
          /\ 1 + Count[h.left] + Count[h.right] = Count[n] /\ 1 + Count[h.left] + Count[h.right] <= MaxDepth
          /\ h.TreeSize = 1 + Count[h.left] + Count[h.right]
      BY <2>2, <3>4
    <3>8. (h.push_left => h.left = Nil) /\ (h.push_right => h.right = Nil)  BY <2>2, <3>4
    <3>9. Holds(h, S \ {p}, tight) /\ Count[h] = 1 + Count[h.left] + Count[h.right]
      <4> DEFINE W == S \ {p}
      <4>3. Sided(h, L, R)  BY <2>2, <3>4, SidedSame
      <4>1. /\ W = L \union R \union Own(h) /\ Own(h) \intersect (L \union R) = {} /\ L \intersect R = {}
            /\ Promises(h, W) /\ (tight => Tight(h, W)) /\ h.point \in Points
        BY <2>2, <3>3, <3>4, <3>6
      <4> HIDE DEF W
      <4>2. Holds(h, W, tight) /\ Count[h] = 1 + Count[h.left] + Count[h.right]
        BY <3>3, <3>7, <3>8, <4>1, <4>3, Ascended
      <4> QED  BY <4>2 DEF W
    <3>10. Count[h] <= Count[n]  BY <2>2, <3>7, <3>9, CountNat
    <3> QED  BY <2>3, <2>8, <3>9, <3>10 DEF S, h, m
  <2>9. ASSUME ~n.tree_deleted, ~IsHit(m, p), NEW u, IsNode(u), u.point = m.point, Own(u) = Own(m),
               u.division_axis = m.division_axis,
               u.push_left = m.push_left, u.push_right = m.push_right,
               NEW X, Holds(u.left, X, tight), NEW Y, Holds(u.right, Y, tight),
               Count[u.left] <= Count[m.left], Count[u.right] <= Count[m.right],
               X = L \ {p}, Y = R \ {p},
               d(n) = Settle(u)
        PROVE  Claim(n)
    <3> DEFINE Z == X \union Y \union Own(u)
    <3> HIDE DEF m, L, R, S, d
    <3>1. Z = S \ {p} /\ X \intersect Y = {} /\ Own(u) \intersect (X \union Y) = {} /\ Sided(u, X, Y)
      <4>1. p \notin Own(m)  BY <2>9 DEF IsHit, Own
      <4>2. Sided(u, X, Y)  BY <2>2, <2>9, SidedSame
      <4> QED  BY <2>2, <2>9, <4>1, <4>2
    <3>2. /\ Count[u.left] \in Nat /\ Count[u.right] \in Nat
          /\ 1 + Count[u.left] + Count[u.right] <= Count[n] /\ 1 + Count[u.left] + Count[u.right] <= MaxDepth
      BY <2>2, <2>9, DepthNat, CountNat DEF Holds
    <3>3. (u.push_left => u.left = Nil) /\ (u.push_right => u.right = Nil)
      BY <2>2, <2>9, NoNodes DEF Holds
    <3>4. u.point \in Points  BY <2>2, <2>9
    <3> HIDE DEF Z
    <3>5. Z = X \union Y \union Own(u)  BY DEF Z
    <3>6. Holds(Update(u), Z, tight)  BY <2>9, <3>1, <3>2, <3>3, <3>4, <3>5, UpdatedHolds
    <3>7. Update(u) # Nil /\ Count[Update(u)] = 1 + Count[u.left] + Count[u.right]
      BY <2>9, <3>1, <3>2, <3>4, Updated
    <3>8. Holds(Settle(u), Z, tight) /\ Count[Settle(u)] <= Count[Update(u)]
      BY <3>2, <3>6, <3>7, SettleHolds
    <3>9. Count[Settle(u)] \in Nat /\ Count[n] \in Nat  BY <3>8, CountNat DEF Holds
    <3>10. Count[d(n)] <= Count[n]  BY <2>9, <3>2, <3>7, <3>8, <3>9
    <3> QED  BY <2>9, <3>1, <3>8, <3>10 DEF S
  <2> HIDE DEF Claim
  <2>10. CASE ~n.tree_deleted /\ ~IsHit(m, p) /\ GoesLeft(m, p)
    <3> DEFINE u == Replaced(m, l, m.right)
    <3>1. /\ IsNode(u) /\ u.left = l /\ u.right = m.right /\ u.point = m.point /\ Own(u) = Own(m)
          /\ u.division_axis = m.division_axis
          /\ u.push_left = m.push_left /\ u.push_right = m.push_right
      BY <2>2, SonsReplaced
    <3>2. d(n) = Settle(u)  BY <2>3, <2>10
    <3> HIDE DEF u
    <3>3. R \ {p} = R  BY <2>2, <2>10 DEF Sided
    <3> HIDE DEF L, R, m, d
    <3>4. /\ Holds(u.left, L \ {p}, tight) /\ Count[u.left] <= Count[m.left]
          /\ Holds(u.right, R \ {p}, tight) /\ Count[u.right] <= Count[m.right]
      <4>1. Holds(d(m.left), L \ {p}, tight) /\ Count[d(m.left)] <= Count[m.left]
        BY <2>5 DEF Claim, L
      <4>2. Holds(m.right, R \ {p}, tight)  BY <2>2, <3>3
      <4>3. Count[m.right] <= Count[m.right]  BY <2>2
      <4> QED  BY <3>1, <4>1, <4>2, <4>3
    <3> QED  BY <2>9, <2>10, <3>1, <3>2, <3>4
  <2>11. CASE ~n.tree_deleted /\ ~IsHit(m, p) /\ ~GoesLeft(m, p)
    <3> DEFINE u == Replaced(m, m.left, r)
    <3>1. /\ IsNode(u) /\ u.left = m.left /\ u.right = r /\ u.point = m.point /\ Own(u) = Own(m)
          /\ u.division_axis = m.division_axis
          /\ u.push_left = m.push_left /\ u.push_right = m.push_right
      BY <2>2, SonsReplaced
    <3>2. d(n) = Settle(u)  BY <2>3, <2>11
    <3> HIDE DEF u
    <3>3. L \ {p} = L  BY <2>2, <2>11 DEF Sided
    <3> HIDE DEF L, R, m, d
    <3>4. /\ Holds(u.right, R \ {p}, tight) /\ Count[u.right] <= Count[m.right]
          /\ Holds(u.left, L \ {p}, tight) /\ Count[u.left] <= Count[m.left]
      <4>1. Holds(d(m.right), R \ {p}, tight) /\ Count[d(m.right)] <= Count[m.right]
        BY <2>6 DEF Claim, R
      <4>2. Holds(m.left, L \ {p}, tight)  BY <2>2, <3>3
      <4>3. Count[m.left] <= Count[m.left]  BY <2>2
      <4> QED  BY <3>1, <4>1, <4>2, <4>3
    <3> QED  BY <2>9, <2>11, <3>1, <3>2, <3>4
  <2> QED  BY <2>7, <2>8, <2>10, <2>11
<1> HIDE DEF T
<1>3. Trees \subseteq T  BY <1>1, <1>2, TreeInduction
<1> QED  BY <1>3 DEF T

-----------------------------------------------------------------------------
(* Delete_by_range and Search_by_range.                                     *)

\* Delete_by_range, 800: a node whose point may have been hit.
Cut(m, l, r, hit, sampling) ==
  [m EXCEPT !.left = l, !.right = r, !.point_deleted = @ \/ hit,
            !.point_downsample_deleted = @ \/ (hit /\ sampling)]

\* Delete_by_range, 796: the point of the node is deleted if it is in the box.
LEMMA CutFields ==
  ASSUME NEW m, IsNode(m), NEW l, NEW r, NEW box, NEW sampling \in BOOLEAN
  PROVE  LET w == Cut(m, l, r, ~m.point_deleted /\ In(m.point, box), sampling)
         IN  /\ IsNode(w) /\ w.left = l /\ w.right = r /\ w.point = m.point
             /\ w.push_left = m.push_left /\ w.push_right = m.push_right
             /\ w.division_axis = m.division_axis
             /\ Own(w) = Outside(Own(m), box)
<1> DEFINE hit == ~m.point_deleted /\ In(m.point, box)
           w == Cut(m, l, r, hit, sampling)
<1>1. DOMAIN m = Fields  BY DEF IsNode
<1>2. hit \in BOOLEAN /\ m.point_deleted \in BOOLEAN /\ m.point_downsample_deleted \in BOOLEAN
  BY DEF IsNode, In
<1>3. /\ w = [f \in Fields |-> w[f]] /\ w.left = l /\ w.right = r
      /\ w.point_deleted = (m.point_deleted \/ hit)
      /\ w.point_downsample_deleted = (m.point_downsample_deleted \/ (hit /\ sampling))
      /\ \A f \in Fields \ {"left", "right", "point_deleted", "point_downsample_deleted"} : w[f] = m[f]
  <2> HIDE DEF hit
  <2> QED  BY <1>1, <1>2, FieldNames DEF Cut
<1> HIDE DEF w
<1>4. /\ w.point = m.point /\ w.division_axis = m.division_axis /\ w.min = m.min /\ w.max = m.max
      /\ w.TreeSize = m.TreeSize /\ w.invalid_point_num = m.invalid_point_num
      /\ w.down_del_num = m.down_del_num /\ w.tree_deleted = m.tree_deleted
      /\ w.tree_downsample_deleted = m.tree_downsample_deleted
      /\ w.push_left = m.push_left /\ w.push_right = m.push_right
  BY <1>3, FieldNames
<1>5. w.point_deleted \in BOOLEAN /\ w.point_downsample_deleted \in BOOLEAN
  <2> HIDE DEF hit
  <2> QED  BY <1>2, <1>3
<1>6. IsNode(w)
  <2> HIDE DEF hit
  <2> QED  BY <1>3, <1>4, <1>5 DEF IsNode
<1>7. Own(w) = Outside(Own(m), box)
  <2>1. CASE w.point_deleted  BY <1>3, <1>4, <2>1 DEF Own, Outside
  <2>2. CASE ~w.point_deleted  BY <1>3, <1>4, <2>2 DEF Own, Outside
  <2> QED  BY <2>1, <2>2
<1> QED  BY <1>3, <1>4, <1>6, <1>7 DEF w

\* What is in the box, by the points of the sons and the own one.
LEMMA RangeCounts ==
  ASSUME NEW m, IsNode(m), NEW L, NEW R, L \intersect R = {}, Own(m) \intersect (L \union R) = {},
         NEW S, S = L \union R \union Own(m), Promises(m, S),
         NEW box, box.min \in Coordinates, box.max \in Coordinates
  PROVE  /\ Disjoint(m, box) => Outside(S, box) = S
         /\ Covers(box, m) => /\ Outside(S, box) = {}
                              /\ m.TreeSize - m.invalid_point_num = Cardinality(S \ Outside(S, box))
         /\ Cardinality(S \ Outside(S, box)) =
              Cardinality(L \ Outside(L, box)) + Cardinality(R \ Outside(R, box))
              + IF ~m.point_deleted /\ In(m.point, box) THEN 1 ELSE 0
<1> DEFINE hit == ~m.point_deleted /\ In(m.point, box)
           A == L \ Outside(L, box)
           B == R \ Outside(R, box)
           C == Own(m) \ Outside(Own(m), box)
<1>1. \A p \in S : p \in Coordinates /\ Lies(p, m)  BY DEF Promises
<1>2. ASSUME Disjoint(m, box) PROVE Outside(S, box) = S
  BY <1>1, <1>2, BoxTests DEF Outside
<1>3. ASSUME Covers(box, m)
      PROVE  /\ Outside(S, box) = {}
             /\ m.TreeSize - m.invalid_point_num = Cardinality(S \ Outside(S, box))
  <2>1. Outside(S, box) = {} /\ S \ Outside(S, box) = S  BY <1>1, <1>3, BoxTests DEF Outside
  <2> QED  BY <2>1 DEF Promises
<1>4. IsFiniteSet(A) /\ IsFiniteSet(B) /\ IsFiniteSet(C)
  <2>1. IsFiniteSet(S)  BY DEF Promises
  <2> QED  BY <2>1, FS_Subset DEF Outside
<1>5. S \ Outside(S, box) = (A \union B) \union C /\ A \intersect B = {}
      /\ (A \union B) \intersect C = {}
  BY DEF Outside
<1>6. Cardinality(C) = IF hit THEN 1 ELSE 0
  <2>1. C = IF hit THEN {m.point} ELSE {}  BY DEF Own, Outside
  <2> QED  BY <2>1, FS_EmptySet, FS_Singleton
<1> HIDE DEF A, B, C
<1>7. IsFiniteSet(A \union B) /\ Cardinality(A \union B) = Cardinality(A) + Cardinality(B)
  BY <1>4, <1>5, DisjointUnion
<1>8. Cardinality((A \union B) \union C) = Cardinality(A \union B) + Cardinality(C)
  BY <1>4, <1>5, <1>7, DisjointUnion
<1> QED  BY <1>2, <1>3, <1>5, <1>6, <1>7, <1>8 DEF A, B

\* Delete_by_range deletes the points in the box, and counts them.
LEMMA DeleteRangeHolds ==
  ASSUME NEW box, box.min \in Coordinates, box.max \in Coordinates, NEW sampling \in BOOLEAN, NEW tight
  PROVE  \A n \in Trees :
           Good(n, tight) /\ Count[n] <= MaxDepth =>
             LET d == DeleteByRange(n, box, sampling)
             IN  /\ Holds(d.tree, Outside(Live[n], box), tight) /\ Count[d.tree] <= Count[n]
                 /\ d.count = Cardinality(Live[n] \ Outside(Live[n], box)) /\ d.count \in Nat
<1> DEFINE d(n) == DeleteByRange(n, box, sampling)
           Is(n, tree, count) ==
             /\ Holds(tree, Outside(Live[n], box), tight) /\ Count[tree] <= Count[n]
             /\ count = Cardinality(Live[n] \ Outside(Live[n], box)) /\ count \in Nat
           Claim(n) == Is(n, d(n).tree, d(n).count)
           T == {n \in Trees : Good(n, tight) /\ Count[n] <= MaxDepth => Claim(n)}
<1>0. Outside({}, box) = {} /\ {} \ {} = {}  BY DEF Outside
<1>1. Nil \in T
  <2>1. d(Nil).tree = Nil /\ d(Nil).count = 0  BY NoTree, DeleteRangeOf
  <2>2. Live[Nil] = {} /\ Outside({}, box) = {} /\ {} \ {} = {}  BY NoTree DEF Outside
  <2>3. Is(Nil, Nil, 0)  BY <2>2, NoTree, HoldsNothing, FS_EmptySet
  <2> HIDE DEF d, Is
  <2>4. Claim(Nil)  BY <2>1, <2>3
  <2> QED  BY <2>4, NoTree
<1>2. ASSUME NEW n \in Trees \ {Nil}, PushDown(n).left \in T, PushDown(n).right \in T PROVE n \in T
  <2> SUFFICES ASSUME Good(n, tight), Count[n] <= MaxDepth PROVE Claim(n)  OBVIOUS
  <2> DEFINE m == PushDown(n)
             L == Live[m.left]
             R == Live[m.right]
             S == Live[n]
             l == d(m.left)
             r == d(m.right)
             hit == ~m.point_deleted /\ In(m.point, box)
             w == Cut(m, l.tree, r.tree, hit, sampling)
  <2>1. Holds(n, S, tight)  BY DEF Holds
  <2>2. /\ m \in Trees /\ IsNode(m) /\ m.point \in Points /\ m # Nil
        /\ Holds(m.left, L, tight) /\ Holds(m.right, R, tight)
        /\ L \intersect R = {} /\ Own(m) \intersect (L \union R) = {} /\ Sided(m, L, R)
        /\ S = L \union R \union Own(m) /\ Promises(m, S)
        /\ m.TreeSize = Count[n] /\ Count[n] = 1 + Count[m.left] + Count[m.right]
        /\ Count[m.left] \in Nat /\ Count[m.right] \in Nat
        /\ (m.push_left => m.left = Nil) /\ (m.push_right => m.right = Nil)
    BY <2>1, Descended
  <2>3. d(n) = IF n.tree_deleted THEN [tree |-> n, count |-> 0]
               ELSE IF Disjoint(m, box) THEN [tree |-> m, count |-> 0]
               ELSE IF Covers(box, m)
               THEN [tree |-> DeleteTree(m, sampling), count |-> m.TreeSize - m.invalid_point_num]
               ELSE [tree |-> Settle(w), count |-> l.count + r.count + IF hit THEN 1 ELSE 0]
    <3>1. d(n) = IF n.tree_deleted THEN [tree |-> n, count |-> 0] ELSE RangeDeleted(n, box, sampling, l, r)
      BY DeleteRangeOf
    <3> QED  BY <3>1 DEF RangeDeleted, Cut
  <2>4. Claim(m.left) /\ Claim(m.right)
    <3>1. Count[m.left] <= MaxDepth /\ Count[m.right] <= MaxDepth  BY <2>2, DepthNat
    <3> QED  BY <1>2, <2>2, <3>1 DEF Holds
  <2>5. /\ Holds(l.tree, Outside(L, box), tight) /\ Count[l.tree] <= Count[m.left]
        /\ l.count = Cardinality(L \ Outside(L, box))
        /\ Holds(r.tree, Outside(R, box), tight) /\ Count[r.tree] <= Count[m.right]
        /\ r.count = Cardinality(R \ Outside(R, box))
    BY <2>4
  <2>6. Son(n, S)  BY <2>1, HoldsSon
  <2> HIDE DEF d, l, r, m, L, R, S
  <2>7. /\ Disjoint(m, box) => Outside(S, box) = S
        /\ Covers(box, m) => m.TreeSize - m.invalid_point_num = Cardinality(S \ Outside(S, box))
        /\ Cardinality(S \ Outside(S, box)) =
             Cardinality(L \ Outside(L, box)) + Cardinality(R \ Outside(R, box)) + IF hit THEN 1 ELSE 0
    <3>1. /\ IsNode(m) /\ L \intersect R = {}
          /\ Own(m) \intersect (L \union R) = {} /\ S = L \union R \union Own(m) /\ Promises(m, S)
      BY <2>2
    <3>2. Disjoint(m, box) => Outside(S, box) = S  BY <3>1, RangeCounts
    <3>3. Covers(box, m) => m.TreeSize - m.invalid_point_num = Cardinality(S \ Outside(S, box))  BY <3>1, RangeCounts
    <3>4. Cardinality(S \ Outside(S, box)) =
             Cardinality(L \ Outside(L, box)) + Cardinality(R \ Outside(R, box)) + IF hit THEN 1 ELSE 0
      BY <3>1, RangeCounts
    <3> QED  BY <3>2, <3>3, <3>4
  <2>8. IsFiniteSet(S) /\ Cardinality(S \ Outside(S, box)) \in Nat
    BY <2>2, FS_Subset, FS_CardinalityType DEF Promises
  <2>13. Count[n] \in Nat  BY CountNat
  <2> SUFFICES ASSUME NEW tree, NEW count, tree = d(n).tree, count = d(n).count
               PROVE  /\ Holds(tree, Outside(S, box), tight) /\ Count[tree] <= Count[n]
                      /\ count = Cardinality(S \ Outside(S, box))
    BY <2>8 DEF S
  <2>9. CASE n.tree_deleted
    <3>1. S = {}  BY <2>6, <2>9 DEF Son, Promises
    <3>2. tree = n /\ count = 0  BY <2>3, <2>9
    <3> QED  BY <1>0, <2>1, <2>13, <3>1, <3>2, FS_EmptySet
  <2>10. CASE ~n.tree_deleted /\ Disjoint(m, box)
    <3>1. tree = m /\ count = 0  BY <2>3, <2>10
    <3>2. Holds(m, S, tight) /\ Count[m] = Count[n]  BY <2>1, PushedHolds DEF m
    <3>3. Outside(S, box) = S /\ S \ S = {}  BY <2>7, <2>10
    <3> QED  BY <2>13, <3>1, <3>2, <3>3, FS_EmptySet
  <2>11. CASE ~n.tree_deleted /\ ~Disjoint(m, box) /\ Covers(box, m)
    <3>1. tree = DeleteTree(m, sampling) /\ count = m.TreeSize - m.invalid_point_num  BY <2>3, <2>11
    <3>2. Holds(m, S, tight) /\ Count[m] = Count[n]  BY <2>1, PushedHolds DEF m
    <3>3. Holds(tree, {}, tight) /\ Count[tree] = Count[n]  BY <2>2, <3>1, <3>2, DeleteTreeHolds
    <3>4. Outside(S, box) = {}  BY <2>2, <2>11, RangeCounts
    <3> QED  BY <2>7, <2>11, <2>13, <3>1, <3>3, <3>4
  <2>12. CASE ~n.tree_deleted /\ ~Disjoint(m, box) /\ ~Covers(box, m)
    <3> DEFINE A == Outside(L, box)
               B == Outside(R, box)
               Z == Outside(S, box)
    <3>1. tree = Settle(w) /\ count = l.count + r.count + IF hit THEN 1 ELSE 0  BY <2>3, <2>12
    <3>2. /\ IsNode(w) /\ w.left = l.tree /\ w.right = r.tree /\ w.point = m.point
          /\ w.push_left = m.push_left /\ w.push_right = m.push_right /\ Own(w) = Outside(Own(m), box)
          /\ w.division_axis = m.division_axis
      BY <2>2, CutFields
    <3>3. /\ A \intersect B = {} /\ Own(w) \intersect (A \union B) = {} /\ Z = A \union B \union Own(w)
      BY <2>2, <3>2 DEF Outside
    <3>13. Sided(w, A, B)
      <4>1. A \in SUBSET L /\ B \in SUBSET R  BY DEF Outside
      <4> HIDE DEF w, A, B
      <4> QED  BY <2>2, <3>2, <4>1, SidedSame
    <3> HIDE DEF w, A, B, Z
    <3>4. Holds(w.left, A, tight) /\ Holds(w.right, B, tight)  BY <2>5, <3>2 DEF A, B
    <3>5. /\ Count[w.left] \in Nat /\ Count[w.right] \in Nat
          /\ 1 + Count[w.left] + Count[w.right] <= Count[n] /\ 1 + Count[w.left] + Count[w.right] <= MaxDepth
      BY <2>2, <2>5, <3>2, <3>4, DepthNat, CountNat DEF Holds
    <3>6. (w.push_left => w.left = Nil) /\ (w.push_right => w.right = Nil)
      BY <2>2, <2>5, <3>2, NoNodes DEF Holds
    <3>7. w.point \in Points  BY <2>2, <3>2
    <3>8. Holds(Update(w), Z, tight)  BY <3>2, <3>3, <3>4, <3>5, <3>6, <3>7, <3>13, UpdatedHolds
    <3>9. Update(w) # Nil /\ Count[Update(w)] = 1 + Count[w.left] + Count[w.right]
      BY <3>2, <3>3, <3>4, <3>5, <3>7, Updated
    <3>10. Holds(Settle(w), Z, tight) /\ Count[Settle(w)] <= Count[Update(w)]
      BY <3>5, <3>8, <3>9, SettleHolds
    <3>11. Count[Settle(w)] \in Nat  BY <3>10, CountNat DEF Holds
    <3>12. Count[tree] <= Count[n]  BY <2>13, <3>1, <3>5, <3>9, <3>10, <3>11
    <3> QED  BY <2>5, <2>7, <3>1, <3>10, <3>12 DEF Z
  <2> QED  BY <2>9, <2>10, <2>11, <2>12
<1> HIDE DEF T
<1>3. Trees \subseteq T  BY <1>1, <1>2, TreeInduction
<1> QED  BY <1>3 DEF T

\* Search_by_range finds the points in the box, and changes nothing but what is pending.
LEMMA SearchRangeHolds ==
  ASSUME NEW box, box.min \in Coordinates, box.max \in Coordinates, NEW tight
  PROVE  \A n \in Trees :
           Good(n, tight) /\ Count[n] <= MaxDepth =>
             LET s == SearchByRange(n, box)
             IN  /\ Holds(s.tree, Live[n], tight) /\ Count[s.tree] = Count[n]
                 /\ s.points = {p \in Live[n] : In(p, box)}
<1> DEFINE d(n) == SearchByRange(n, box)
           Claim(n) == /\ Holds(d(n).tree, Live[n], tight) /\ Count[d(n).tree] = Count[n]
                       /\ d(n).points = {p \in Live[n] : In(p, box)}
           T == {n \in Trees : Good(n, tight) /\ Count[n] <= MaxDepth => Claim(n)}
<1>1. Nil \in T
  <2>1. d(Nil).tree = Nil /\ d(Nil).points = {}  BY NoTree, SearchRangeOf
  <2> HIDE DEF d
  <2>2. Claim(Nil)  BY <2>1, NoTree, HoldsNothing
  <2> QED  BY <2>2, NoTree
<1>2. ASSUME NEW n \in Trees \ {Nil}, PushDown(n).left \in T, PushDown(n).right \in T PROVE n \in T
  <2> SUFFICES ASSUME Good(n, tight), Count[n] <= MaxDepth PROVE Claim(n)  OBVIOUS
  <2> DEFINE m == PushDown(n)
             L == Live[m.left]
             R == Live[m.right]
             S == Live[n]
             l == d(m.left)
             r == d(m.right)
  <2>1. Holds(n, S, tight)  BY DEF Holds
  <2>2. /\ m \in Trees /\ IsNode(m) /\ m.point \in Points /\ m # Nil
        /\ Holds(m.left, L, tight) /\ Holds(m.right, R, tight)
        /\ S = L \union R \union Own(m) /\ Promises(m, S)
        /\ Count[n] = 1 + Count[m.left] + Count[m.right]
        /\ Count[m.left] \in Nat /\ Count[m.right] \in Nat
    BY <2>1, Descended
  <2>3. d(n) = IF Disjoint(m, box) THEN [tree |-> m, points |-> {}]
               ELSE IF Covers(box, m) THEN Flatten[m]
               ELSE [tree |-> Replaced(m, l.tree, r.tree),
                     points |-> l.points \union r.points \union {p \in Own(m) : In(p, box)}]
    <3>1. d(n) = RangeFound(n, box, l, r)  BY SearchRangeOf
    <3> QED  BY <3>1 DEF RangeFound, Replaced
  <2>4. Claim(m.left) /\ Claim(m.right)
    <3>1. Count[m.left] <= MaxDepth /\ Count[m.right] <= MaxDepth  BY <2>2, DepthNat
    <3> QED  BY <1>2, <2>2, <3>1 DEF Holds
  <2>5. Holds(m, S, tight) /\ Count[m] = Count[n]  BY <2>1, PushedHolds
  <2>6. \A p \in S : (Disjoint(m, box) => ~In(p, box)) /\ (Covers(box, m) => In(p, box))
    BY <2>2, BoxTests DEF Promises
  <2>7. /\ Holds(l.tree, L, tight) /\ Count[l.tree] = Count[m.left] /\ l.points = {p \in L : In(p, box)}
        /\ Holds(r.tree, R, tight) /\ Count[r.tree] = Count[m.right] /\ r.points = {p \in R : In(p, box)}
    BY <2>4
  <2>8. CASE Disjoint(m, box)
    <3>1. d(n).tree = m /\ d(n).points = {}  BY <2>3, <2>8
    <3>2. {p \in S : In(p, box)} = {}  BY <2>6, <2>8
    <3> HIDE DEF d, m
    <3> QED  BY <2>5, <3>1, <3>2
  <2>9. CASE ~Disjoint(m, box) /\ Covers(box, m)
    <3>1. d(n) = Flatten[m]  BY <2>3, <2>9
    <3>2. {p \in S : In(p, box)} = S  BY <2>6, <2>9
    <3> HIDE DEF d, m, S
    <3>3. m \in Trees /\ Good(m, tight) /\ Live[m] = S /\ Count[m] <= MaxDepth  BY <2>5 DEF Holds
    <3>4. Flatten[m].points = S /\ Holds(Flatten[m].tree, S, tight) /\ Count[Flatten[m].tree] = Count[n]
      BY <2>5, <3>3, FlattenHolds
    <3> QED  BY <3>1, <3>2, <3>4 DEF S
  <2>10. CASE ~Disjoint(m, box) /\ ~Covers(box, m)
    <3>1. /\ d(n).tree = Replaced(m, l.tree, r.tree)
          /\ d(n).points = l.points \union r.points \union {p \in Own(m) : In(p, box)}
      BY <2>3, <2>10
    <3>2. d(n).points = {p \in S : In(p, box)}  BY <2>2, <2>7, <3>1
    <3> HIDE DEF d, l, r
    <3>3. Holds(Replaced(m, l.tree, r.tree), S, tight) /\ Count[Replaced(m, l.tree, r.tree)] = Count[n]
      BY <2>1, <2>7, Passed
    <3> QED  BY <3>1, <3>2, <3>3
  <2> QED  BY <2>8, <2>9, <2>10
<1> HIDE DEF T
<1>3. Trees \subseteq T  BY <1>1, <1>2, TreeInduction
<1> QED  BY <1>3 DEF T

-----------------------------------------------------------------------------
(* Search.                                                                  *)

\* Search goes down to a son only if it may hold a point for the heap.
Visit(son, k, t, h) ==
  IF son # Nil /\ Open(h, k, t, BoxDist(son, t)) THEN Search(son, k, t, h) ELSE [tree |-> son, heap |-> h]

OneSearched(n, k, t, q) ==
  LET m == PushDown(n)
      own == IF m.point_deleted THEN q ELSE Found(q, k, t, m.point)
      first == IF LeftFirst(m, t) THEN Visit(m.left, k, t, own) ELSE Visit(m.right, k, t, own)
      second == IF LeftFirst(m, t) THEN Visit(m.right, k, t, first.heap)
                                   ELSE Visit(m.left, k, t, first.heap)
  IN  [tree |-> IF LeftFirst(m, t) THEN Replaced(m, first.tree, second.tree)
                                   ELSE Replaced(m, second.tree, first.tree),
       heap |-> second.heap]

\* Search by its recursive equation.
LEMMA SearchStep ==
  ASSUME NEW k, NEW t, NEW n \in Trees, NEW q \in SUBSET Points
  PROVE  Search(n, k, t, q) =
           IF n = Nil THEN [tree |-> n, heap |-> q]
           ELSE IF n.tree_deleted THEN [tree |-> n, heap |-> q] ELSE OneSearched(n, k, t, q)
<1> DEFINE Of(x, f) == [h \in SUBSET Points |->
                         IF x = Nil THEN [tree |-> x, heap |-> h]
                         ELSE IF x.tree_deleted THEN [tree |-> x, heap |-> h]
                         ELSE Searched(x, k, t, h, f[PushDown(x).left], f[PushDown(x).right])]
           Upto(d, f) == f = [x \in Level[d] |-> Of(x, f)]
           D == {d \in 0 .. MaxDepth : \E f : Upto(d, f)}
           F == CHOOSE f : Upto(MaxDepth, f)
<1>1. \A x, h : Search(x, k, t, h) = F[x][h]
  BY DEF Search, Searched, Visiting, Trees
<1>2. \A x, f, g : x = Nil \/ (f[PushDown(x).left] = g[PushDown(x).left] /\ f[PushDown(x).right] = g[PushDown(x).right])
                    => Of(x, f) = Of(x, g)
  OBVIOUS
<1> HIDE DEF Of
<1>3. MaxDepth \in Nat  BY DepthNat
<1>4. 0 \in D
  <2> DEFINE g == [x \in Level[0] |-> Of(x, <<>>)]
  <2>1. 0 \in 0 .. MaxDepth  BY <1>3
  <2>2. \A x \in Level[0] : Of(x, <<>>) = Of(x, g)
    <3> HIDE DEF g
    <3> QED  BY <1>2, <2>1, LevelNodes
  <2>3. Upto(0, g)  BY <2>2
  <2> HIDE DEF Upto, g
  <2> QED  BY <2>1, <2>3
<1>5. ASSUME NEW d \in Nat, d + 1 \in 0 .. MaxDepth, NEW f, Upto(d, f) PROVE \E g : Upto(d + 1, g)
  <2> DEFINE g == [x \in Level[d + 1] |-> Of(x, f)]
  <2>1. \A x \in Level[d] : g[x] = f[x]
    <3>1. Level[d] \subseteq Level[d + 1]  BY <1>5, LevelsGrow
    <3> QED  BY <1>5, <3>1
  <2>2. ASSUME NEW x \in Level[d + 1] PROVE Of(x, f) = Of(x, g)
    <3>1. CASE x = Nil  BY <1>2, <3>1
    <3>2. CASE x # Nil
      <4>1. (d + 1) - 1 = d  OBVIOUS
      <4>2. PushDown(x).left \in Level[d] /\ PushDown(x).right \in Level[d]  BY <1>5, <3>2, <4>1, PushedLevel
      <4> HIDE DEF g
      <4> QED  BY <1>2, <2>1, <4>2
    <3> QED  BY <3>1, <3>2
  <2> QED  BY <2>2
<1>6. MaxDepth \in D
  <2>1. \A d \in Nat : d \in D /\ d + 1 \in 0 .. MaxDepth => d + 1 \in D
    <3> HIDE DEF Upto
    <3> QED  BY <1>5
  <2>2. D \subseteq 0 .. MaxDepth  OBVIOUS
  <2> HIDE DEF D
  <2>3. D = 0 .. MaxDepth  BY <1>4, <2>1, <2>2, DepthInduction
  <2> QED  BY <1>3, <2>3
<1>7. Upto(MaxDepth, F)  BY <1>6
<1>8. F[n] = Of(n, F)  BY <1>7 DEF Trees
<1> HIDE DEF F
<1>9. F[n][q] = IF n = Nil THEN [tree |-> n, heap |-> q]
                ELSE IF n.tree_deleted THEN [tree |-> n, heap |-> q]
                ELSE Searched(n, k, t, q, F[PushDown(n).left], F[PushDown(n).right])
  BY <1>8 DEF Of
<1>10. \A son, h : Visiting(son, k, t, F[son], h) = Visit(son, k, t, h)  BY <1>1 DEF Visiting, Visit
<1>11. Searched(n, k, t, q, F[PushDown(n).left], F[PushDown(n).right]) = OneSearched(n, k, t, q)
  <2> DEFINE m == PushDown(n)
             f == F[m.left]
             g == F[m.right]
             own == IF m.point_deleted THEN q ELSE Found(q, k, t, m.point)
  <2>1. \A h : Visiting(m.left, k, t, f, h) = Visit(m.left, k, t, h)  BY <1>10
  <2>2. \A h : Visiting(m.right, k, t, g, h) = Visit(m.right, k, t, h)  BY <1>10
  <2> HIDE DEF m, f, g, own
  <2>3. CASE LeftFirst(m, t)
    <3>1. Searched(n, k, t, q, f, g) =
            LET first == Visiting(m.left, k, t, f, own)
                second == Visiting(m.right, k, t, g, first.heap)
            IN  [tree |-> Replaced(m, first.tree, second.tree), heap |-> second.heap]
      BY <2>3 DEF Searched, Replaced, m, own
    <3>2. OneSearched(n, k, t, q) =
            LET first == Visit(m.left, k, t, own)
                second == Visit(m.right, k, t, first.heap)
            IN  [tree |-> Replaced(m, first.tree, second.tree), heap |-> second.heap]
      BY <2>3 DEF OneSearched, m, own
    <3> QED  BY <2>1, <2>2, <3>1, <3>2, Zenon DEF f, g, m
  <2>4. CASE ~LeftFirst(m, t)
    <3>1. Searched(n, k, t, q, f, g) =
            LET first == Visiting(m.right, k, t, g, own)
                second == Visiting(m.left, k, t, f, first.heap)
            IN  [tree |-> Replaced(m, second.tree, first.tree), heap |-> second.heap]
      BY <2>4 DEF Searched, Replaced, m, own
    <3>2. OneSearched(n, k, t, q) =
            LET first == Visit(m.right, k, t, own)
                second == Visit(m.left, k, t, first.heap)
            IN  [tree |-> Replaced(m, second.tree, first.tree), heap |-> second.heap]
      BY <2>4 DEF OneSearched, m, own
    <3> QED  BY <2>1, <2>2, <3>1, <3>2, Zenon DEF f, g, m
  <2> QED  BY <2>3, <2>4
<1> QED  BY <1>1, <1>9, <1>11

\* What a search keeps of the tree, and what it does to the heap.
Keeps(n, S, s, tight) == Holds(s.tree, S, tight) /\ Count[s.tree] = Count[n] /\ s.heap \in SUBSET Points

Finds(n, S, k, t) ==
  \A V \in SUBSET Points, h \in SUBSET Points :
    Nearest(h, k, t, V) /\ V \intersect S = {} => Nearest(Search(n, k, t, h).heap, k, t, V \union S)

\* Search, 1139: a son is searched or left alone.
LEMMA VisitKeeps ==
  ASSUME NEW k, NEW t, NEW tight, NEW son, NEW S, Holds(son, S, tight), NEW h \in SUBSET Points,
         Keeps(son, S, Search(son, k, t, h), tight)
  PROVE  Keeps(son, S, Visit(son, k, t, h), tight)
BY DEF Keeps, Visit

\* Search, 1145: a son that is left out holds no point that is nearer than those found.
LEMMA VisitFinds ==
  ASSUME NEW son, NEW S, Son(son, S), NEW t \in Coordinates, NEW k \in Nat \ {0}, Finds(son, S, k, t),
         NEW V \in SUBSET Points, V \intersect S = {}, NEW h, Nearest(h, k, t, V)
  PROVE  Nearest(Visit(son, k, t, h).heap, k, t, V \union S)
<1>1. CASE son = Nil
  <2>1. S = {} /\ Visit(son, k, t, h).heap = h  BY <1>1 DEF Son, Visit
  <2>2. V \union S = V  BY <2>1
  <2> QED  BY <2>1, <2>2
<1>2. CASE son # Nil /\ Open(h, k, t, BoxDist(son, t))
  <2>1. h \in SUBSET Points  BY DEF Nearest
  <2> QED  BY <1>2, <2>1 DEF Visit, Finds
<1>3. CASE son # Nil /\ ~Open(h, k, t, BoxDist(son, t))
  <2> DEFINE d == BoxDist(son, t)
  <2>1. IsNode(son) /\ S \subseteq Coordinates /\ IsFiniteSet(S) /\ \A p \in S : Lies(p, son)
    BY <1>3 DEF Son, Promises
  <2>2. \A p \in S : d \in Int /\ d <= Dist(p, t)  BY <2>1, BoxDistBelow
  <2>3. Visit(son, k, t, h).heap = h  BY <1>3 DEF Visit
  <2>4. CASE S = {}
    <3>1. V \union S = V  BY <2>4
    <3> QED  BY <2>3, <3>1
  <2>5. CASE S # {}
    <3>1. d \in Int /\ \A p \in S : d <= Dist(p, t)  BY <2>2, <2>5
    <3>2. ~Open(h, k, t, d) /\ V \subseteq Coordinates  BY <1>3, TreeAssumption
    <3> HIDE DEF d
    <3> QED  BY <2>1, <2>3, <3>1, <3>2, ClosedToFar
  <2> QED  BY <2>4, <2>5
<1> QED  BY <1>1, <1>2, <1>3

\* The heap holds points.
LEMMA FoundIn ==
  ASSUME NEW q \in SUBSET Points, NEW p \in Points, NEW k, NEW t
  PROVE  Found(q, k, t, p) \in SUBSET Points
BY DEF Found

\* Search leaves the k nearest of all the points seen, in whichever order it looks at the
\* sons and whichever it leaves out; it changes nothing but what is pending.
LEMMA SearchHolds ==
  ASSUME NEW t \in Coordinates, NEW k \in Nat \ {0}, NEW tight
  PROVE  \A n \in Trees :
           Good(n, tight) /\ Count[n] <= MaxDepth =>
             /\ \A q \in SUBSET Points : Keeps(n, Live[n], Search(n, k, t, q), tight)
             /\ Finds(n, Live[n], k, t)
<1> DEFINE Claim(n) == /\ \A q \in SUBSET Points : Keeps(n, Live[n], Search(n, k, t, q), tight)
                       /\ Finds(n, Live[n], k, t)
           T == {n \in Trees : Good(n, tight) /\ Count[n] <= MaxDepth => Claim(n)}
<1>1. ASSUME NEW n \in Trees, Holds(n, {}, tight), n # Nil => n.tree_deleted PROVE Claim(n)
  <2>1. Live[n] = {}  BY <1>1 DEF Holds
  <2>2. ASSUME NEW q \in SUBSET Points PROVE Search(n, k, t, q) = [tree |-> n, heap |-> q]
    BY <1>1, SearchStep
  <2>3. \A q \in SUBSET Points : Keeps(n, Live[n], Search(n, k, t, q), tight)
    BY <1>1, <2>1, <2>2 DEF Keeps
  <2>4. \A V : V \union {} = V  OBVIOUS
  <2>5. Finds(n, Live[n], k, t)  BY <2>1, <2>2, <2>4 DEF Finds
  <2> QED  BY <2>3, <2>5
<1>2. Nil \in T  BY <1>1, NoTree, HoldsNothing
<1>3. ASSUME NEW n \in Trees \ {Nil}, PushDown(n).left \in T, PushDown(n).right \in T PROVE n \in T
  <2> SUFFICES ASSUME Good(n, tight), Count[n] <= MaxDepth PROVE Claim(n)  OBVIOUS
  <2> DEFINE m == PushDown(n)
             L == Live[m.left]
             R == Live[m.right]
             S == Live[n]
             Own1(q) == IF m.point_deleted THEN q ELSE Found(q, k, t, m.point)
             Left(h) == Visit(m.left, k, t, h)
             Right(h) == Visit(m.right, k, t, h)
  <2>1. Holds(n, S, tight)  BY DEF Holds
  <2>2. /\ m \in Trees /\ IsNode(m) /\ m.point \in Points /\ m # Nil
        /\ Holds(m.left, L, tight) /\ Holds(m.right, R, tight)
        /\ L \intersect R = {} /\ Own(m) \intersect (L \union R) = {}
        /\ S = L \union R \union Own(m) /\ Promises(m, S)
        /\ Count[n] = 1 + Count[m.left] + Count[m.right]
        /\ Count[m.left] \in Nat /\ Count[m.right] \in Nat
    BY <2>1, Descended
  <2>3. Claim(m.left) /\ Claim(m.right)
    <3>1. Count[m.left] <= MaxDepth /\ Count[m.right] <= MaxDepth  BY <2>2, DepthNat
    <3> QED  BY <1>3, <2>2, <3>1 DEF Holds
  <2>4. Son(m.left, L) /\ Son(m.right, R) /\ L \in SUBSET Points /\ R \in SUBSET Points /\ Son(n, S)
    BY <2>1, <2>2, HoldsSon
  <2>5. CASE n.tree_deleted
    <3>1. S = {}  BY <2>4, <2>5 DEF Son, Promises
    <3> QED  BY <1>1, <2>1, <2>5, <3>1
  <2>6. CASE ~n.tree_deleted
    <3>1. ASSUME NEW q \in SUBSET Points PROVE Search(n, k, t, q) = OneSearched(n, k, t, q)
      BY <2>6, SearchStep
    <3>2. ASSUME NEW q \in SUBSET Points
          PROVE  OneSearched(n, k, t, q) =
                   IF LeftFirst(m, t)
                   THEN [tree |-> Replaced(m, Left(Own1(q)).tree, Right(Left(Own1(q)).heap).tree),
                         heap |-> Right(Left(Own1(q)).heap).heap]
                   ELSE [tree |-> Replaced(m, Left(Right(Own1(q)).heap).tree, Right(Own1(q)).tree),
                         heap |-> Left(Right(Own1(q)).heap).heap]
      BY DEF OneSearched
    <3>3. \A h \in SUBSET Points : Keeps(m.left, L, Left(h), tight) /\ Keeps(m.right, R, Right(h), tight)
      BY <2>2, <2>3, VisitKeeps
    <3>4. \A q \in SUBSET Points : Own1(q) \in SUBSET Points  BY <2>2, FoundIn
    <3>5. \A V, h \in SUBSET Points :
            /\ Nearest(h, k, t, V) /\ V \intersect L = {} => Nearest(Left(h).heap, k, t, V \union L)
            /\ Nearest(h, k, t, V) /\ V \intersect R = {} => Nearest(Right(h).heap, k, t, V \union R)
      BY <2>3, <2>4, VisitFinds
    <3>6. \A V, q \in SUBSET Points :
            Nearest(q, k, t, V) /\ V \intersect Own(m) = {} => Nearest(Own1(q), k, t, V \union Own(m))
      <4> SUFFICES ASSUME NEW V \in SUBSET Points, NEW q \in SUBSET Points, Nearest(q, k, t, V),
                          V \intersect Own(m) = {}
                   PROVE  Nearest(Own1(q), k, t, V \union Own(m))
        OBVIOUS
      <4>1. V \subseteq Coordinates /\ m.point \in Coordinates  BY <2>2, TreeAssumption
      <4>2. CASE m.point_deleted
        <5>1. V \union Own(m) = V /\ Own1(q) = q  BY <4>2 DEF Own
        <5> QED  BY <5>1
      <4>3. CASE ~m.point_deleted
        <5>1. Own(m) = {m.point} /\ m.point \notin V /\ Own1(q) = Found(q, k, t, m.point)  BY <4>3 DEF Own
        <5> QED  BY <4>1, <5>1, FoundIsNearest
      <4> QED  BY <4>2, <4>3
    <3> HIDE DEF m, L, R, S, Left, Right, Own1
    <3>7. ASSUME NEW q \in SUBSET Points PROVE Keeps(n, S, Search(n, k, t, q), tight)
      <4> DEFINE own == Own1(q)
                 s == Search(n, k, t, q)
      <4>1. own \in SUBSET Points  BY <3>4, <3>7
      <4>2. ASSUME NEW l, NEW r, Keeps(m.left, L, l, tight), Keeps(m.right, R, r, tight),
                   s.tree = Replaced(m, l.tree, r.tree), s.heap = l.heap \/ s.heap = r.heap
            PROVE  Keeps(n, S, s, tight)
        <5> DEFINE x == l.tree
                   y == r.tree
        <5>1. /\ Holds(x, L, tight) /\ Count[x] = Count[m.left]
              /\ Holds(y, R, tight) /\ Count[y] = Count[m.right] /\ s.heap \in SUBSET Points
          BY <4>2 DEF Keeps
        <5> HIDE DEF x, y
        <5>2. Holds(Replaced(m, x, y), S, tight) /\ Count[Replaced(m, x, y)] = Count[n]
          BY <2>1, <5>1, Passed DEF m, L, R
        <5> QED  BY <4>2, <5>1, <5>2 DEF Keeps, x, y
      <4>3. CASE LeftFirst(m, t)
        <5> DEFINE l == Left(own)
                   r == Right(l.heap)
        <5>1. s = [tree |-> Replaced(m, l.tree, r.tree), heap |-> r.heap]  BY <3>1, <3>2, <4>3
        <5> HIDE DEF s
        <5>2. s.tree = Replaced(m, l.tree, r.tree) /\ s.heap = r.heap  BY <5>1
        <5>3. Keeps(m.left, L, l, tight)  BY <3>3, <4>1
        <5>4. l.heap \in SUBSET Points  BY <5>3 DEF Keeps
        <5>5. Keeps(m.right, R, r, tight)  BY <3>3, <5>4
        <5> HIDE DEF l, r
        <5>6. Keeps(n, S, s, tight)  BY <4>2, <5>2, <5>3, <5>5
        <5> QED  BY <5>6 DEF s
      <4>4. CASE ~LeftFirst(m, t)
        <5> DEFINE r == Right(own)
                   l == Left(r.heap)
        <5>1. s = [tree |-> Replaced(m, l.tree, r.tree), heap |-> l.heap]  BY <3>1, <3>2, <4>4
        <5> HIDE DEF s
        <5>2. s.tree = Replaced(m, l.tree, r.tree) /\ s.heap = l.heap  BY <5>1
        <5>3. Keeps(m.right, R, r, tight)  BY <3>3, <4>1
        <5>4. r.heap \in SUBSET Points  BY <5>3 DEF Keeps
        <5>5. Keeps(m.left, L, l, tight)  BY <3>3, <5>4
        <5> HIDE DEF l, r
        <5>6. Keeps(n, S, s, tight)  BY <4>2, <5>2, <5>3, <5>5
        <5> QED  BY <5>6 DEF s
      <4> QED  BY <4>3, <4>4
    <3>8. ASSUME NEW V \in SUBSET Points, NEW q \in SUBSET Points, Nearest(q, k, t, V), V \intersect S = {}
          PROVE  Nearest(Search(n, k, t, q).heap, k, t, V \union S)
      <4> DEFINE own == Own1(q)
                 W == V \union Own(m)
                 A == W \union L
                 B == W \union R
      <4>1. Own(m) \in SUBSET Points  BY <2>2 DEF Own
      <4>2. /\ W \in SUBSET Points /\ A \in SUBSET Points /\ B \in SUBSET Points
            /\ V \intersect Own(m) = {} /\ W \intersect L = {} /\ W \intersect R = {}
            /\ A \intersect R = {} /\ B \intersect L = {} /\ A \union R = V \union S /\ B \union L = V \union S
        BY <2>2, <2>4, <3>8, <4>1
      <4>3. own \in SUBSET Points /\ Nearest(own, k, t, W)  BY <3>4, <3>6, <3>8, <4>2
      <4> HIDE DEF own, W, A, B
      <4>4. CASE LeftFirst(m, t)
        <5> DEFINE h == Left(own).heap
        <5>1. Search(n, k, t, q).heap = Right(h).heap  BY <3>1, <3>2, <3>8, <4>4 DEF own
        <5>2. h \in SUBSET Points  BY <3>3, <4>3 DEF Keeps
        <5>3. Nearest(h, k, t, A)  BY <3>5, <4>2, <4>3 DEF A
        <5> HIDE DEF h
        <5>4. Nearest(Right(h).heap, k, t, A \union R)  BY <3>5, <4>2, <5>2, <5>3
        <5> QED  BY <4>2, <5>1, <5>4
      <4>5. CASE ~LeftFirst(m, t)
        <5> DEFINE h == Right(own).heap
        <5>1. Search(n, k, t, q).heap = Left(h).heap  BY <3>1, <3>2, <3>8, <4>5 DEF own
        <5>2. h \in SUBSET Points  BY <3>3, <4>3 DEF Keeps
        <5>3. Nearest(h, k, t, B)  BY <3>5, <4>2, <4>3 DEF B
        <5> HIDE DEF h
        <5>4. Nearest(Left(h).heap, k, t, B \union L)  BY <3>5, <4>2, <5>2, <5>3
        <5> QED  BY <4>2, <5>1, <5>4
      <4> QED  BY <4>4, <4>5
    <3>9. Finds(n, S, k, t)  BY <3>8 DEF Finds
    <3> QED  BY <3>7, <3>9 DEF S
  <2> QED  BY <2>5, <2>6
<1> HIDE DEF T
<1>4. Trees \subseteq T  BY <1>2, <1>3, TreeInduction
<1> QED  BY <1>4 DEF T

-----------------------------------------------------------------------------
(* Add_Points with downsampling.                                            *)

\* Delete_by_range leaves a tree, if only one of which all is deleted.
LEMMA RangeKeepsRoot ==
  ASSUME NEW box, box.min \in Coordinates, box.max \in Coordinates, NEW sampling \in BOOLEAN,
         NEW tight, NEW n \in Trees, n # Nil, Good(n, tight), Count[n] <= MaxDepth
  PROVE  tight => DeleteByRange(n, box, sampling).tree # Nil
<1> DEFINE m == PushDown(n)
           S == Live[n]
           d == DeleteByRange(n, box, sampling)
<1>1. Holds(d.tree, Outside(S, box), tight)  BY DeleteRangeHolds
<1>2. CASE Outside(S, box) # {}
  BY <1>1, <1>2, NoTree DEF Holds
<1>3. CASE Outside(S, box) = {}
  <2>1. Holds(n, S, tight)  BY DEF Holds
  <2>2. m \in Trees /\ m # Nil /\ IsNode(m) /\ Promises(m, S) /\ (tight => Tight(m, S))  BY <2>1, Descended
  <2>3. \A p \in S : In(p, box)  BY <1>3 DEF Outside
  <2>4. tight => Tight(n, S)  BY <2>1, HoldsSon
  <2>5. d = IF n.tree_deleted THEN [tree |-> n, count |-> 0]
            ELSE IF Disjoint(m, box) THEN [tree |-> m, count |-> 0]
            ELSE IF Covers(box, m)
            THEN [tree |-> DeleteTree(m, sampling), count |-> m.TreeSize - m.invalid_point_num]
            ELSE d
    BY DeleteRangeOf DEF RangeDeleted
  <2>6. CASE n.tree_deleted  BY <2>5, <2>6
  <2>7. CASE ~n.tree_deleted
    <3>1. tight => S # {}  BY <2>4, <2>7 DEF Tight
    <3>2. ASSUME tight PROVE Covers(box, m)
      <4> SUFFICES ASSUME NEW a \in Axes PROVE box.min[a] <= m.min[a] /\ m.max[a] < box.max[a]  BY DEF Covers
      <4> QED  BY <2>2, <2>3, <3>1, <3>2 DEF Tight, In
    <3>3. Holds(m, S, tight) /\ Count[m] = Count[n]  BY <2>1, PushedHolds
    <3>4. DeleteTree(m, sampling) # Nil  BY <2>2, <3>3, DeleteTreeHolds
    <3> QED  BY <2>2, <2>5, <2>7, <3>2, <3>4
  <2> QED  BY <2>6, <2>7
<1> QED  BY <1>2, <1>3

\* The points Add_Points chooses from, and the one it keeps.
BestOf(stored, p) ==
  CHOOSE q \in stored \union {p} : /\ \A o \in stored \union {p} : ~Nearer(o, q)
                                   /\ q = p \/ Nearer(q, p)

\* Add_Points, 510: of the points of the cell, one that is nearest to its centre is kept.
LEMMA BestIs ==
  ASSUME NEW stored, IsFiniteSet(stored), stored \subseteq Coordinates, NEW p \in Coordinates
  PROVE  BestOf(stored, p) \in stored \union {p} /\ \A o \in stored \union {p} : ~Nearer(o, BestOf(stored, p))
<1> DEFINE T == stored \union {p}
           f == [q \in T |-> -CentreDist(q)]
<1>1. \A q \in Coordinates : CentreDist(q) \in Int
  <2> TAKE q \in Coordinates
  <2>1. Size \in Nat \ {0} /\ \A i \in Int : Sqr(i) \in Int  BY NodeAssumption DEF Sqr
  <2>2. \A a \in Axes : q[a] \in Int /\ q[a] \div Size \in Int  BY <2>1 DEF Coordinates
  <2>3. \A a \in Axes : Cell(q).min[a] \in Int /\ Cell(q).max[a] \in Int  BY <2>1, <2>2 DEF Cell
  <2>4. \A a \in Axes : Sqr(2 * q[a] - (Cell(q).min[a] + Cell(q).max[a])) \in Int  BY <2>1, <2>2, <2>3
  <2>5. 1 \in Axes /\ 2 \in Axes /\ 3 \in Axes  BY DEF Axes
  <2> QED  BY <2>4, <2>5 DEF CentreDist, Sum3
<1>2. \A q \in T : q \in Coordinates /\ CentreDist(q) \in Int /\ f[q] = -CentreDist(q) /\ f[q] \in Int  BY <1>1
<1>3. IsFiniteSet(T) /\ T # {}  BY FS_AddElement
<1> HIDE DEF f
<1>4. PICK x \in T : \A y \in T : f[y] <= f[x]  BY <1>2, <1>3, FiniteGreatest
<1>5. \A y \in T : CentreDist(x) <= CentreDist(y)
  <2> TAKE y \in T
  <2>1. f[y] <= f[x] /\ CentreDist(y) \in Int /\ CentreDist(x) \in Int /\ f[y] = -CentreDist(y) /\ f[x] = -CentreDist(x)
    BY <1>2, <1>4
  <2> QED  BY <2>1
<1>6. \E q \in T : (\A o \in T : ~Nearer(o, q)) /\ (q = p \/ Nearer(q, p))
  <2>1. p \in T  OBVIOUS
  <2>2. CASE Nearer(x, p)  BY <1>2, <1>4, <1>5, <2>2 DEF Nearer
  <2>3. CASE ~Nearer(x, p)
    <3>1. \A o \in T : ~Nearer(o, p)
      <4> TAKE o \in T
      <4>1. CentreDist(x) <= CentreDist(o) /\ ~(CentreDist(x) < CentreDist(p))
            /\ CentreDist(x) \in Int /\ CentreDist(o) \in Int /\ CentreDist(p) \in Int
        BY <1>2, <1>4, <1>5, <2>1, <2>3 DEF Nearer
      <4> QED  BY <4>1 DEF Nearer
    <3> QED  BY <2>1, <3>1
  <2> QED  BY <2>2, <2>3
<1> QED  BY <1>6 DEF BestOf

\* The tree that the point that is kept is added to.
BaseOf(n, p) ==
  IF SearchByRange(n, Cell(p)).points = {} THEN SearchByRange(n, Cell(p)).tree
  ELSE DeleteByRange(SearchByRange(n, Cell(p)).tree, Cell(p), TRUE).tree

\* The corners of a cell.
LEMMA CellCorners ==
  ASSUME NEW p \in Coordinates PROVE Cell(p).min \in Coordinates /\ Cell(p).max \in Coordinates
<1>1. Size \in Nat \ {0}  BY NodeAssumption
<1>2. \A a \in Axes : p[a] \in Int /\ (p[a] \div Size) * Size \in Int  BY <1>1 DEF Coordinates
<1> QED  BY <1>1, <1>2 DEF Cell, Coordinates

\* Add_Points with downsampling: what is looked up, what is kept and what it is added to.
KeptOf(n, p) == BestOf(SearchByRange(n, Cell(p)).points, p)

\* What Add_Points adds to what.
LEMMA SampledHolds ==
  ASSUME NEW p \in Points, NEW tight, NEW n \in Trees, n # Nil, Good(n, tight), Count[n] + 1 <= MaxDepth
  PROVE  /\ SearchByRange(n, Cell(p)).points = {q \in Live[n] : In(q, Cell(p))}
         /\ Holds(SearchByRange(n, Cell(p)).tree, Live[n], tight)
         /\ Count[SearchByRange(n, Cell(p)).tree] = Count[n]
         /\ KeptOf(n, p) \in SearchByRange(n, Cell(p)).points \union {p}
         /\ \A o \in SearchByRange(n, Cell(p)).points \union {p} : ~Nearer(o, KeptOf(n, p))
         /\ tight => BaseOf(n, p) # Nil
         /\ BaseOf(n, p) # Nil =>
              /\ Holds(AddByPoint(BaseOf(n, p), KeptOf(n, p)), Outside(Live[n], Cell(p)) \union {KeptOf(n, p)}, tight)
              /\ Count[AddByPoint(BaseOf(n, p), KeptOf(n, p))] <= Count[n] + 1
<1> DEFINE box == Cell(p)
           S == Live[n]
           Z == Outside(S, box)
           search == SearchByRange(n, Cell(p))
           best == KeptOf(n, p)
           base == BaseOf(n, p)
<1>0. base = (IF search.points = {} THEN search.tree ELSE DeleteByRange(search.tree, box, TRUE).tree)
      /\ best = BestOf(search.points, p)
  BY DEF BaseOf, KeptOf
<1>1. p \in Coordinates /\ box.min \in Coordinates /\ box.max \in Coordinates  BY TreeAssumption, CellCorners
<1>2. Count[n] \in Nat /\ Count[n] <= MaxDepth  BY CountNat, DepthNat
<1> HIDE DEF box, search, best, base
<1>3. /\ search.points = {q \in S : In(q, box)}
      /\ Holds(search.tree, S, tight) /\ Count[search.tree] = Count[n]
  BY <1>1, <1>2, SearchRangeHolds DEF box, search
<1>4. search.tree # Nil /\ search.tree \in Trees /\ Good(search.tree, tight) /\ Live[search.tree] = S
  BY <1>3, CountNat DEF Holds
<1>5. S \subseteq Points /\ IsFiniteSet(S) /\ S \subseteq Coordinates
  BY LivePoints, TreeAssumption, FS_Subset
<1>6. best \in search.points \union {p} /\ \A o \in search.points \union {p} : ~Nearer(o, best)
  <2>1. IsFiniteSet(search.points) /\ search.points \subseteq Coordinates  BY <1>3, <1>5, FS_Subset
  <2> QED  BY <1>0, <1>1, <2>1, BestIs
<1>7. best \in Points /\ best \notin Z
  <2>1. In(p, box)  BY <1>1, CellsPart DEF box
  <2> QED  BY <1>3, <1>5, <1>6, <2>1 DEF Outside
<1>8. base # Nil => Holds(base, Z, tight) /\ Count[base] <= Count[n]
  <2>1. CASE search.points = {}
    <3>1. base = search.tree  BY <1>0, <2>1
    <3>2. Z = S  BY <1>3, <2>1 DEF Outside
    <3> QED  BY <1>2, <1>3, <3>1, <3>2
  <2>2. CASE search.points # {}
    <3>1. base = DeleteByRange(search.tree, box, TRUE).tree  BY <1>0, <2>2
    <3>2. /\ Holds(base, Outside(Live[search.tree], box), tight)
          /\ Count[base] <= Count[search.tree]
      <4> DEFINE x == search.tree
      <4>1. x \in Trees /\ Good(x, tight) /\ Count[x] <= MaxDepth  BY <1>2, <1>3, <1>4
      <4> HIDE DEF x
      <4>2. \A sampling \in BOOLEAN : /\ Holds(DeleteByRange(x, box, sampling).tree, Outside(Live[x], box), tight)
                                      /\ Count[DeleteByRange(x, box, sampling).tree] <= Count[x]
        BY <1>1, <4>1, DeleteRangeHolds
      <4> QED  BY <3>1, <4>2 DEF x
    <3> QED  BY <1>3, <1>4, <3>2
  <2> QED  BY <2>1, <2>2
<1>9. tight => base # Nil
  <2>1. CASE search.points = {}  BY <1>0, <1>4, <2>1
  <2>2. CASE search.points # {}
    <3>1. base = DeleteByRange(search.tree, box, TRUE).tree  BY <1>0, <2>2
    <3> QED  BY <1>1, <1>2, <1>3, <1>4, <3>1, RangeKeepsRoot
  <2> QED  BY <2>1, <2>2
<1>10. ASSUME base # Nil
       PROVE  /\ Holds(AddByPoint(base, best), Z \union {best}, tight)
              /\ AddByPoint(base, best) # Nil
              /\ Count[AddByPoint(base, best)] <= Count[n] + 1
  <2>1. base \in Trees /\ Good(base, tight) /\ Live[base] = Z /\ Count[base] <= Count[n] /\ Count[base] \in Nat
    BY <1>8, <1>10, CountNat DEF Holds
  <2>2. Count[base] + 1 <= MaxDepth  BY <1>2, <2>1, DepthNat
  <2>3. /\ Holds(AddByPoint(base, best), Live[base] \union {best}, tight) /\ AddByPoint(base, best) # Nil
        /\ Count[AddByPoint(base, best)] <= Count[base] + 1
    BY <1>7, <1>10, <2>1, <2>2, AddHolds
  <2>4. Count[AddByPoint(base, best)] \in Nat  BY <2>3, CountNat DEF Holds
  <2> QED  BY <1>2, <2>1, <2>3, <2>4
<1> QED  BY <1>3, <1>4, <1>6, <1>9, <1>10 DEF box, search, best, base

-----------------------------------------------------------------------------
(* The specification.                                                       *)

\* Nobody deletes single points.
Tidy == deletable = {}

TreeInv ==
  /\ deletable \in SUBSET Points /\ root \in Trees
  /\ crashed \in BOOLEAN /\ ops \in 0 .. MaxOps
  /\ Good(root, Tidy) /\ Count[root] <= Cardinality(Points) + ops
  /\ RootStays

\* What TreeInv says of the tree, in the terms of the operations.
LEMMA RootHolds ==
  ASSUME TreeInv
  PROVE  /\ root \in Trees /\ Good(root, Tidy) /\ Holds(root, Live[root], Tidy)
         /\ Count[root] \in Nat /\ Count[root] <= MaxDepth
         /\ Live[root] \in SUBSET Points /\ IsFiniteSet(Live[root])
         /\ ops < MaxOps => Count[root] + 1 <= MaxDepth
<1>1. root \in Trees /\ Good(root, Tidy) /\ Count[root] <= Cardinality(Points) + ops /\ ops \in 0 .. MaxOps
  BY DEF TreeInv
<1>2. Holds(root, Live[root], Tidy)  BY <1>1 DEF Holds
<1>3. Count[root] \in Nat /\ Live[root] \in SUBSET Points  BY <1>1, CountNat, LivePoints
<1>4. IsFiniteSet(Live[root])  BY <1>3, TreeAssumption, FS_Subset
<1>5. Count[root] <= MaxDepth /\ (ops < MaxOps => Count[root] + 1 <= MaxDepth)
  <2>1. MaxOps \in Nat /\ Cardinality(Points) \in Nat  BY TreeAssumption, DepthNat
  <2> QED  BY <1>1, <1>3, <2>1 DEF MaxDepth
<1> QED  BY <1>1, <1>2, <1>3, <1>4, <1>5

\* An operation that leaves a tree in order.
LEMMA StepKeeps ==
  ASSUME TreeInv, Step, NEW X, Holds(root', X, Tidy), Count[root'] <= Cardinality(Points) + ops + 1,
         crashed' \in BOOLEAN, Tidy => ~crashed'
  PROVE  TreeInv' /\ Contents' = X
<1>1. deletable' = deletable /\ ops' = ops + 1 /\ ops < MaxOps  BY DEF Step
<1>2. deletable \in SUBSET Points /\ ops \in 0 .. MaxOps  BY DEF TreeInv
<1>3. Tidy' = Tidy  BY <1>1 DEF Tidy
<1>4. root' \in Trees /\ Good(root', Tidy) /\ Live[root'] = X  BY DEF Holds
<1>5. Good(root', Tidy')  BY <1>3, <1>4
<1>6. Contents' = X  BY <1>4 DEF Contents
<1>7. MaxOps \in Nat /\ Cardinality(Points) \in Nat  BY TreeAssumption, DepthNat
<1>8. ops' \in 0 .. MaxOps /\ Count[root'] <= Cardinality(Points) + ops'
  <2>1. Count[root'] \in Nat  BY <1>4, CountNat
  <2> QED  BY <1>1, <1>2, <1>7, <2>1
<1>9. RootStays'  BY <1>3 DEF RootStays, Tidy
<1> QED  BY <1>1, <1>2, <1>4, <1>5, <1>6, <1>8, <1>9 DEF TreeInv

\* Before Build there is no tree, and the set is empty.
LEMMA TreeInit == Init => TreeInv /\ Map!Init
<1> SUFFICES ASSUME Init PROVE TreeInv /\ Map!Init  OBVIOUS
<1>1. root = Nil /\ last = [call |-> "KD_TREE"] /\ crashed = FALSE /\ ops = 0 /\ deletable \in SUBSET Points
  BY TreeAssumption DEF Init
<1>2. Holds(Nil, {}, Tidy) /\ Count[Nil] = 0 /\ Live[Nil] = {}  BY HoldsNothing, NoTree
<1>3. MaxOps \in Nat /\ Cardinality(Points) \in Nat  BY TreeAssumption, DepthNat
<1>4. root \in Trees /\ Good(root, Tidy) /\ Count[root] <= Cardinality(Points) + ops
  BY <1>1, <1>2, <1>3 DEF Holds
<1>5. TreeInv
  <2>1. crashed \in BOOLEAN /\ ~crashed  BY <1>1, Zenon
  <2>2. ops \in 0 .. MaxOps  BY <1>1, <1>3
  <2> QED  BY <1>1, <1>4, <2>1, <2>2 DEF TreeInv, RootStays
<1>6. Map!Init  BY <1>1, <1>2 DEF Map!Init, Contents
<1> QED  BY <1>5, <1>6

\* Each action keeps the tree in order and is a step of the set of points.
LEMMA BuildStep ==
  ASSUME TreeInv, NEW S \in SUBSET Points, Build(S)
  PROVE  TreeInv' /\ Map!Build(S)
<1>1. Step /\ root = Nil /\ root' = BuildTree[S] /\ crashed' = crashed
      /\ last' = [call |-> "Build", points |-> S]  BY DEF Build
<1>2. crashed \in BOOLEAN /\ (Tidy => ~crashed) /\ ops \in 0 .. MaxOps
  BY DEF TreeInv, RootStays, Tidy
<1>3. Holds(BuildTree[S], S, Tidy)  BY BuildHolds
<1>4. Holds(root', S, Tidy)  BY <1>1, <1>3
<1>5. Count[root'] <= Cardinality(Points) + ops + 1
  <2>1. Count[BuildTree[S]] = Cardinality(S)  BY BuildHolds
  <2>2. Cardinality(S) \in Nat /\ Cardinality(S) <= Cardinality(Points)  BY SizeNat
  <2> QED  BY <1>1, <1>2, <2>1, <2>2, DepthNat, TreeAssumption
<1>6. TreeInv' /\ Contents' = S  BY <1>1, <1>2, <1>4, <1>5, StepKeeps
<1>7. Contents = {}  BY <1>1, NoTree DEF Contents
<1> QED  BY <1>1, <1>6, <1>7 DEF Map!Build

LEMMA AddStep ==
  ASSUME TreeInv, NEW p \in Points, Add(p)
  PROVE  TreeInv' /\ Map!Add(p)
<1>1. /\ Step /\ root # Nil /\ p \notin Flatten[root].points /\ root' = AddByPoint(root, p)
      /\ last' = [call |-> "Add", point |-> p] /\ crashed' = crashed /\ ops < MaxOps
  BY DEF Add, Step
<1>2. crashed \in BOOLEAN /\ (Tidy => ~crashed) /\ ops \in 0 .. MaxOps
      /\ Count[root] <= Cardinality(Points) + ops
  BY DEF TreeInv, RootStays, Tidy
<1>3. root \in Trees /\ Good(root, Tidy) /\ Count[root] \in Nat /\ Count[root] + 1 <= MaxDepth /\ Count[root] <= MaxDepth
  BY <1>1, RootHolds
<1>4. p \notin Live[root]  BY <1>1, <1>3, FlattenHolds
<1> DEFINE X == Live[root] \union {p}
<1>5. Holds(root', X, Tidy) /\ Count[root'] <= Count[root] + 1  BY <1>1, <1>3, <1>4, AddHolds
<1> HIDE DEF X
<1>6. Count[root'] \in Nat /\ Count[root'] <= Cardinality(Points) + ops + 1
  BY <1>2, <1>3, <1>5, DepthNat, CountNat, TreeAssumption DEF Holds
<1>7. TreeInv' /\ Contents' = X  BY <1>1, <1>2, <1>5, <1>6, StepKeeps
<1>8. Contents' = Contents \union {p}  BY <1>7 DEF X, Contents
<1> QED  BY <1>1, <1>7, <1>8 DEF Map!Add

LEMMA DeleteStep ==
  ASSUME TreeInv, NEW p \in deletable, Delete(p)
  PROVE  TreeInv' /\ Map!Delete(p)
<1>1. Step /\ root' = DeleteByPoint(root, p) /\ crashed' = crashed /\ last' = [call |-> "Delete", point |-> p]
  BY DEF Delete
<1>2. /\ crashed \in BOOLEAN /\ (Tidy => ~crashed) /\ ops \in 0 .. MaxOps
      /\ Count[root] <= Cardinality(Points) + ops /\ p \in Points
  BY DEF TreeInv, RootStays, Tidy
<1>3. root \in Trees /\ Good(root, Tidy) /\ Count[root] \in Nat /\ Count[root] <= MaxDepth
  BY RootHolds
<1>4. ~Tidy  BY DEF Tidy
<1> DEFINE X == Live[root] \ {p}
<1>5. Holds(DeleteByPoint(root, p), X, Tidy) /\ Count[DeleteByPoint(root, p)] <= Count[root]
  BY <1>2, <1>3, <1>4, DeletePointHolds
<1> HIDE DEF X
<1>6. Count[root'] \in Nat /\ Count[root'] <= Cardinality(Points) + ops + 1
  BY <1>1, <1>2, <1>3, <1>5, DepthNat, CountNat, TreeAssumption DEF Holds
<1>7. TreeInv' /\ Contents' = X  BY <1>1, <1>2, <1>5, <1>6, StepKeeps
<1>8. Contents' = Contents \ {p}  BY <1>7 DEF Contents, X
<1> QED  BY <1>1, <1>7, <1>8 DEF Map!Delete

\* PointMap counts the same.
LEMMA SameCardinality == ASSUME NEW S PROVE Map!Cardinality(S) = Cardinality(S)
BY DEF Map!Cardinality, Cardinality

LEMMA DeleteBoxStep ==
  ASSUME TreeInv, NEW b \in Boxes, DeleteBox(b)
  PROVE  TreeInv' /\ Map!DeleteBox(b)
<1> DEFINE S == Live[root]
           X == Outside(S, b)
           d == DeleteByRange(root, b, FALSE)
<1>1. /\ Step /\ root' = d.tree /\ crashed' = crashed
      /\ last' = [call |-> "DeleteBox", box |-> b, count |-> d.count]
  BY DEF DeleteBox
<1>2. /\ crashed \in BOOLEAN /\ (Tidy => ~crashed) /\ ops \in 0 .. MaxOps
      /\ Count[root] <= Cardinality(Points) + ops
  BY DEF TreeInv, RootStays, Tidy
<1>3. root \in Trees /\ Good(root, Tidy) /\ Count[root] \in Nat /\ Count[root] <= MaxDepth
      /\ S \in SUBSET Points /\ IsFiniteSet(S)
  BY RootHolds
<1>4. b.min \in Coordinates /\ b.max \in Coordinates  BY TreeAssumption
<1>5. /\ Holds(d.tree, X, Tidy)
      /\ Count[d.tree] <= Count[root]
      /\ d.count = Cardinality(S \ X)
  <2>1. \A sampling \in BOOLEAN :
          /\ Holds(DeleteByRange(root, b, sampling).tree, Outside(Live[root], b), Tidy)
          /\ Count[DeleteByRange(root, b, sampling).tree] <= Count[root]
          /\ DeleteByRange(root, b, sampling).count = Cardinality(Live[root] \ Outside(Live[root], b))
    BY <1>3, <1>4, DeleteRangeHolds
  <2> QED  BY <2>1
<1>6. X \subseteq S  BY DEF Outside
<1> HIDE DEF S, X, d
<1>7. /\ IsFiniteSet(X) /\ IsFiniteSet(S \ X) /\ S = X \union (S \ X) /\ X \intersect (S \ X) = {}
      /\ S \ X \in SUBSET Points
  BY <1>3, <1>6, FS_Subset
<1>8. Cardinality(S) = Cardinality(X) + Cardinality(S \ X)  BY <1>7, DisjointUnion
<1>9. /\ Cardinality(S \ X) \in 0 .. Cardinality(Points) /\ Cardinality(S) \in Nat /\ Cardinality(X) \in Nat
  BY <1>3, <1>7, SizeNat, FS_CardinalityType, DepthNat
<1>10. Count[root'] \in Nat /\ Count[root'] <= Cardinality(Points) + ops + 1
  BY <1>1, <1>2, <1>3, <1>5, DepthNat, CountNat, TreeAssumption DEF Holds
<1>11. TreeInv' /\ Contents' = X  BY <1>1, <1>2, <1>5, <1>10, StepKeeps
<1>12. Contents = S /\ Contents' = Map!Trimmed(Contents, b)
  BY <1>11 DEF Contents, S, X, Outside, Map!Trimmed
<1>13. d.count = Cardinality(Contents) - Cardinality(Contents')
  BY <1>5, <1>8, <1>9, <1>11, <1>12
<1> QED  BY <1>1, <1>11, <1>12, <1>13, SameCardinality DEF Map!DeleteBox

\* A search that begins with an empty heap finds points than which none is nearer.
LEMMA FoundHolds ==
  ASSUME TreeInv, NEW t \in Targets, NEW k \in Wanted
  PROVE  LET F == Search(root, k, t, {}).heap
         IN  /\ F \subseteq Live[root]
             /\ Cardinality(F) = IF k <= Cardinality(Live[root]) THEN k ELSE Cardinality(Live[root])
             /\ \A p \in F, o \in Live[root] \ F : Dist(p, t) <= Dist(o, t)
<1> DEFINE S == Live[root]
           F == Search(root, k, t, {}).heap
<1>1. root \in Trees /\ Good(root, Tidy) /\ Count[root] <= MaxDepth /\ S \in SUBSET Points /\ IsFiniteSet(S)
  BY RootHolds
<1>2. t \in Coordinates /\ k \in Nat \ {0}  BY TreeAssumption
<1>3. Finds(root, S, k, t)  BY <1>1, <1>2, SearchHolds
<1>4. Cardinality(S) \in Nat  BY <1>1, FS_CardinalityType
<1> HIDE DEF S
<1>5. Nearest({}, k, t, {}) /\ {} \intersect S = {} /\ {} \union S = S /\ {} \in SUBSET Points
  BY <1>2, FS_EmptySet DEF Nearest
<1>6. Nearest(F, k, t, S)
  <2>1. Nearest(F, k, t, {} \union S)  BY <1>3, <1>5 DEF Finds
  <2> QED  BY <1>5, <2>1
<1> HIDE DEF F
<1>7. Cardinality(F) = IF k <= Cardinality(S) THEN k ELSE Cardinality(S)
  BY <1>2, <1>4, <1>6 DEF Nearest
<1> QED  BY <1>6, <1>7 DEF Nearest, F, S

LEMMA SearchStepHolds ==
  ASSUME TreeInv, NEW t \in Targets, NEW k \in Wanted, NearestSearch(t, k)
  PROVE  TreeInv' /\ Map!NearestSearch(t, k)
<1> DEFINE s == Search(root, k, t, {})
           X == Live[root]
<1>1. /\ Step /\ root' = s.tree /\ crashed' = crashed
      /\ last' = [call |-> "NearestSearch", target |-> t, wanted |-> k, found |-> s.heap]
  BY DEF NearestSearch
<1>2. /\ crashed \in BOOLEAN /\ (Tidy => ~crashed) /\ ops \in 0 .. MaxOps
      /\ Count[root] <= Cardinality(Points) + ops
  BY DEF TreeInv, RootStays, Tidy
<1>3. root \in Trees /\ Good(root, Tidy) /\ Count[root] \in Nat /\ Count[root] <= MaxDepth
  BY RootHolds
<1>4. t \in Coordinates /\ k \in Nat \ {0} /\ {} \in SUBSET Points  BY TreeAssumption
<1>5. Keeps(root, X, s, Tidy)
  <2>1. \A q \in SUBSET Points : Keeps(root, Live[root], Search(root, k, t, q), Tidy)
    BY <1>3, <1>4, SearchHolds
  <2> QED  BY <1>4, <2>1
<1>6. s.heap \in Map!NearestOf(X, t, k)
  <2>1. /\ s.heap \subseteq X
        /\ Cardinality(s.heap) = IF k <= Cardinality(X) THEN k ELSE Cardinality(X)
        /\ \A p \in s.heap, o \in X \ s.heap : Dist(p, t) <= Dist(o, t)
    BY FoundHolds
  <2> HIDE DEF s, X
  <2>2. Map!Cardinality(s.heap) = Cardinality(s.heap) /\ Map!Cardinality(X) = Cardinality(X)
    BY SameCardinality
  <2> QED  BY <2>1, <2>2 DEF Map!NearestOf
<1> HIDE DEF s, X
<1>7. Holds(root', X, Tidy) /\ Count[root'] = Count[root]  BY <1>1, <1>5 DEF Keeps
<1>8. Count[root'] <= Cardinality(Points) + ops + 1
  BY <1>2, <1>3, <1>7, DepthNat, TreeAssumption
<1>9. TreeInv' /\ Contents' = X  BY <1>1, <1>2, <1>7, <1>8, StepKeeps
<1>10. Contents = X  BY DEF Contents, X
<1> QED  BY <1>1, <1>6, <1>9, <1>10 DEF Map!NearestSearch

LEMMA AddDownsampledStep ==
  ASSUME TreeInv, NEW p \in Points, AddDownsampled(p)
  PROVE  TreeInv' /\ [Map!AddDownsampled(p)]_<<Contents, last>>
<1> DEFINE box == Cell(p)
           search == SearchByRange(root, Cell(p))
           stored == search.points
           best == KeptOf(root, p)
           base == BaseOf(root, p)
           S == Live[root]
           X == Outside(S, box) \union {best}
           one == Cardinality(stored) <= 1 /\ best # p
           named == [call |-> "AddDownsampled", point |-> p]
<1>1. /\ Step /\ root # Nil /\ ops < MaxOps
      /\ IF ~one /\ base = Nil THEN crashed' = TRUE /\ root' = root /\ last' = last
         ELSE /\ root' = IF one THEN search.tree ELSE AddByPoint(base, best)
              /\ last' = named /\ crashed' = crashed
  BY DEF AddDownsampled, BestOf, KeptOf, BaseOf, Step
<1>2. crashed \in BOOLEAN /\ (Tidy => ~crashed) /\ ops \in 0 .. MaxOps
      /\ Count[root] <= Cardinality(Points) + ops
  BY DEF TreeInv, RootStays, Tidy
<1>3. root \in Trees /\ Good(root, Tidy) /\ Count[root] \in Nat /\ Count[root] + 1 <= MaxDepth /\ Count[root] <= MaxDepth
      /\ Holds(root, S, Tidy) /\ S \in SUBSET Points /\ IsFiniteSet(S)
  BY <1>1, RootHolds
<1>4. /\ stored = {q \in S : In(q, box)}
      /\ Holds(search.tree, S, Tidy)
      /\ Count[search.tree] = Count[root]
      /\ best \in stored \union {p}
      /\ \A o \in stored \union {p} : ~Nearer(o, best)
      /\ base # Nil => /\ Holds(AddByPoint(base, best), X, Tidy)
                       /\ Count[AddByPoint(base, best)] <= Count[root] + 1
  <2>1. stored = {q \in S : In(q, box)}  BY <1>1, <1>3, SampledHolds
  <2>2. Holds(search.tree, S, Tidy) /\ Count[search.tree] = Count[root]  BY <1>1, <1>3, SampledHolds
  <2>3. best \in stored \union {p} /\ \A o \in stored \union {p} : ~Nearer(o, best)
    BY <1>1, <1>3, SampledHolds
  <2>4. base # Nil => /\ Holds(AddByPoint(base, best), X, Tidy)
                      /\ Count[AddByPoint(base, best)] <= Count[root] + 1
    BY <1>1, <1>3, SampledHolds
  <2> QED  BY <2>1, <2>2, <2>3, <2>4
<1>5. Tidy => base # Nil  BY <1>1, <1>3, SampledHolds
<1>6. In(p, box)  BY TreeAssumption, CellsPart
<1> HIDE DEF search, best, base, S, named
<1>7. Cardinality(Points) \in Nat /\ MaxOps \in Nat  BY DepthNat, TreeAssumption
<1>11. X \in Map!Sampled(S, p)
  <2> DEFINE cell == {q \in S : In(q, Cell(p))} \union {p}
  <2>1. cell = stored \union {p} /\ S \ cell = Outside(S, box)  BY <1>4, <1>6 DEF Outside
  <2>2. best \in {q \in cell : \A o \in cell : ~Nearer(o, q)}  BY <1>4, <2>1
  <2>3. X = (S \ cell) \union {best}  BY <2>1
  <2> HIDE DEF X
  <2> QED  BY <2>2, <2>3 DEF Map!Sampled
<1>8. CASE one
  <2>1. root' = search.tree /\ crashed' = crashed /\ last' = named  BY <1>1, <1>8
  <2>2. Holds(root', S, Tidy) /\ Count[root'] <= Cardinality(Points) + ops + 1  BY <1>2, <1>3, <1>4, <1>7, <2>1
  <2>3. TreeInv' /\ Contents' = S  BY <1>1, <1>2, <2>1, <2>2, StepKeeps
  <2>4. stored = {best} /\ p \notin stored
    <3>1. best \in stored /\ IsFiniteSet(stored) /\ Cardinality(stored) <= 1
      <4>1. stored \subseteq S  BY <1>4
      <4> QED  BY <1>3, <1>4, <1>8, <4>1, FS_Subset
    <3> HIDE DEF stored
    <3>2. Cardinality({best}) = 1 /\ {best} \subseteq stored  BY <3>1, FS_Singleton
    <3>3. Cardinality(stored) \in Nat /\ Cardinality({best}) <= Cardinality(stored)
      BY <3>1, <3>2, FS_Subset, FS_CardinalityType
    <3>4. {best} = stored  BY <3>1, <3>2, <3>3, FS_Subset
    <3> QED  BY <1>8, <3>4
  <2>5. X = S  BY <1>4, <2>4 DEF Outside
  <2>6. Contents' \in Map!Sampled(Contents, p)  BY <1>11, <2>3, <2>5 DEF Contents, S
  <2> QED  BY <2>1, <2>3, <2>6 DEF Map!AddDownsampled, named
<1>9. CASE ~one /\ base = Nil
  <2>1. crashed' = TRUE /\ root' = root /\ last' = last /\ ~Tidy  BY <1>1, <1>5, <1>9
  <2>2. Holds(root', S, Tidy) /\ Count[root'] <= Cardinality(Points) + ops + 1  BY <1>2, <1>3, <1>7, <2>1
  <2>3. crashed' \in BOOLEAN  BY <2>1, Zenon
  <2>4. TreeInv' /\ Contents' = S  BY <1>1, <1>2, <2>1, <2>2, <2>3, StepKeeps
  <2> QED  BY <2>1, <2>4 DEF Contents, S
<1>10. CASE ~one /\ base # Nil
  <2>1. root' = AddByPoint(base, best) /\ crashed' = crashed /\ last' = named  BY <1>1, <1>10
  <2> HIDE DEF X
  <2>2. Holds(root', X, Tidy) /\ Count[root'] <= Count[root] + 1  BY <1>4, <1>10, <2>1 DEF X
  <2>3. Count[root'] <= Cardinality(Points) + ops + 1
    <3>1. Count[root'] \in Nat  BY <2>2, CountNat DEF Holds
    <3> QED  BY <1>2, <1>3, <1>7, <2>2, <3>1
  <2>4. TreeInv' /\ Contents' = X  BY <1>1, <1>2, <2>1, <2>2, <2>3, StepKeeps
  <2>5. Contents' \in Map!Sampled(Contents, p)  BY <1>11, <2>4 DEF Contents, S
  <2> QED  BY <2>1, <2>4, <2>5 DEF Map!AddDownsampled, named
<1> QED  BY <1>8, <1>9, <1>10

\* Every step keeps the tree in order, and is one of the set of its points.
LEMMA TreeStep ==
  ASSUME TreeInv, [Next]_vars
  PROVE  TreeInv' /\ [Map!Next]_<<Contents, last>>
<1>1. CASE \E S \in SUBSET Points : Cardinality(S) >= BuildMin /\ Build(S)
  BY <1>1, BuildStep DEF Map!Next
<1>2. ASSUME NEW p \in Points, Add(p) PROVE TreeInv' /\ [Map!Next]_<<Contents, last>>
  BY <1>2, AddStep DEF Map!Next
<1>3. ASSUME NEW p \in Points, AddDownsampled(p) PROVE TreeInv' /\ [Map!Next]_<<Contents, last>>
  <2>1. TreeInv' /\ [Map!AddDownsampled(p)]_<<Contents, last>>  BY <1>3, AddDownsampledStep
  <2> QED  BY <2>1 DEF Map!Next
<1>4. ASSUME NEW p \in deletable, Delete(p) PROVE TreeInv' /\ [Map!Next]_<<Contents, last>>
  <2>1. p \in Points  BY DEF TreeInv
  <2>2. TreeInv' /\ Map!Delete(p)  BY <1>4, DeleteStep
  <2> QED  BY <2>1, <2>2 DEF Map!Next
<1>5. ASSUME NEW b \in Boxes, DeleteBox(b) PROVE TreeInv' /\ [Map!Next]_<<Contents, last>>
  <2>1. TreeInv' /\ Map!DeleteBox(b)  BY <1>5, DeleteBoxStep
  <2> QED  BY <2>1 DEF Map!Next
<1>6. ASSUME NEW t \in Targets, NEW k \in Wanted, NearestSearch(t, k)
      PROVE  TreeInv' /\ [Map!Next]_<<Contents, last>>
  <2>1. TreeInv' /\ Map!NearestSearch(t, k)  BY <1>6, SearchStepHolds
  <2> QED  BY <2>1 DEF Map!Next
<1>7. CASE UNCHANGED vars
  <2>1. deletable' = deletable /\ root' = root /\ last' = last /\ crashed' = crashed /\ ops' = ops
    BY <1>7 DEF vars
  <2>2. Tidy' = Tidy /\ RootStays' = RootStays /\ Contents' = Contents
    BY <2>1 DEF Tidy, RootStays, Contents
  <2> QED  BY <2>1, <2>2 DEF TreeInv
<1> QED  BY <1>1, <1>2, <1>3, <1>4, <1>5, <1>6, <1>7 DEF Next

\* The operations of the ikd-Tree, 380-610: whatever they are called with, the tree that
\* remains is in order.  This is the inductive invariant.
THEOREM IkdTreeInvariant == Spec => []TreeInv
<1>1. Init => TreeInv  BY TreeInit
<1>2. TreeInv /\ [Next]_vars => TreeInv'  BY TreeStep
<1> QED  BY <1>1, <1>2, PTL DEF Spec

\* Build, Add_Points, Delete_Points, Delete_Point_Boxes and Nearest_Search, 380-610: each
\* call does to the set of the points what it is called to do, with the points it is
\* called with, and returns what is true of that set.
THEOREM IkdTreeIsPointMap == Spec => IsPointMap
<1>1. Init => Map!Init  BY TreeInit
<1>2. TreeInv /\ [Next]_vars => [Map!Next]_(Map!mapVars)
  <2>1. Map!mapVars = <<Contents, last>>  BY DEF Map!mapVars
  <2> QED  BY <2>1, TreeStep DEF Map!mapVars
<1>3. Spec => []TreeInv  BY IkdTreeInvariant
<1> QED  BY <1>1, <1>2, <1>3, PTL DEF Spec, IsPointMap, Map!Spec

\* Update, 1475, Push_Down, 1372, and Delete_by_range, 787: every count is that of the
\* nodes and points it stands for, whatever is pending, and only what is empty is marked.
THEOREM IkdTreeCountsRight == Spec => []CountsRight
<1>1. TreeInv => CountsRight
  <2> SUFFICES ASSUME TreeInv PROVE CountsRight  OBVIOUS
  <2>1. ASSUME NEW n \in Nodes[root]
        PROVE  LET points == Live[n]
               IN  /\ n.TreeSize = Count[n]
                   /\ n.TreeSize - n.invalid_point_num = Cardinality(points)
                   /\ n.tree_deleted => points = {}
    <3>1. NodeGood(n, Tidy)  BY DEF TreeInv, Good
    <3> QED  BY <3>1 DEF NodeGood, Promises
  <2> QED  BY <2>1 DEF CountsRight
<1> QED  BY <1>1, IkdTreeInvariant, PTL

\* Update, 1480-1595: the range of every node takes in every point that is left of it.
THEOREM IkdTreeRangesCover == Spec => []RangesCover
<1>1. TreeInv => RangesCover
  <2> SUFFICES ASSUME TreeInv, NEW n \in Nodes[root], NEW p \in Live[n], NEW a \in Axes
               PROVE  n.min[a] <= p[a] /\ p[a] <= n.max[a]
    BY DEF RangesCover
  <2>1. NodeGood(n, Tidy)  BY DEF TreeInv, Good
  <2> QED  BY <2>1 DEF NodeGood, Promises, Lies
<1> QED  BY <1>1, IkdTreeInvariant, PTL

\* Rebuild, 754: the odometry, which deletes no single points, never finds the root gone.
THEOREM IkdTreeRootStays == Spec => []RootStays
<1>1. TreeInv => RootStays  BY DEF TreeInv
<1> QED  BY <1>1, IkdTreeInvariant, PTL

\* The number of points a search returns.
LEMMA LeastOfTwo ==
  ASSUME NEW i \in Int, NEW j \in Int
  PROVE  LeastOf({i, j}) = IF j <= i THEN j ELSE i
<1>1. CASE j <= i
  <2>1. j \in {i, j} /\ \A y \in {i, j} : j <= y  BY <1>1
  <2>2. \A x \in {i, j} : (\A y \in {i, j} : x <= y) => x = j  BY <1>1
  <2> QED  BY <1>1, <2>1, <2>2 DEF LeastOf
<1>2. CASE ~(j <= i)
  <2>1. i \in {i, j} /\ \A y \in {i, j} : i <= y  BY <1>2
  <2>2. \A x \in {i, j} : (\A y \in {i, j} : x <= y) => x = i  BY <1>2
  <2> QED  BY <1>2, <2>1, <2>2 DEF LeastOf
<1> QED  BY <1>1, <1>2

\* Nearest_Search, 426, and Search_by_range, 1247: what is found is what is there.
THEOREM IkdTreeSearchExact == Spec => []SearchExact
<1>1. TreeInv => SearchExact
  <2> SUFFICES ASSUME TreeInv PROVE SearchExact  OBVIOUS
  <2> DEFINE S == Live[root]
  <2>1. root \in Trees /\ Good(root, Tidy) /\ Count[root] <= MaxDepth /\ S \in SUBSET Points /\ IsFiniteSet(S)
    BY RootHolds
  <2>2. ASSUME NEW t \in Targets, NEW k \in Wanted
        PROVE  LET heap == Search(root, k, t, {}).heap
               IN  /\ heap \subseteq S
                   /\ Cardinality(heap) = LeastOf({k, Cardinality(S)})
                   /\ \A p \in heap, o \in S \ heap : Dist(p, t) <= Dist(o, t)
    <3>1. k \in Int /\ Cardinality(S) \in Int  BY <2>1, TreeAssumption, FS_CardinalityType
    <3>2. LeastOf({k, Cardinality(S)}) = IF Cardinality(S) <= k THEN Cardinality(S) ELSE k
      BY <3>1, LeastOfTwo
    <3>3. LeastOf({k, Cardinality(S)}) = IF k <= Cardinality(S) THEN k ELSE Cardinality(S)
      BY <3>1, <3>2
    <3> QED  BY <3>3, FoundHolds
  <2>3. ASSUME NEW b \in Boxes PROVE SearchByRange(root, b).points = {p \in S : In(p, b)}
    <3>1. b.min \in Coordinates /\ b.max \in Coordinates  BY TreeAssumption
    <3> QED  BY <2>1, <3>1, SearchRangeHolds
  <2> QED  BY <2>2, <2>3 DEF SearchExact, Contents
<1> QED  BY <1>1, IkdTreeInvariant, PTL

-----------------------------------------------------------------------------
(* The cube.                                                                *)

\* Before the first scan there is no tree, and without a tree no map.
Unplaced == (~initialized => ~built) /\ (~built => map = {})

\* No correction.
Origin == [i \in Dims |-> 0]

\* Where lasermap_fov_segment was last called, the lidar was away from the edges.
Followed ==
  initialized /\ ~outrun => \A i \in Dims : /\ cube[i].min + Threshold <= segmented[i]
                                            /\ segmented[i] < cube[i].max - Threshold

IInv == TypeOK /\ Unplaced /\ Followed /\ SurroundsLidar /\ MapInCube

-----------------------------------------------------------------------------
LEMMA Constants ==
  /\ cube_len \in Int /\ DET_RANGE \in Int /\ DET_RANGE > 0 /\ cube_len > 0
  /\ Threshold \in Int /\ Edge \in Int /\ Sight \in Int /\ mov_dist \in Int
  /\ mov_dist > 0 /\ Threshold = Sight + 10 * DET_RANGE /\ Edge = 20 * cube_len
  /\ Sight > 0
BY MapAssumption DEF Threshold, Edge, Sight, mov_dist

\* The cube has moved so that the lidar is away from its edges again.
LEMMA Centred ==
  ASSUME Roomy, TypeOK, NEW at \in Vectors, NEW i \in Dims,
         cube[i].max - cube[i].min = Edge,
         cube[i].min + Threshold - mov_dist <= at[i], cube[i].min - Threshold <= at[i],
         at[i] < cube[i].max - Threshold + mov_dist, at[i] <= cube[i].max + Threshold
  PROVE  /\ Moved(at) \in Cubes
         /\ Moved(at)[i].max - Moved(at)[i].min = Edge
         /\ Moved(at)[i].min + Threshold <= at[i]
         /\ at[i] < Moved(at)[i].max - Threshold
<1>1. /\ at[i] \in Int /\ cube \in Cubes
      /\ \A j \in Dims : cube[j].min \in Int /\ cube[j].max \in Int /\ cube[j] \in [min : Int, max : Int]
  BY DEF TypeOK, Cubes, Vectors
<1>2. Moved(at) \in Cubes  BY <1>1, Constants DEF Moved, Cubes
<1>3. CASE i \in Low(at)
  <2>1. Moved(at)[i] = [min |-> cube[i].min - mov_dist, max |-> cube[i].max - mov_dist]
    BY <1>3 DEF Moved
  <2>2. at[i] <= cube[i].min + Threshold  BY <1>1, <1>3, Constants DEF Low, Abs
  <2> QED  BY <1>1, <1>2, <2>1, <2>2, Constants DEF Roomy
<1>4. CASE i \notin Low(at) /\ i \in High(at)
  <2>1. Moved(at)[i] = [min |-> cube[i].min + mov_dist, max |-> cube[i].max + mov_dist]
    BY <1>4 DEF Moved
  <2>2. cube[i].max - Threshold <= at[i]  BY <1>1, <1>4, Constants DEF High, Abs
  <2> QED  BY <1>1, <1>2, <2>1, <2>2, Constants DEF Roomy
<1>5. CASE i \notin Low(at) /\ i \notin High(at)
  <2>1. Moved(at)[i] = cube[i]  BY <1>5 DEF Moved
  <2>2. cube[i].min + Threshold < at[i]  BY <1>1, <1>5, Constants DEF Low, Abs
  <2>3. at[i] < cube[i].max - Threshold  BY <1>1, <1>5, Constants DEF High, Abs
  <2> QED  BY <1>1, <1>2, <2>1, <2>2, <2>3, Constants
<1> QED  BY <1>3, <1>4, <1>5

\* The first scan places the cube around the lidar, every other one moves it.
LEMMA FovSegmentFollows ==
  ASSUME Roomy, IInv, NEW at \in Vectors, FovSegment(at)
  PROVE  /\ initialized' /\ cube' \in Cubes /\ segmented' = at /\ ~blind' /\ outrun' \in BOOLEAN
         /\ \A i \in Dims : cube'[i].max - cube'[i].min = Edge
         /\ Followed'
<1>1. segmented' = at /\ ~blind' /\ outrun' \in BOOLEAN /\ \A i \in Dims : at[i] \in Int
  BY DEF FovSegment, Vectors
<1>2. CASE ~initialized
  <2>1. Place(at)  BY <1>2 DEF FovSegment
  <2>2. \A i \in Dims : cube'[i] = [min |-> at[i] - 10 * cube_len, max |-> at[i] + 10 * cube_len]
    BY <2>1 DEF Place
  <2>3. cube' \in Cubes  BY <1>1, <2>1, Constants DEF Place, Cubes
  <2> QED  BY <1>1, <2>1, <2>2, <2>3, Constants DEF Place, Roomy, Followed
<1>3. CASE initialized
  <2>1. cube' = Moved(at) /\ initialized'  BY <1>3 DEF FovSegment, Segment
  <2>2. cube' \in Cubes
    BY <1>1, <2>1, Constants DEF IInv, TypeOK, Cubes, Moved
  <2>3. ASSUME NEW i \in Dims PROVE cube'[i].max - cube'[i].min = Edge
    BY <1>3, <2>1, Constants DEF IInv, TypeOK, Cubes, Moved
  <2>4. ASSUME NEW i \in Dims, ~outrun'
        PROVE  cube'[i].min + Threshold <= at[i] /\ at[i] < cube'[i].max - Threshold
    <3>1. ~outrun /\ Abs(at[i] - segmented[i]) <= mov_dist
          /\ Abs(at[i] - segmented[i]) <= 2 * Threshold
      <4>1. ~outrun /\ ~TooFar(at)  BY <1>3, <2>4 DEF FovSegment
      <4>2. segmented[i] \in Int  BY DEF IInv, TypeOK, Vectors
      <4>3. Abs(at[i] - segmented[i]) \in Int  BY <1>1, <4>2 DEF Abs
      <4> QED  BY <4>1, <4>3, Constants DEF TooFar
    <3>2. /\ cube[i].min + Threshold <= segmented[i]
          /\ segmented[i] < cube[i].max - Threshold
      BY <1>3, <3>1 DEF IInv, Followed
    <3>3. /\ segmented[i] \in Int /\ cube[i].min \in Int /\ cube[i].max \in Int
          /\ cube[i].max - cube[i].min = Edge
      BY <1>3 DEF IInv, TypeOK, Cubes, Vectors
    <3>4. /\ cube[i].min + Threshold - mov_dist <= at[i] /\ cube[i].min - Threshold <= at[i]
          /\ at[i] < cube[i].max - Threshold + mov_dist /\ at[i] <= cube[i].max + Threshold
      BY <1>1, <3>1, <3>2, <3>3, Constants DEF Abs
    <3> QED  BY <2>1, <3>3, <3>4, Centred DEF IInv
  <2> QED  BY <1>1, <2>1, <2>2, <2>3, <2>4 DEF Followed
<1> QED  BY <1>2, <1>3

\* Wherever the filter then corrects the position to, the lidar sees nothing
\* outside of the cube.
LEMMA SurroundsCorrected ==
  ASSUME Steady, NEW at \in Vectors, NEW c \in Corrections \union {Origin},
         pos_lid' = Plus(at, c), segmented' = at, cube' \in Cubes, Followed'
  PROVE  pos_lid' \in Vectors /\ SurroundsLidar'
<1>1. c \in Vectors  BY MapAssumption DEF Vectors, Origin
<1>2. /\ pos_lid' \in Vectors
      /\ \A i \in Dims : /\ pos_lid'[i] = at[i] + c[i] /\ at[i] \in Int /\ c[i] \in Int
                         /\ cube'[i].min \in Int /\ cube'[i].max \in Int
  BY <1>1 DEF Plus, Vectors, Cubes
<1>3. ASSUME NEW i \in Dims, initialized', ~outrun'
      PROVE  cube'[i].min <= pos_lid'[i] - Sight /\ pos_lid'[i] + Sight < cube'[i].max
  <2>1. -(10 * DET_RANGE) <= c[i] /\ c[i] <= 10 * DET_RANGE
    <3>1. Abs(c[i]) <= 10 * DET_RANGE  BY Constants DEF Steady, Origin, Abs
    <3> QED  BY <1>2, <3>1, Constants DEF Abs
  <2>2. cube'[i].min + Threshold <= at[i] /\ at[i] < cube'[i].max - Threshold
    BY <1>3 DEF Followed
  <2> QED  BY <1>2, <2>1, <2>2, Constants
<1> QED  BY <1>2, <1>3 DEF SurroundsLidar

\* The points that stay lie in the cube that has moved.
LEMMA KeptInCube ==
  ASSUME IInv, ~outrun, NEW at \in Vectors, NEW p \in Kept(at)
  PROVE  p \in map /\ InBox(p, Moved(at))
<1>1. /\ p \in map /\ InBox(p, cube) /\ cube \in Cubes
      /\ \A b \in cub_needrm(at) : ~InBox(p, b)
      /\ \A i \in Dims : p[i] \in Int /\ cube[i].min \in Int /\ cube[i].max \in Int
  BY MapAssumption DEF IInv, TypeOK, MapInCube, Kept, Cubes, Vectors
<1>2. ASSUME NEW i \in Dims
      PROVE  Moved(at)[i].min <= p[i] /\ p[i] < Moved(at)[i].max
  <2>1. cube[i].min <= p[i] /\ p[i] < cube[i].max  BY <1>1 DEF InBox
  <2>2. CASE i \in Low(at)
    <3> DEFINE b == [cube EXCEPT ![i].min = cube[i].max - mov_dist]
    <3>1. b \in cub_needrm(at)  BY <2>2 DEF cub_needrm
    <3>2. ~InBox(p, b)  BY <1>1, <3>1
    <3>3. p[i] < cube[i].max - mov_dist
      <4>1. SUFFICES ASSUME cube[i].max - mov_dist <= p[i] PROVE FALSE
        BY <1>1, Constants
      <4>2. \A j \in Dims : b[j].min <= p[j] /\ p[j] < b[j].max
        BY <1>1, <2>1, <4>1 DEF InBox, Cubes
      <4> QED  BY <3>2, <4>2 DEF InBox
    <3>4. Moved(at)[i] = [min |-> cube[i].min - mov_dist, max |-> cube[i].max - mov_dist]
      BY <2>2 DEF Moved
    <3> QED  BY <1>1, <2>1, <3>3, <3>4, Constants
  <2>3. CASE i \notin Low(at) /\ i \in High(at)
    <3> DEFINE b == [cube EXCEPT ![i].max = cube[i].min + mov_dist]
    <3>1. b \in cub_needrm(at)  BY <2>3 DEF cub_needrm
    <3>2. ~InBox(p, b)  BY <1>1, <3>1
    <3>3. cube[i].min + mov_dist <= p[i]
      <4>1. SUFFICES ASSUME p[i] < cube[i].min + mov_dist PROVE FALSE
        BY <1>1, Constants
      <4>2. \A j \in Dims : b[j].min <= p[j] /\ p[j] < b[j].max
        BY <1>1, <2>1, <4>1 DEF InBox, Cubes
      <4> QED  BY <3>2, <4>2 DEF InBox
    <3>4. Moved(at)[i] = [min |-> cube[i].min + mov_dist, max |-> cube[i].max + mov_dist]
      BY <2>3 DEF Moved
    <3> QED  BY <1>1, <2>1, <3>3, <3>4, Constants
  <2>4. CASE i \notin Low(at) /\ i \notin High(at)
    BY <1>1, <2>1, <2>4 DEF Moved
  <2> QED  BY <2>2, <2>3, <2>4
<1> QED  BY <1>1, <1>2 DEF InBox

\* What the lidar sees lies in a cube that surrounds it.
LEMMA NearInCube ==
  ASSUME pos_lid' \in Vectors, cube' \in Cubes, initialized', ~blind', ~outrun',
         SurroundsLidar', NEW p \in World, Near(p, pos_lid')
  PROVE  \A i \in Dims : cube'[i].min <= p[i] /\ p[i] < cube'[i].max
<1> SUFFICES ASSUME NEW i \in Dims PROVE cube'[i].min <= p[i] /\ p[i] < cube'[i].max
  OBVIOUS
<1>1. /\ p[i] \in Int /\ pos_lid'[i] \in Int /\ cube'[i].min \in Int /\ cube'[i].max \in Int
      /\ Abs(p[i] - pos_lid'[i]) <= Sight
      /\ cube'[i].min <= pos_lid'[i] - Sight /\ pos_lid'[i] + Sight < cube'[i].max
  BY MapAssumption DEF Vectors, Cubes, Near, SurroundsLidar
<1>2. pos_lid'[i] - Sight <= p[i] /\ p[i] <= pos_lid'[i] + Sight
  BY <1>1, Constants DEF Abs
<1> QED  BY <1>1, <1>2, Constants

-----------------------------------------------------------------------------
LEMMA IInit == MapInit => IInv
<1> SUFFICES ASSUME MapInit PROVE IInv  OBVIOUS
<1>1. pos_lid \in Vectors /\ cube \in Cubes  BY DEF MapInit, Vectors, Cubes
<1> QED
  BY <1>1 DEF MapInit, IInv, TypeOK, Unplaced, Followed, SurroundsLidar, MapInCube

\* What the three actions that call lasermap_fov_segment have in common.
LEMMA IScan ==
  ASSUME Roomy, Steady, IInv, NEW d \in Steps, NEW c \in Corrections \union {Origin},
         NEW at, at = Plus(pos_lid, d), FovSegment(at), pos_lid' = Plus(at, c),
         NEW S \in SUBSET Seen(pos_lid'), NEW T \in SUBSET Trimmed(at), map' = T \union S,
         built' \in BOOLEAN, built' \/ (map' = {})
  PROVE  IInv'
<1>1. at \in Vectors  BY MapAssumption DEF IInv, TypeOK, Vectors, Plus
<1>2. /\ initialized' /\ cube' \in Cubes /\ segmented' = at /\ ~blind' /\ outrun' \in BOOLEAN
      /\ \A i \in Dims : cube'[i].max - cube'[i].min = Edge
      /\ Followed'
  BY <1>1, FovSegmentFollows
<1>3. pos_lid' \in Vectors /\ SurroundsLidar'  BY <1>1, <1>2, SurroundsCorrected
<1>4. map' \subseteq World  BY DEF IInv, TypeOK, Trimmed, Kept, Seen
<1>5. initialized' = TRUE /\ blind' \in BOOLEAN
  BY <1>2 DEF FovSegment, Place, Segment, IInv, TypeOK
<1>6. TypeOK'  BY <1>1, <1>2, <1>3, <1>4, <1>5 DEF TypeOK
<1>7. MapInCube'
  <2> SUFFICES ASSUME ~outrun', NEW p \in map'
               PROVE \A i \in Dims : cube'[i].min <= p[i] /\ p[i] < cube'[i].max
    BY DEF MapInCube, InBox
  <2>1. CASE p \in S
    BY <1>2, <1>3, <1>4, <2>1, NearInCube DEF Seen
  <2>2. CASE p \in Trimmed(at)
    <3>1. initialized /\ ~outrun
      BY <2>2 DEF Trimmed, IInv, Unplaced, FovSegment
    <3>2. p \in Kept(at) /\ cube' = Moved(at)  BY <2>2, <3>1 DEF Trimmed, FovSegment, Segment
    <3> QED  BY <1>1, <3>1, <3>2, KeptInCube DEF InBox
  <2> QED  BY <2>1, <2>2
<1>8. Unplaced'  BY <1>2 DEF Unplaced
<1> QED  BY <1>2, <1>3, <1>6, <1>7, <1>8 DEF IInv

LEMMA NoCorrection ==
  ASSUME NEW at \in Vectors PROVE at = Plus(at, Origin)
BY DEF Plus, Origin, Vectors

LEMMA INext == ASSUME Roomy, Steady, IInv, [MapNext]_mapVars PROVE IInv'
<1>1. ASSUME NEW d \in Steps, NoPoints(Plus(pos_lid, d)) PROVE IInv'
  <2>1. pos_lid' \in Vectors  BY <1>1, MapAssumption DEF NoPoints, IInv, TypeOK, Vectors, Plus
  <2> QED
    BY <1>1, <2>1 DEF NoPoints, IInv, TypeOK, Unplaced, Followed, SurroundsLidar, MapInCube, InBox
<1>2. ASSUME NEW d \in Steps, Skip(Plus(pos_lid, d)) PROVE IInv'
  <2> DEFINE at == Plus(pos_lid, d)
  <2>1. FovSegment(at) /\ pos_lid' = at /\ map' = Trimmed(at) /\ built' = built
    BY <1>2 DEF Skip
  <2>2. at \in Vectors  BY <2>1, MapAssumption DEF IInv, TypeOK, Vectors, Plus
  <2>3. pos_lid' = Plus(at, Origin)  BY <2>1, <2>2, NoCorrection
  <2>4. built' \in BOOLEAN /\ (built' \/ map' = {})
    BY <2>1 DEF IInv, TypeOK, Unplaced, Trimmed, Kept
  <2>5. map' = Trimmed(at) \union {} /\ {} \in SUBSET Seen(pos_lid')  BY <2>1
  <2> HIDE DEF at
  <2> QED  BY <2>1, <2>3, <2>4, <2>5, IScan DEF at
<1>3. ASSUME NEW d \in Steps, BuildMap(Plus(pos_lid, d)) PROVE IInv'
  <2> DEFINE at == Plus(pos_lid, d)
  <2>1. FovSegment(at) /\ pos_lid' = at /\ map' \in SUBSET Seen(at) /\ built' = TRUE
    BY <1>3 DEF BuildMap
  <2>2. at \in Vectors  BY <2>1, MapAssumption DEF IInv, TypeOK, Vectors, Plus
  <2>3. pos_lid' = Plus(at, Origin)  BY <2>1, <2>2, NoCorrection
  <2>4. map' = {} \union map' /\ {} \in SUBSET Trimmed(at) /\ map' \in SUBSET Seen(pos_lid')
    BY <2>1
  <2> HIDE DEF at
  <2> QED  BY <2>1, <2>3, <2>4, IScan DEF at
<1>4. ASSUME NEW d \in Steps, NEW c \in Corrections, UpdateMap(Plus(pos_lid, d), c) PROVE IInv'
  <2> DEFINE at == Plus(pos_lid, d)
  <2>1. FovSegment(at) /\ pos_lid' = Plus(at, c) /\ built' = built /\ built
    BY <1>4 DEF UpdateMap
  <2>2. PICK S \in SUBSET Seen(pos_lid') : map' = Trimmed(at) \union S  BY <1>4 DEF UpdateMap
  <2>3. built' \in BOOLEAN /\ built'  BY <2>1 DEF IInv, TypeOK
  <2> HIDE DEF at
  <2> QED  BY <2>1, <2>2, <2>3, IScan DEF at
<1>5. CASE UNCHANGED mapVars
  BY <1>5 DEF mapVars, IInv, TypeOK, Unplaced, Followed, SurroundsLidar, MapInCube
<1> QED  BY <1>1, <1>2, <1>3, <1>4, <1>5 DEF MapNext

-----------------------------------------------------------------------------
\* A strip the cube leaves is farther from the lidar than it sees, however far
\* the lidar has gone since the cube moved last.
LEMMA SeenIsKept ==
  ASSUME Roomy, Steady, IInv, NEW at \in Vectors, initialized,
         NEW c \in Corrections \union {Origin}, pos_lid' = Plus(at, c),
         NEW p \in map, Near(p, pos_lid')
  PROVE  p \in Kept(at)
<1>1. \A i \in Dims : /\ p[i] \in Int /\ cube[i].min \in Int /\ cube[i].max \in Int
                      /\ at[i] \in Int /\ cube[i] \in [min : Int, max : Int]
                      /\ cube[i].max - cube[i].min = Edge
  BY MapAssumption DEF IInv, TypeOK, Cubes, Vectors
<1>2. ASSUME NEW i \in Dims PROVE at[i] - Threshold <= p[i] /\ p[i] <= at[i] + Threshold
  <2>1. c \in Vectors  BY MapAssumption DEF Vectors, Origin
  <2>2. c[i] \in Int /\ pos_lid'[i] = at[i] + c[i]  BY <2>1 DEF Plus, Vectors
  <2>3. Abs(c[i]) <= 10 * DET_RANGE  BY Constants DEF Steady, Origin, Abs
  <2>4. Abs(p[i] - pos_lid'[i]) <= Sight  BY DEF Near
  <2> QED  BY <1>1, <2>2, <2>3, <2>4, Constants DEF Abs
<1>3. ASSUME NEW i \in Low(at) PROVE ~InBox(p, [cube EXCEPT ![i].min = cube[i].max - mov_dist])
  <2>1. i \in Dims /\ Abs(at[i] - cube[i].min) <= Threshold  BY DEF Low
  <2>2. at[i] <= cube[i].min + Threshold  BY <1>1, <2>1, Constants DEF Abs
  <2>3. p[i] < cube[i].max - mov_dist  BY <1>1, <1>2, <2>1, <2>2, Constants DEF Roomy
  <2>4. [cube EXCEPT ![i].min = cube[i].max - mov_dist][i].min = cube[i].max - mov_dist
    BY <1>1, <2>1 DEF IInv, TypeOK, Cubes
  <2> QED  BY <1>1, <2>1, <2>3, <2>4, Constants DEF InBox
<1>4. ASSUME NEW i \in High(at) PROVE ~InBox(p, [cube EXCEPT ![i].max = cube[i].min + mov_dist])
  <2>1. i \in Dims /\ Abs(at[i] - cube[i].max) <= Threshold  BY DEF High
  <2>2. cube[i].max - Threshold <= at[i]  BY <1>1, <2>1, Constants DEF Abs
  <2>3. cube[i].min + mov_dist <= p[i]  BY <1>1, <1>2, <2>1, <2>2, Constants DEF Roomy
  <2>4. [cube EXCEPT ![i].max = cube[i].min + mov_dist][i].max = cube[i].min + mov_dist
    BY <1>1, <2>1 DEF IInv, TypeOK, Cubes
  <2> QED  BY <1>1, <2>1, <2>3, <2>4, Constants DEF InBox
<1> QED  BY <1>3, <1>4 DEF Kept, cub_needrm

LEMMA SeenNext ==
  ASSUME Roomy, Steady, IInv, [MapNext]_mapVars
  PROVE  [\A p \in map : Near(p, pos_lid') => p \in map']_mapVars
<1> SUFFICES ASSUME MapNext, NEW p \in map, Near(p, pos_lid') PROVE p \in map'
  OBVIOUS
<1>1. built /\ initialized  BY DEF IInv, Unplaced
<1>2. PICK d \in Steps : \/ NoPoints(Plus(pos_lid, d))
                         \/ Skip(Plus(pos_lid, d))
                         \/ \E c \in Corrections : UpdateMap(Plus(pos_lid, d), c)
  BY <1>1 DEF MapNext, BuildMap
<1> DEFINE at == Plus(pos_lid, d)
<1>3. at \in Vectors  BY MapAssumption DEF IInv, TypeOK, Vectors, Plus
<1>4. CASE NoPoints(at)  BY <1>4 DEF NoPoints
<1>5. CASE Skip(at)
  <2>1. pos_lid' = Plus(at, Origin) /\ map' = Kept(at)
    BY <1>1, <1>3, <1>5, NoCorrection DEF Skip, Trimmed
  <2> HIDE DEF at
  <2> QED  BY <1>1, <1>3, <2>1, SeenIsKept
<1>6. ASSUME NEW c \in Corrections, UpdateMap(at, c) PROVE p \in map'
  <2>1. pos_lid' = Plus(at, c) /\ Kept(at) \subseteq map'
    BY <1>1, <1>6 DEF UpdateMap, Trimmed
  <2> HIDE DEF at
  <2> QED  BY <1>1, <1>3, <2>1, SeenIsKept
<1> QED  BY <1>2, <1>4, <1>5, <1>6

-----------------------------------------------------------------------------
\* lasermap_fov_segment: every variable has its type and the cube its size.
THEOREM TypeCorrect == ASSUME Roomy, Steady PROVE MapSpec => []TypeOK
<1>1. IInv /\ [MapNext]_mapVars => IInv'  BY INext
<1>2. IInv => TypeOK  BY DEF IInv
<1> QED  BY <1>1, <1>2, IInit, PTL DEF MapSpec

\* lasermap_fov_segment: after a scan with points all the lidar can see lies in the
\* cube, on every path along which no two calls are too far apart.
THEOREM CubeFollows == ASSUME Roomy, Steady PROVE MapSpec => []SurroundsLidar
<1>1. IInv /\ [MapNext]_mapVars => IInv'  BY INext
<1>2. IInv => SurroundsLidar  BY DEF IInv
<1> QED  BY <1>1, <1>2, IInit, PTL DEF MapSpec

\* lasermap_fov_segment: no point of the map is left behind outside of the cube, on
\* every path along which no two calls are too far apart.
THEOREM NothingLeftBehind == ASSUME Roomy, Steady PROVE MapSpec => []MapInCube
<1>1. IInv /\ [MapNext]_mapVars => IInv'  BY INext
<1>2. IInv => MapInCube  BY DEF IInv
<1> QED  BY <1>1, <1>2, IInit, PTL DEF MapSpec

\* lasermap_fov_segment: no point is deleted that the lidar can see, on every path.
THEOREM SeenPointsStay == ASSUME Roomy, Steady PROVE MapSpec => SeenStays
<1>1. IInv /\ [MapNext]_mapVars => IInv'  BY INext
<1>2. IInv /\ [MapNext]_mapVars => [\A p \in map : Near(p, pos_lid') => p \in map']_mapVars
  BY SeenNext
<1> QED  BY <1>1, <1>2, IInit, PTL DEF MapSpec, SeenStays
=============================================================================
