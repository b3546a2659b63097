------------------------------ MODULE RingIndex ------------------------------
(***************************************************************************)
(* Index arithmetic of the driver's point cloud ring (comm/ldq.cpp).       *)
(*                                                                         *)
(* rd_idx and wr_idx are uint32_t counters that are never reset while the  *)
(* driver runs: they wrap at 2^32, and the slot of an index is its low     *)
(* bits (index & mask).  Width stands for 2^32 and Size for the number of  *)
(* slots, a power of two and therefore a divisor of Width.                 *)
(***************************************************************************)
EXTENDS Integers

CONSTANTS
  Size,   \* queue->size, RoundupPowerOf2(CalculatePacketQueueSize(freq))
  Width   \* number of values of an index, 2^32 in the code

ASSUME RingAssumption ==
  /\ Size \in Nat \ {0}
  /\ Width \in Nat
  /\ Width > Size
  /\ \E k \in 1 .. Width : Width = Size * k

Indices == 0 .. Width - 1
Slots   == 0 .. Size - 1

\* ++idx on a uint32_t.
Succ(i) == IF i = Width - 1 THEN 0 ELSE i + 1

\* wr - rd on uint32_t: the number of increments that take rd to wr.
Used(w, r) == IF w >= r THEN w - r ELSE w - r + Width

\* idx & mask
Slot(i) == i % Size

\* Mutant of QueueIsFull: one frame too many.
QueueIsFullLate(w, r) == Used(w, r) > Size

QueueIsFull(w, r)  == Used(w, r) > Size - 1
QueueIsEmpty(w, r) == r = w
=============================================================================
