-------------------------- MODULE PointCloudProofs --------------------------
(***************************************************************************)
(* The point cloud path for any number of lidars, any ring size that       *)
(* divides the width of the indices and any interleaving of the threads.   *)
(***************************************************************************)
EXTENDS PointCloudProperties, TLAPS

-----------------------------------------------------------------------------
(* The index arithmetic of the ring.                                       *)

LEMMA MulAtLeast ==
  ASSUME NEW s \in Nat \ {0}, NEW k \in Int, k > 0
  PROVE  s * k >= s
BY SMT

LEMMA MulAtMost ==
  ASSUME NEW s \in Nat \ {0}, NEW k \in Int, k <= 0
  PROVE  s * k <= 0
BY SMT

LEMMA ModDiv ==
  ASSUME NEW i \in Nat, NEW s \in Nat \ {0}
  PROVE  /\ i % s \in 0 .. s-1
         /\ i \div s \in Int
         /\ i = s * (i \div s) + (i % s)
BY SMT

(* A difference of less than s that is a multiple of s is 0.               *)
LEMMA NoSmallMultiple ==
  ASSUME NEW s \in Nat \ {0}, NEW k \in Int, s * k > 0
  PROVE  s * k >= s
<1>1. k > 0  BY MulAtMost
<1> QED  BY <1>1, MulAtLeast

LEMMA SuccType ==
  ASSUME NEW i \in Indices
  PROVE  Succ(i) \in Indices
BY RingAssumption DEF Succ, Indices

LEMMA UsedType ==
  ASSUME NEW w \in Indices, NEW r \in Indices
  PROVE  /\ Used(w, r) \in 0 .. Width - 1
         /\ Used(w, r) = 0 <=> w = r
BY RingAssumption DEF Used, Indices

(* Advancing the leading index adds one to the distance, advancing the     *)
(* trailing one takes one off, also when the counter wraps.                *)
LEMMA UsedSuccW ==
  ASSUME NEW w \in Indices, NEW r \in Indices, Used(w, r) < Width - 1
  PROVE  Used(Succ(w), r) = Used(w, r) + 1
BY RingAssumption DEF Used, Indices, Succ

LEMMA UsedSuccR ==
  ASSUME NEW w \in Indices, NEW r \in Indices, w # r
  PROVE  Used(w, Succ(r)) = Used(w, r) - 1
BY RingAssumption DEF Used, Indices, Succ

(* Distances add up as long as the sum stays below the width.              *)
LEMMA UsedAdd ==
  ASSUME NEW a \in Indices, NEW b \in Indices, NEW c \in Indices,
         Used(a, b) + Used(b, c) < Width
  PROVE  Used(a, c) = Used(a, b) + Used(b, c)
BY RingAssumption DEF Used, Indices

(* Two indices less than a ring apart have different slots, and the slot   *)
(* of the next index after a wrap follows that of the last.                *)
LEMMA SlotsDiffer ==
  ASSUME NEW w \in Indices, NEW r \in Indices,
         0 < Used(w, r), Used(w, r) < Size
  PROVE  Slot(w) # Slot(r)
<1>0. Size \in Nat \ {0} /\ w \in Nat /\ r \in Nat  BY RingAssumption DEF Indices
<1> DEFINE qw == w \div Size  qr == r \div Size
<1>1. /\ qw \in Int /\ w = Size * qw + Slot(w)
      /\ qr \in Int /\ r = Size * qr + Slot(r)
      /\ Slot(w) \in Int /\ Slot(r) \in Int
  BY <1>0, ModDiv DEF Slot
<1>2. PICK k \in 1 .. Width : Width = Size * k  BY RingAssumption
<1> SUFFICES ASSUME Slot(w) = Slot(r) PROVE FALSE  OBVIOUS
<1> HIDE DEF qw, qr
<1>3. CASE w >= r
  <2>1. Used(w, r) = w - r  BY <1>3 DEF Used
  <2>2. w - r = Size * (qw - qr)  BY <1>0, <1>1, SMT
  <2>3. qw - qr \in Int  BY <1>1
  <2> QED  BY <1>0, <2>1, <2>2, <2>3, NoSmallMultiple
<1>4. CASE w < r
  <2>1. Used(w, r) = w - r + Width  BY <1>0, <1>4 DEF Used
  <2>2. w - r + Width = Size * (qw - qr + k)  BY <1>0, <1>1, <1>2, SMT
  <2>3. qw - qr + k \in Int  BY <1>1, <1>2
  <2> QED  BY <1>0, <2>1, <2>2, <2>3, NoSmallMultiple
<1> QED  BY <1>0, <1>3, <1>4

-----------------------------------------------------------------------------
(* The invariants.                                                         *)

LEMMA TypeInit == Init => TypeOK
<1> SUFFICES ASSUME Init PROVE TypeOK  OBVIOUS
<1>1. 0 \in Lidars /\ 0 \in 0 .. LidarCount  BY PipelineAssumption DEF Lidars
<1>2. 0 \in Indices  BY RingAssumption DEF Indices
<1> QED  BY <1>1, <1>2 DEF Init, TypeOK, StorePCs, PollPCs, AtLidarPCs

LEMMA SlotType == ASSUME NEW i \in Indices PROVE Slot(i) \in Slots
<1>1. i \in Nat /\ Size \in Nat \ {0}  BY RingAssumption DEF Indices
<1> QED  BY <1>1, ModDiv DEF Slot, Slots

LEMMA TypeNext == TypeOK /\ [Next]_vars => TypeOK'
<1> SUFFICES ASSUME TypeOK, [Next]_vars PROVE TypeOK'  OBVIOUS
<1> USE DEF StorePCs, PollPCs, AtLidarPCs
<1>1. ASSUME NEW l \in Lidars, NEW f \in Frames, BeginPush(l, f) PROVE TypeOK'
  BY <1>1 DEF TypeOK, BeginPush, pollVars, mainVars
<1>2. CASE CheckFull
  BY <1>2 DEF TypeOK, CheckFull, ringVars, pollVars, mainVars
<1>3. CASE WriteSlot
  <2>1. Slot(wr_own[store_lidar]) \in Slots  BY SlotType DEF TypeOK
  <2>2. storage_packet' \in [Lidars -> [Slots -> Frames \union {NoFrame}]]
    BY <1>3, <2>1 DEF TypeOK, WriteSlot
  <2> QED  BY <1>3, <2>2 DEF TypeOK, WriteSlot, pollVars, mainVars
<1>4. CASE AdvanceWr
  <2>1. wr_own' \in [Lidars -> Indices]  BY <1>4, SuccType DEF TypeOK, AdvanceWr
  <2> QED  BY <1>4, <2>1 DEF TypeOK, AdvanceWr, pollVars, mainVars
<1>5. CASE CheckEmpty
  BY <1>5 DEF TypeOK, CheckEmpty, ringVars, pollVars, mainVars
<1>6. CASE ReadCount
  BY <1>6 DEF TypeOK, ReadCount, ringVars, pollVars, mainVars
<1>7. CASE Signal
  BY <1>7 DEF TypeOK, Signal, ringVars, pollVars, mainVars
<1>8. CASE CheckExit
  BY <1>8 DEF TypeOK, CheckExit, ringVars, storeVars, mainVars
<1>9. CASE Wait
  BY <1>9, PipelineAssumption DEF TypeOK, Wait, ringVars, storeVars, mainVars
<1>10. CASE Scan
  BY <1>10, PipelineAssumption DEF TypeOK, Scan, ringVars, storeVars, mainVars, Lidars
<1>11. CASE Poll
  BY <1>11, PipelineAssumption DEF TypeOK, Poll, ringVars, storeVars, mainVars, Lidars
<1>12. CASE CheckQueue
  BY <1>12 DEF TypeOK, CheckQueue, ringVars, storeVars, mainVars
<1>13. CASE CopySlot
  <2>1. Slot(rd_own[poll_lidar]) \in Slots  BY <1>13, SlotType DEF TypeOK, CopySlot
  <2>2. pkg' \in Frames \union {NoFrame}  BY <1>13, <2>1 DEF TypeOK, CopySlot
  <2> QED  BY <1>13, <2>2 DEF TypeOK, CopySlot, ringVars, storeVars, mainVars
<1>14. CASE PopUpdate
  <2>1. rd_own' \in [Lidars -> Indices]  BY <1>14, SuccType DEF TypeOK, PopUpdate
  <2> QED  BY <1>14, <2>1 DEF TypeOK, PopUpdate, storeVars, mainVars
<1>15. CASE CheckFuture
  BY <1>15 DEF TypeOK, CheckFuture, ringVars, storeVars, mainVars
<1>16. ASSUME NEW l \in Lidars, DrainWr(l) PROVE TypeOK'
  BY <1>16, SuccType DEF TypeOK, DrainWr, storeVars, pollVars, mainVars
<1>17. ASSUME NEW l \in Lidars, DrainRd(l) PROVE TypeOK'
  BY <1>17, SuccType DEF TypeOK, DrainRd, storeVars, pollVars, mainVars
<1>18. ASSUME NEW l \in Lidars, StartSampling(l) PROVE TypeOK'
  BY <1>18 DEF TypeOK, StartSampling, ringVars, storeVars, pollVars, mainVars
<1>19. CASE MainStep
  BY <1>19 DEF TypeOK, MainStep, RequestExit, SetValue, Join, ringVars, storeVars, pollVars
<1>20. CASE UNCHANGED vars
  BY <1>20 DEF TypeOK, vars, ringVars, storeVars, pollVars, mainVars
<1> QED
  BY <1>1, <1>2, <1>3, <1>4, <1>5, <1>6, <1>7, <1>8, <1>9, <1>10, <1>11, <1>12,
     <1>13, <1>14, <1>15, <1>16, <1>17, <1>18, <1>19, <1>20
  DEF Next, NewFrame, PushStep, PollStep, Drain

(* Every reachable state has its type: the indices stay 32-bit values and  *)
(* the poll thread touches no lidar outside lidars_.                       *)
THEOREM TypeCorrect == Spec => []TypeOK
BY TypeInit, TypeNext, PTL DEF Spec

-----------------------------------------------------------------------------
(* The ring.  Span(l) is the distance from rd_idx to wr_own measured along *)
(* rd_own and wr_idx.  Only the storage thread lets it grow, by one, after *)
(* CheckFull saw it below Size; every other step moves an index inside the *)
(* window.  The lemmas about Gap are the arithmetic of each step.          *)

LEMMA GapIsUsed ==
  ASSUME NEW a \in Indices, NEW b \in Indices, NEW c \in Indices, NEW d \in Indices,
         Gap(a, b, c, d) <= Size
  PROVE  /\ Used(d, a) = Gap(a, b, c, d)
         /\ Used(d, b) <= Gap(a, b, c, d)
         /\ Used(d, b) = Used(c, b) + Used(d, c)
         /\ Gap(a, b, c, d) \in Nat
BY RingAssumption DEF Gap, Used, Indices

LEMMA GapAdvanceWr ==
  ASSUME NEW a \in Indices, NEW b \in Indices, NEW c \in Indices, NEW d \in Indices,
         Gap(a, b, c, d) < Size
  PROVE  /\ Gap(a, b, c, Succ(d)) <= Size
         /\ Gap(a, b, Succ(d), Succ(d)) <= Size
         /\ Succ(d) # b
BY RingAssumption DEF Gap, Used, Indices, Succ

LEMMA GapDrainWr ==
  ASSUME NEW a \in Indices, NEW b \in Indices, NEW c \in Indices, NEW d \in Indices,
         Gap(a, b, c, d) <= Size, c # d
  PROVE  /\ Gap(a, b, Succ(c), d) = Gap(a, b, c, d)
         /\ Succ(c) # b
BY RingAssumption DEF Gap, Used, Indices, Succ

LEMMA GapPop ==
  ASSUME NEW a \in Indices, NEW b \in Indices, NEW c \in Indices, NEW d \in Indices,
         Gap(a, b, c, d) <= Size, b # c
  PROVE  /\ Gap(a, Succ(b), c, d) = Gap(a, b, c, d)
         /\ Gap(Succ(b), Succ(b), c, d) <= Gap(a, b, c, d)
BY RingAssumption DEF Gap, Used, Indices, Succ

LEMMA GapDrainRd ==
  ASSUME NEW a \in Indices, NEW b \in Indices, NEW c \in Indices, NEW d \in Indices,
         Gap(a, b, c, d) <= Size, a # b
  PROVE  Gap(Succ(a), b, c, d) <= Gap(a, b, c, d)
BY RingAssumption DEF Gap, Used, Indices, Succ

LEMMA IndexTypes ==
  ASSUME TypeOK
  PROVE  /\ Size \in Nat /\ Width \in Nat /\ Size < Width
         /\ \A l \in Lidars : /\ rd_idx[l] \in Indices /\ rd_own[l] \in Indices
                             /\ wr_idx[l] \in Indices /\ wr_own[l] \in Indices
BY RingAssumption DEF TypeOK

LEMMA RingInit == Init => RingInv
<1> SUFFICES ASSUME Init PROVE RingInv  OBVIOUS
<1>1. Gap(0, 0, 0, 0) = 0  BY RingAssumption DEF Used, Gap
<1> QED  BY <1>1, RingAssumption DEF Init, RingInv, RingWindow, Span

LEMMA RingNext == TypeOK /\ RingInv /\ [Next]_vars => RingInv'
<1> SUFFICES ASSUME TypeOK, RingInv, [Next]_vars PROVE RingInv'  OBVIOUS
<1>t. /\ Size \in Nat /\ Width \in Nat /\ Size < Width
      /\ \A l \in Lidars : /\ rd_idx[l] \in Indices /\ rd_own[l] \in Indices
                          /\ wr_idx[l] \in Indices /\ wr_own[l] \in Indices
  BY IndexTypes
<1>w. \A l \in Lidars : Gap(rd_idx[l], rd_own[l], wr_idx[l], wr_own[l]) <= Size
  BY DEF RingInv, RingWindow, Span
<1> USE DEF RingInv, RingWindow, Span
\* Steps that leave the indices alone.
<1>1. ASSUME NEW l \in Lidars, NEW f \in Frames, BeginPush(l, f) PROVE RingInv'
  BY <1>1 DEF BeginPush, pollVars
<1>2. CASE CheckFull
  <2> DEFINE k == store_lidar
  <2>1. k \in Lidars  BY DEF TypeOK
  <2>2. store_pc' = "write" => Used(wr_own[k], rd_idx[k]) <= Size - 1
    <3>1. Used(wr_own[k], rd_idx[k]) \in Int  BY <1>t, <2>1, UsedType
    <3> QED  BY <1>2, <1>t, <3>1 DEF CheckFull, QueueIsFull
  <2>3. Used(wr_own[k], rd_idx[k]) = Gap(rd_idx[k], rd_own[k], wr_idx[k], wr_own[k])
    BY <1>t, <1>w, <2>1, GapIsUsed
  <2>4. Gap(rd_idx[k], rd_own[k], wr_idx[k], wr_own[k]) \in Nat
    BY <1>t, <1>w, <2>1, GapIsUsed
  <2>5. store_pc' # "advance"  BY <1>2 DEF CheckFull
  <2>6. UNCHANGED <<rd_idx, rd_own, wr_idx, wr_own, store_lidar, poll_pc, poll_lidar>>
    BY <1>2 DEF CheckFull, ringVars, pollVars
  <2> QED  BY <1>t, <2>1, <2>2, <2>3, <2>4, <2>5, <2>6
<1>3. CASE WriteSlot
  BY <1>3 DEF WriteSlot, pollVars
<1>4. CASE CheckEmpty \/ ReadCount \/ Signal
  BY <1>4 DEF CheckEmpty, ReadCount, Signal, ringVars, pollVars
<1>5. CASE CheckExit \/ Wait \/ Scan \/ Poll \/ CheckFuture
  BY <1>5 DEF CheckExit, Wait, Scan, Poll, CheckFuture, ringVars, storeVars
<1>6. CASE CheckQueue \/ CopySlot
  BY <1>6 DEF CheckQueue, CopySlot, ringVars, storeVars, QueueIsEmpty
<1>7. ASSUME NEW l \in Lidars, StartSampling(l) PROVE RingInv'
  BY <1>7 DEF StartSampling, ringVars, storeVars, pollVars
<1>8. CASE MainStep
  BY <1>8 DEF MainStep, RequestExit, SetValue, Join, ringVars, storeVars, pollVars
<1>9. CASE UNCHANGED vars
  BY <1>9 DEF vars, ringVars, storeVars, pollVars
\* Steps that move an index.
<1>10. CASE AdvanceWr
  <2> DEFINE k == store_lidar
  <2>1. k \in Lidars /\ Gap(rd_idx[k], rd_own[k], wr_idx[k], wr_own[k]) < Size
    BY <1>10 DEF AdvanceWr, TypeOK
  <2>2. /\ Gap(rd_idx[k], rd_own[k], wr_idx[k], Succ(wr_own[k])) <= Size
        /\ Gap(rd_idx[k], rd_own[k], Succ(wr_own[k]), Succ(wr_own[k])) <= Size
        /\ Succ(wr_own[k]) # rd_own[k]
    BY <1>t, <2>1, GapAdvanceWr
  <2>3. /\ wr_own' = [wr_own EXCEPT ![k] = Succ(wr_own[k])]
        /\ wr_idx' = IF setup.store_buffer THEN wr_idx ELSE wr_own'
        /\ UNCHANGED <<rd_idx, rd_own, poll_pc, poll_lidar>>
        /\ store_pc' = "empty?"
    BY <1>10 DEF AdvanceWr, pollVars
  <2> HIDE DEF k
  <2>4. \A l \in Lidars : wr_own'[l] = IF l = k THEN Succ(wr_own[l]) ELSE wr_own[l]
    BY <2>3 DEF TypeOK
  <2>5. ASSUME ~setup.store_buffer, NEW l \in Lidars PROVE Gap(rd_idx[l], rd_own[l], wr_own[l], wr_own[l]) <= Size
    <3>1. Used(wr_own[l], wr_own[l]) = 0  BY <1>t, UsedType
    <3>2. /\ Used(wr_own[l], rd_own[l]) = Used(wr_idx[l], rd_own[l]) + Used(wr_own[l], wr_idx[l])
          /\ Used(rd_own[l], rd_idx[l]) \in Nat /\ Used(wr_own[l], rd_own[l]) \in Nat
          /\ Used(wr_idx[l], rd_own[l]) \in Nat /\ Used(wr_own[l], wr_idx[l]) \in Nat
      BY <1>t, <1>w, GapIsUsed, UsedType
    <3> QED  BY <1>t, <1>w, <3>1, <3>2 DEF Gap
  <2>6. ASSUME NEW l \in Lidars
        PROVE  Gap(rd_idx[l], rd_own[l], wr_idx'[l], wr_own'[l]) <= Size
    BY <1>w, <2>2, <2>3, <2>4, <2>5
  <2>7. poll_pc \in {"copy", "update"} => wr_idx'[poll_lidar] # rd_own[poll_lidar]
    <3> SUFFICES ASSUME poll_pc \in {"copy", "update"} PROVE wr_idx'[poll_lidar] # rd_own[poll_lidar]
      OBVIOUS
    <3>1. poll_lidar \in Lidars /\ wr_idx[poll_lidar] # rd_own[poll_lidar]
      BY DEF TypeOK, AtLidarPCs
    <3>2. wr_own[poll_lidar] # rd_own[poll_lidar]
      <4> DEFINE p == poll_lidar
      <4>1. /\ Used(wr_own[p], rd_own[p]) = Used(wr_idx[p], rd_own[p]) + Used(wr_own[p], wr_idx[p])
            /\ Used(wr_idx[p], rd_own[p]) \in Nat /\ Used(wr_own[p], wr_idx[p]) \in Nat
        BY <1>t, <1>w, <3>1, GapIsUsed, UsedType
      <4>2. Used(wr_idx[p], rd_own[p]) # 0  BY <1>t, <3>1, UsedType
      <4>3. Used(wr_own[p], rd_own[p]) # 0  BY <4>1, <4>2
      <4> QED  BY <1>t, <3>1, <4>3, UsedType
    <3> QED  BY <2>2, <2>3, <2>4, <3>1, <3>2
  <2> QED  BY <2>3, <2>6, <2>7
<1>11. ASSUME NEW k \in Lidars, DrainWr(k) PROVE RingInv'
  <2>1. /\ Gap(rd_idx[k], rd_own[k], Succ(wr_idx[k]), wr_own[k])
             = Gap(rd_idx[k], rd_own[k], wr_idx[k], wr_own[k])
        /\ Succ(wr_idx[k]) # rd_own[k]
    BY <1>11, <1>t, <1>w, GapDrainWr DEF DrainWr
  <2>2. \A l \in Lidars : wr_idx'[l] = IF l = k THEN Succ(wr_idx[l]) ELSE wr_idx[l]
    BY <1>11 DEF DrainWr, TypeOK
  <2>3. UNCHANGED <<rd_idx, rd_own, wr_own, store_pc, store_lidar, poll_pc, poll_lidar>>
    BY <1>11 DEF DrainWr, storeVars, pollVars
  <2>4. \A l \in Lidars : Gap(rd_idx[l], rd_own[l], wr_idx'[l], wr_own[l])
                          = Gap(rd_idx[l], rd_own[l], wr_idx[l], wr_own[l])
    BY <2>1, <2>2
  <2>5. store_lidar \in Lidars /\ (poll_pc \in {"copy", "update"} => poll_lidar \in Lidars)
    BY DEF TypeOK, AtLidarPCs
  <2> QED  BY <2>1, <2>2, <2>3, <2>4, <2>5
<1>12. CASE PopUpdate
  <2> DEFINE k == poll_lidar
  <2>1. k \in Lidars /\ wr_idx[k] # rd_own[k]
    BY <1>12 DEF PopUpdate, TypeOK, AtLidarPCs
  <2>2. /\ Gap(rd_idx[k], Succ(rd_own[k]), wr_idx[k], wr_own[k])
             = Gap(rd_idx[k], rd_own[k], wr_idx[k], wr_own[k])
        /\ Gap(Succ(rd_own[k]), Succ(rd_own[k]), wr_idx[k], wr_own[k])
             <= Gap(rd_idx[k], rd_own[k], wr_idx[k], wr_own[k])
    BY <1>t, <1>w, <2>1, GapPop
  <2>3. /\ rd_own' = [rd_own EXCEPT ![k] = Succ(rd_own[k])]
        /\ rd_idx' = IF setup.store_buffer THEN rd_idx ELSE rd_own'
        /\ UNCHANGED <<wr_idx, wr_own, store_pc, store_lidar>>
        /\ poll_pc' = "publish"
    BY <1>12 DEF PopUpdate, storeVars
  <2> HIDE DEF k
  <2>4. \A l \in Lidars : rd_own'[l] = IF l = k THEN Succ(rd_own[l]) ELSE rd_own[l]
    BY <2>3 DEF TypeOK
  <2>5. ASSUME NEW l \in Lidars
        PROVE  Gap(rd_own[l], rd_own[l], wr_idx[l], wr_own[l])
                 <= Gap(rd_idx[l], rd_own[l], wr_idx[l], wr_own[l])
    <3>1. Used(rd_own[l], rd_own[l]) = 0  BY <1>t, UsedType
    <3>2. /\ Used(rd_own[l], rd_idx[l]) \in Nat
          /\ Used(wr_idx[l], rd_own[l]) \in Nat /\ Used(wr_own[l], wr_idx[l]) \in Nat
      BY <1>t, UsedType
    <3> QED  BY <3>1, <3>2 DEF Gap
  <2>6. ASSUME NEW l \in Lidars
        PROVE  Gap(rd_idx'[l], rd_own'[l], wr_idx[l], wr_own[l])
                 <= Gap(rd_idx[l], rd_own[l], wr_idx[l], wr_own[l])
    <3>1. Gap(rd_idx[l], rd_own[l], wr_idx[l], wr_own[l]) \in Nat
      BY <1>t, <1>w, GapIsUsed
    <3> QED  BY <2>2, <2>3, <2>4, <2>5, <3>1
  <2>7. ASSUME NEW l \in Lidars
        PROVE /\ Gap(rd_idx[l], rd_own[l], wr_idx[l], wr_own[l]) \in Nat
              /\ Gap(rd_idx'[l], rd_own'[l], wr_idx[l], wr_own[l]) \in Nat
    <3>1. rd_own'[l] \in Indices  BY <1>t, <2>4, SuccType
    <3>2. rd_idx'[l] \in Indices  BY <1>t, <2>3, <3>1
    <3> QED  BY <1>t, <3>1, <3>2, UsedType DEF Gap
  <2>8. store_lidar \in Lidars  BY DEF TypeOK
  <2> QED  BY <1>t, <1>w, <2>3, <2>6, <2>7, <2>8
<1>13. ASSUME NEW k \in Lidars, DrainRd(k) PROVE RingInv'
  <2>1. Gap(Succ(rd_idx[k]), rd_own[k], wr_idx[k], wr_own[k])
          <= Gap(rd_idx[k], rd_own[k], wr_idx[k], wr_own[k])
    BY <1>13, <1>t, <1>w, GapDrainRd DEF DrainRd
  <2>2. \A l \in Lidars : rd_idx'[l] = IF l = k THEN Succ(rd_idx[l]) ELSE rd_idx[l]
    BY <1>13 DEF DrainRd, TypeOK
  <2>3. UNCHANGED <<wr_idx, rd_own, wr_own, store_pc, store_lidar, poll_pc, poll_lidar>>
    BY <1>13 DEF DrainRd, storeVars, pollVars
  <2>4. ASSUME NEW l \in Lidars
        PROVE /\ Gap(rd_idx[l], rd_own[l], wr_idx[l], wr_own[l]) \in Nat
              /\ Gap(rd_idx'[l], rd_own[l], wr_idx[l], wr_own[l]) \in Nat
    <3>1. rd_idx'[l] \in Indices  BY <1>t, <2>2, SuccType
    <3> QED  BY <1>t, <3>1, UsedType DEF Gap
  <2>5. ASSUME NEW l \in Lidars
        PROVE  Gap(rd_idx'[l], rd_own[l], wr_idx[l], wr_own[l])
                 <= Gap(rd_idx[l], rd_own[l], wr_idx[l], wr_own[l])
    BY <2>1, <2>2, <2>4
  <2>6. store_lidar \in Lidars  BY DEF TypeOK
  <2> QED  BY <1>t, <1>w, <2>3, <2>4, <2>5, <2>6
<1> QED
  BY <1>1, <1>2, <1>3, <1>4, <1>5, <1>6, <1>7, <1>8, <1>9, <1>10, <1>11, <1>12, <1>13
  DEF Next, NewFrame, PushStep, PollStep, Drain

LEMMA RingInvariant == Spec => []RingInv
BY TypeCorrect, RingInit, RingNext, PTL DEF Spec

(* The storage thread never runs more than a ring ahead of the poll        *)
(* thread, for every ring size, through every wrap of the 32-bit indices   *)
(* and with every delay of an index store (ldq.cpp QueueIsFull).           *)
THEOREM RingWindowHolds == Spec => []RingWindow
BY RingInvariant, PTL DEF RingInv

(* QueuePushAny and QueuePrePop, which take no lock, never work on the     *)
(* same slot.                                                              *)
THEOREM NoSlotRaceHolds == Spec => []NoSlotRace
<1>1. TypeOK /\ RingInv => NoSlotRace
  <2> SUFFICES ASSUME TypeOK, RingInv, store_pc = "write", poll_pc = "copy",
                      store_lidar = poll_lidar
               PROVE  Slot(wr_own[store_lidar]) # Slot(rd_own[poll_lidar])
    BY DEF NoSlotRace
  <2> DEFINE k == store_lidar
  <2>1. /\ k \in Lidars
        /\ Gap(rd_idx[k], rd_own[k], wr_idx[k], wr_own[k]) < Size
        /\ wr_idx[k] # rd_own[k]
    BY DEF RingInv, Span, TypeOK
  <2>2. /\ Size \in Nat /\ rd_idx[k] \in Indices /\ rd_own[k] \in Indices
        /\ wr_idx[k] \in Indices /\ wr_own[k] \in Indices
    BY <2>1, IndexTypes
  <2>3. /\ Used(wr_own[k], rd_own[k]) <= Gap(rd_idx[k], rd_own[k], wr_idx[k], wr_own[k])
        /\ Used(wr_own[k], rd_own[k]) = Used(wr_idx[k], rd_own[k]) + Used(wr_own[k], wr_idx[k])
        /\ Gap(rd_idx[k], rd_own[k], wr_idx[k], wr_own[k]) \in Nat
    <3>1. Gap(rd_idx[k], rd_own[k], wr_idx[k], wr_own[k]) <= Size
      BY <2>1 DEF RingInv, RingWindow, Span
    <3> QED  BY <2>2, <3>1, GapIsUsed
  <2>4. /\ Used(wr_idx[k], rd_own[k]) \in Nat \ {0}
        /\ Used(wr_own[k], wr_idx[k]) \in Nat
    BY <2>1, <2>2, UsedType
  <2>5. 0 < Used(wr_own[k], rd_own[k]) /\ Used(wr_own[k], rd_own[k]) < Size
    BY <2>1, <2>2, <2>3, <2>4
  <2> QED  BY <2>2, <2>5, SlotsDiffer
<1> QED  BY <1>1, TypeCorrect, RingInvariant, PTL

-----------------------------------------------------------------------------
(* The semaphore.  The storage thread alone raises the count, and only     *)
(* after it read 0; the poll thread can only lower it in between.          *)

LEMMA SemaphoreStep == TypeOK /\ SemaphoreInv /\ [Next]_vars => SemaphoreInv'
<1> SUFFICES ASSUME TypeOK, SemaphoreInv, [Next]_vars PROVE SemaphoreInv'  OBVIOUS
<1> USE DEF SemaphoreInv
<1>1. ASSUME NEW l \in Lidars, NEW f \in Frames, BeginPush(l, f) PROVE SemaphoreInv'
  BY <1>1 DEF BeginPush
<1>2. CASE PushStep
  BY <1>2 DEF PushStep, CheckFull, WriteSlot, AdvanceWr, CheckEmpty, ReadCount, Signal
<1>3. CASE PollStep
  BY <1>3 DEF PollStep, CheckExit, Wait, Scan, Poll, CheckQueue, CopySlot, PopUpdate,
              CheckFuture, storeVars
<1>4. CASE Drain
  BY <1>4 DEF Drain, DrainWr, DrainRd, storeVars
<1>5. ASSUME NEW l \in Lidars, StartSampling(l) PROVE SemaphoreInv'
  BY <1>5 DEF StartSampling, storeVars
<1>6. CASE MainStep
  BY <1>6 DEF MainStep, RequestExit, SetValue, Join, storeVars
<1>7. CASE UNCHANGED vars
  BY <1>7 DEF vars, storeVars
<1> QED  BY <1>1, <1>2, <1>3, <1>4, <1>5, <1>6, <1>7 DEF Next, NewFrame

(* Reading the count without the mutex does not let wake-ups pile up.      *)
THEOREM SemaphoreBinaryHolds == Spec => []SemaphoreBinary
<1>1. Init => SemaphoreInv  BY DEF Init, SemaphoreInv
<1>2. SemaphoreInv => SemaphoreBinary  BY DEF SemaphoreInv, SemaphoreBinary
<1> QED  BY <1>1, <1>2, SemaphoreStep, TypeCorrect, PTL DEF Spec

-----------------------------------------------------------------------------
(* The wake-ups, on a machine that does not delay the index stores: the    *)
(* two threads then agree on the indices, and a frame stored while the     *)
(* count is positive is found by the scan that count stands for.           *)

LEMMA WakeupInit == Init => WakeupInv
BY DEF Init, WakeupInv, NoLostWakeup, Waiting

(* Where the driver runs does not change.                                  *)
LEMMA SetupFixed == [Next]_vars => setup' = setup
BY DEF Next, NewFrame, BeginPush, PushStep, CheckFull, WriteSlot, AdvanceWr, CheckEmpty,
       ReadCount, Signal, PollStep, CheckExit, Wait, Scan, Poll, CheckQueue, CopySlot,
       PopUpdate, CheckFuture, Drain, DrainWr, DrainRd, StartSampling,
       MainStep, RequestExit, SetValue, Join, vars

LEMMA WakeupStep == TypeOK /\ RingInv /\ WakeupInv /\ [Next]_vars => WakeupInv'
<1> SUFFICES ASSUME TypeOK, RingInv, WakeupInv, [Next]_vars, ~setup.store_buffer
             PROVE  WakeupInv'
  BY SetupFixed DEF WakeupInv
<1> USE DEF WakeupInv, NoLostWakeup, Waiting, WillVisit, WillSignal, AtLidarPCs
<1>1. ASSUME NEW k \in Lidars, NEW f \in Frames, BeginPush(k, f) PROVE WakeupInv'
  BY <1>1 DEF BeginPush, pollVars, mainVars, TypeOK
<1>2. CASE CheckFull
  BY <1>2 DEF CheckFull, ringVars, pollVars, mainVars
<1>3. CASE WriteSlot
  BY <1>3 DEF WriteSlot, pollVars, mainVars
<1>4. CASE AdvanceWr
  <2>1. /\ wr_own' = [wr_own EXCEPT ![store_lidar] = Succ(@)] /\ wr_idx' = wr_own'
        /\ UNCHANGED <<allocated, rd_idx, rd_own, connect_state, count, store_lidar,
                       pollVars, mainVars>>
        /\ store_pc' = "empty?" /\ store_pc = "advance"
        /\ late' = late \ {store_lidar}
    BY <1>4 DEF AdvanceWr
  <2>2. \A l \in Lidars : l # store_lidar => wr_own'[l] = wr_own[l]
    BY <2>1 DEF TypeOK
  <2> QED  BY <2>1, <2>2 DEF pollVars, mainVars
<1>5. CASE CheckEmpty
  BY <1>5 DEF CheckEmpty, QueueIsEmpty, ringVars, pollVars, mainVars, TypeOK
<1>6. CASE ReadCount
  BY <1>6 DEF ReadCount, ringVars, pollVars, mainVars, TypeOK
<1>7. CASE Signal
  BY <1>7 DEF Signal, ringVars, pollVars, mainVars, TypeOK
<1>8. CASE CheckExit
  BY <1>8 DEF CheckExit, ringVars, storeVars, mainVars
<1>9. CASE Wait
  BY <1>9, PipelineAssumption DEF Wait, ringVars, storeVars, mainVars, Lidars
<1>10. CASE Scan
  BY <1>10, PipelineAssumption DEF Scan, ringVars, storeVars, mainVars, TypeOK, Lidars
<1>11. CASE Poll
  BY <1>11, PipelineAssumption DEF Poll, QueueIsEmpty, ringVars, storeVars, mainVars, TypeOK, Lidars
<1>12. CASE CheckQueue
  BY <1>12 DEF CheckQueue, ringVars, storeVars, mainVars
<1>13. CASE CopySlot
  BY <1>13 DEF CopySlot, ringVars, storeVars, mainVars
<1>14. CASE PopUpdate
  <2>1. /\ rd_own' = [rd_own EXCEPT ![poll_lidar] = Succ(@)] /\ rd_idx' = rd_own'
        /\ UNCHANGED <<allocated, wr_idx, wr_own, connect_state, count, storeVars,
                       poll_lidar, mainVars, late>>
        /\ poll_pc' = "publish" /\ poll_pc = "update"
    BY <1>14 DEF PopUpdate
  <2>2. \A l \in Lidars : l # poll_lidar => rd_own'[l] = rd_own[l]
    BY <2>1 DEF TypeOK
  <2>3. poll_lidar \in Lidars /\ wr_idx[poll_lidar] # rd_own[poll_lidar]
    BY <2>1 DEF RingInv, TypeOK
  <2>4. allocated[poll_lidar]  BY <2>3 DEF TypeOK
  <2>5. poll_lidar <= poll_lidar  BY <2>3 DEF Lidars
  <2> QED  BY <2>1, <2>2, <2>3, <2>4, <2>5 DEF storeVars, mainVars
<1>15. CASE CheckFuture
  BY <1>15 DEF CheckFuture, ringVars, storeVars, mainVars
<1>16. CASE Drain
  BY <1>16 DEF Drain, DrainWr, DrainRd
<1>17. ASSUME NEW k \in Lidars, StartSampling(k) PROVE WakeupInv'
  BY <1>17 DEF StartSampling, ringVars, storeVars, pollVars, mainVars, TypeOK
<1>18. CASE MainStep
  BY <1>18 DEF MainStep, RequestExit, SetValue, Join, ringVars, storeVars, pollVars
<1>19. CASE UNCHANGED vars
  BY <1>19 DEF vars, ringVars, storeVars, pollVars, mainVars
<1> QED
  BY <1>1, <1>2, <1>3, <1>4, <1>5, <1>6, <1>7, <1>8, <1>9, <1>10, <1>11, <1>12,
     <1>13, <1>14, <1>15, <1>16, <1>17, <1>18, <1>19
  DEF Next, NewFrame, PushStep, PollStep

(* Without store buffers, skipping Signal when the count is positive loses *)
(* no wake-up (lds.cpp PushLidarData against lddc.cpp's scan).             *)
THEOREM NoLostWakeupHolds == Spec => []NoLostWakeup
<1>1. WakeupInv => NoLostWakeup  BY DEF WakeupInv, NoLostWakeup
<1> QED  BY <1>1, WakeupInit, WakeupStep, TypeCorrect, RingInvariant, PTL DEF Spec

-----------------------------------------------------------------------------
(* The refinement.                                                         *)

LEMMA AheadType ==
  ASSUME NEW r \in Indices, NEW n \in 0 .. Width - 1
  PROVE  Ahead(r, n) \in Indices
BY RingAssumption DEF Ahead, Indices

(* The indices of the waiting frames are all less than a ring behind w.    *)
LEMMA AheadBehind ==
  ASSUME NEW w \in Indices, NEW r \in Indices, NEW n \in 0 .. Width - 1, n < Used(w, r)
  PROVE  Used(w, Ahead(r, n)) = Used(w, r) - n
BY RingAssumption DEF Ahead, Used, Indices

LEMMA AheadSucc ==
  ASSUME NEW r \in Indices, NEW n \in Nat, n + 1 < Width
  PROVE  Ahead(Succ(r), n) = Ahead(r, n + 1)
BY RingAssumption DEF Ahead, Succ, Indices

LEMMA AheadUsed ==
  ASSUME NEW w \in Indices, NEW r \in Indices
  PROVE  Ahead(r, Used(w, r)) = w
BY RingAssumption DEF Ahead, Used, Indices

LEMMA AheadZero == ASSUME NEW r \in Indices PROVE Ahead(r, 0) = r
BY RingAssumption DEF Ahead, Indices

(* The slot about to be written holds no waiting frame.                    *)
LEMMA WriteIsClear ==
  ASSUME TypeOK, RingInv, store_pc = "write",
         NEW i \in 1 .. Used(wr_own[store_lidar], rd_own[store_lidar])
  PROVE  /\ Ahead(rd_own[store_lidar], i - 1) \in Indices
         /\ Slot(Ahead(rd_own[store_lidar], i - 1)) # Slot(wr_own[store_lidar])
<1> DEFINE k == store_lidar
           a == Ahead(rd_own[k], i - 1)
<1>1. /\ k \in Lidars /\ Gap(rd_idx[k], rd_own[k], wr_idx[k], wr_own[k]) < Size
  BY DEF RingInv, Span, TypeOK
<1>2. /\ Size \in Nat /\ Width \in Nat /\ Size < Width
      /\ rd_idx[k] \in Indices /\ rd_own[k] \in Indices
      /\ wr_idx[k] \in Indices /\ wr_own[k] \in Indices
  BY <1>1, IndexTypes
<1>3. /\ Used(wr_own[k], rd_own[k]) \in Nat
      /\ Used(wr_own[k], rd_own[k]) < Size
  <2>1. Gap(rd_idx[k], rd_own[k], wr_idx[k], wr_own[k]) <= Size
    BY <1>1 DEF RingInv, RingWindow, Span
  <2> QED  BY <1>1, <1>2, <2>1, GapIsUsed, UsedType
<1> HIDE DEF k
<1>4. i - 1 \in 0 .. Width - 1 /\ i - 1 < Used(wr_own[k], rd_own[k])
  BY <1>2, <1>3 DEF k
<1>5. a \in Indices /\ Used(wr_own[k], a) = Used(wr_own[k], rd_own[k]) - (i - 1)
  BY <1>2, <1>4, AheadType, AheadBehind
<1>6. 0 < Used(wr_own[k], a) /\ Used(wr_own[k], a) < Size
  BY <1>2, <1>3, <1>4, <1>5
<1> QED  BY <1>2, <1>5, <1>6, SlotsDiffer DEF k

LEMMA ContentStep == TypeOK /\ RingInv /\ ContentInv /\ [Next]_vars => ContentInv'
<1> SUFFICES ASSUME TypeOK, RingInv, ContentInv, [Next]_vars PROVE ContentInv'  OBVIOUS
<1> USE DEF ContentInv
<1>1. ASSUME NEW l \in Lidars, NEW f \in Frames, BeginPush(l, f) PROVE ContentInv'
  BY <1>1 DEF BeginPush, pollVars
<1>2. CASE CheckFull \/ CheckEmpty \/ ReadCount \/ Signal
  BY <1>2 DEF CheckFull, CheckEmpty, ReadCount, Signal, ringVars, pollVars
<1>3. CASE WriteSlot
  <2> DEFINE k == store_lidar
             s == Slot(wr_own[k])
  <2>1. /\ storage_packet' = [storage_packet EXCEPT ![k][s] = store_frame]
        /\ UNCHANGED <<wr_own, rd_own, store_lidar, store_frame, poll_pc, poll_lidar, pkg>>
        /\ store_pc = "write" /\ store_pc' = "advance"
    BY <1>3 DEF WriteSlot, pollVars
  <2>2. k \in Lidars /\ s \in Slots  BY SlotType DEF TypeOK
  <2>3. storage_packet'[k][s] = store_frame  BY <2>1, <2>2 DEF TypeOK
  <2>4. poll_pc = "update" =>
          storage_packet'[poll_lidar][Slot(rd_own[poll_lidar])]
            = storage_packet[poll_lidar][Slot(rd_own[poll_lidar])]
    <3> SUFFICES ASSUME poll_pc = "update"
                 PROVE  storage_packet'[poll_lidar][Slot(rd_own[poll_lidar])]
                          = storage_packet[poll_lidar][Slot(rd_own[poll_lidar])]
      OBVIOUS
    <3> DEFINE p == poll_lidar
    <3>1. /\ p \in Lidars /\ rd_own[p] \in Indices /\ wr_own[p] \in Indices
          /\ rd_idx[p] \in Indices /\ wr_idx[p] \in Indices
      BY DEF TypeOK, AtLidarPCs
    <3>2. Slot(rd_own[p]) \in Slots  BY <3>1, SlotType
    <3>3. CASE p # k
      BY <2>1, <3>1, <3>3 DEF TypeOK
    <3>4. CASE p = k
      <4>1. Used(wr_own[k], rd_own[k]) \in Nat \ {0}
        <5>1. wr_idx[p] # rd_own[p]  BY DEF RingInv
        <5>2. Gap(rd_idx[p], rd_own[p], wr_idx[p], wr_own[p]) <= Size
          BY <3>1 DEF RingInv, RingWindow, Span
        <5>3. Used(wr_own[p], rd_own[p]) = Used(wr_idx[p], rd_own[p]) + Used(wr_own[p], wr_idx[p])
          BY <3>1, <5>2, GapIsUsed
        <5>4. /\ Used(wr_idx[p], rd_own[p]) \in Nat \ {0}
              /\ Used(wr_own[p], wr_idx[p]) \in Nat
          BY <3>1, <5>1, UsedType, RingAssumption
        <5> QED  BY <3>4, <5>3, <5>4
      <4>2. 1 \in 1 .. Used(wr_own[k], rd_own[k])  BY <4>1
      <4>3. Slot(Ahead(rd_own[k], 1 - 1)) # Slot(wr_own[k])
        BY <2>1, <4>2, WriteIsClear
      <4>4. Ahead(rd_own[k], 1 - 1) = rd_own[k]  BY <3>1, <3>4, AheadZero
      <4>5. Slot(rd_own[p]) # s  BY <3>4, <4>3, <4>4
      <4> HIDE DEF s
      <4> QED  BY <2>1, <2>2, <3>1, <3>2, <3>4, <4>5 DEF TypeOK
    <3> QED  BY <3>3, <3>4
  <2> QED  BY <2>1, <2>3, <2>4
<1>4. CASE AdvanceWr
  BY <1>4 DEF AdvanceWr, pollVars
<1>5. CASE CheckExit \/ Wait \/ Scan \/ Poll \/ CheckQueue \/ CheckFuture
  BY <1>5 DEF CheckExit, Wait, Scan, Poll, CheckQueue, CheckFuture, ringVars, storeVars
<1>6. CASE CopySlot
  BY <1>6 DEF CopySlot, ringVars, storeVars
<1>7. CASE PopUpdate
  BY <1>7 DEF PopUpdate, storeVars
<1>8. CASE Drain
  BY <1>8 DEF Drain, DrainWr, DrainRd, storeVars, pollVars
<1>9. ASSUME NEW l \in Lidars, StartSampling(l) PROVE ContentInv'
  BY <1>9 DEF StartSampling, ringVars, storeVars, pollVars
<1>10. CASE MainStep
  BY <1>10 DEF MainStep, RequestExit, SetValue, Join, ringVars, storeVars, pollVars
<1>11. CASE UNCHANGED vars
  BY <1>11 DEF vars, ringVars, storeVars, pollVars
<1> QED
  BY <1>1, <1>2, <1>3, <1>4, <1>5, <1>6, <1>7, <1>8, <1>9, <1>10, <1>11
  DEF Next, NewFrame, PushStep, PollStep

LEMMA ContentInvariant == Spec => []ContentInv
<1>1. Init => ContentInv  BY DEF Init, ContentInv
<1> QED  BY <1>1, ContentStep, TypeCorrect, RingInvariant, PTL DEF Spec

\* A step that leaves the rings' indices of the two threads and their slots
\* alone leaves the abstract queues alone.
LEMMA SameFrames ==
  UNCHANGED <<storage_packet, wr_own, rd_own>> => StoredFrames' = StoredFrames
BY DEF StoredFrames, StoredIn

LEMMA StoreRefines ==
  ASSUME TypeOK, RingInv, ContentInv, AdvanceWr
  PROVE  Channel!Store(store_lidar, store_frame)
<1>0. store_lidar \in Lidars  BY DEF TypeOK
<1> SUFFICES ASSUME NEW k \in Lidars, k = store_lidar
             PROVE  Channel!Store(k, store_frame)
  BY <1>0
<1> DEFINE n == Used(wr_own[k], rd_own[k])
<1>1. /\ k \in Lidars /\ Gap(rd_idx[k], rd_own[k], wr_idx[k], wr_own[k]) < Size
  BY DEF RingInv, Span, TypeOK, AdvanceWr
<1>2. /\ Size \in Nat /\ Width \in Nat /\ Size < Width
      /\ rd_idx[k] \in Indices /\ rd_own[k] \in Indices
      /\ wr_idx[k] \in Indices /\ wr_own[k] \in Indices
  BY <1>1, IndexTypes
<1>3. n \in Nat /\ n < Size
  <2>1. Gap(rd_idx[k], rd_own[k], wr_idx[k], wr_own[k]) <= Size
    BY <1>1 DEF RingInv, RingWindow, Span
  <2> QED  BY <1>1, <1>2, <2>1, GapIsUsed, UsedType
<1>4. /\ wr_own' = [wr_own EXCEPT ![k] = Succ(wr_own[k])]
      /\ UNCHANGED <<storage_packet, rd_own, published>>
      /\ storage_packet[k][Slot(wr_own[k])] = store_frame
  BY DEF AdvanceWr, pollVars, ContentInv
<1>5. wr_own'[k] = Succ(wr_own[k]) /\ \A l \in Lidars : l # k => wr_own'[l] = wr_own[l]
  BY <1>1, <1>4 DEF TypeOK
<1>6. Used(wr_own'[k], rd_own'[k]) = n + 1
  BY <1>2, <1>3, <1>4, <1>5, UsedSuccW
<1>7. storage_packet[k][Slot(Ahead(rd_own[k], (n + 1) - 1))] = store_frame
  <2>1. (n + 1) - 1 = n  BY <1>3
  <2> QED  BY <1>2, <1>4, <2>1, AheadUsed
<1> DEFINE G(i) == storage_packet[k][Slot(Ahead(rd_own[k], i - 1))]
<1>8. StoredIn(k) = [i \in 1 .. n |-> G(i)]  BY DEF StoredIn
<1>9. StoredIn(k)' = [i \in 1 .. n + 1 |-> G(i)]  BY <1>4, <1>6 DEF StoredIn
<1>10. G(n + 1) = store_frame  BY <1>7
<1> HIDE DEF G, n
<1>11. Len(StoredIn(k)) = n /\ StoredIn(k)' = Append(StoredIn(k), store_frame)
  BY <1>3, <1>8, <1>9, <1>10
<1>12. StoredFrames[k] = StoredIn(k)  BY <1>1 DEF StoredFrames
<1>13. \A l \in Lidars : l # k => StoredIn(l)' = StoredIn(l)
  BY <1>4, <1>5 DEF StoredIn
<1>14. StoredFrames' = [StoredFrames EXCEPT ![k] = Append(StoredFrames[k], store_frame)]
  BY <1>1, <1>11, <1>12, <1>13 DEF StoredFrames
<1> QED  BY <1>3, <1>4, <1>11, <1>12, <1>14 DEF Channel!Store

LEMMA PublishRefines ==
  ASSUME TypeOK, RingInv, ContentInv, PopUpdate
  PROVE  Channel!Publish(poll_lidar)
<1>0. poll_lidar \in Lidars  BY DEF TypeOK, PopUpdate, AtLidarPCs
<1> SUFFICES ASSUME NEW k \in Lidars, k = poll_lidar
             PROVE  Channel!Publish(k)
  BY <1>0
<1> DEFINE n == Used(wr_own[k], rd_own[k])
<1>1. /\ wr_idx[k] # rd_own[k]
      /\ Gap(rd_idx[k], rd_own[k], wr_idx[k], wr_own[k]) <= Size
  BY DEF RingInv, RingWindow, Span, PopUpdate
<1>2. /\ Size \in Nat /\ Width \in Nat /\ Size < Width
      /\ rd_idx[k] \in Indices /\ rd_own[k] \in Indices
      /\ wr_idx[k] \in Indices /\ wr_own[k] \in Indices
  BY IndexTypes
<1>3. n \in Nat \ {0} /\ n < Width /\ wr_own[k] # rd_own[k]
  <2>1. n = Used(wr_idx[k], rd_own[k]) + Used(wr_own[k], wr_idx[k])
    BY <1>1, <1>2, GapIsUsed
  <2>2. /\ Used(wr_idx[k], rd_own[k]) \in Nat \ {0}
        /\ Used(wr_own[k], wr_idx[k]) \in Nat
    BY <1>1, <1>2, UsedType
  <2>3. n \in 0 .. Width - 1 /\ (n = 0 <=> wr_own[k] = rd_own[k])
    BY <1>2, UsedType
  <2> HIDE DEF n
  <2> QED  BY <1>2, <2>1, <2>2, <2>3
<1>4. /\ rd_own' = [rd_own EXCEPT ![k] = Succ(rd_own[k])]
      /\ UNCHANGED <<storage_packet, wr_own>>
      /\ published' = [published EXCEPT ![k] = pkg]
      /\ pkg = storage_packet[k][Slot(rd_own[k])]
  BY DEF PopUpdate, ContentInv
<1>5. rd_own'[k] = Succ(rd_own[k]) /\ \A l \in Lidars : l # k => rd_own'[l] = rd_own[l]
  BY <1>4 DEF TypeOK
<1>6. Used(wr_own'[k], rd_own'[k]) = n - 1
  BY <1>2, <1>3, <1>4, <1>5, UsedSuccR
<1> DEFINE G(i) == storage_packet[k][Slot(Ahead(rd_own[k], i - 1))]
<1>7. StoredIn(k) = [i \in 1 .. n |-> G(i)]  BY DEF StoredIn
<1>8. StoredIn(k)' = [i \in 1 .. n - 1 |-> G(i + 1)]
  <2>1. ASSUME NEW i \in 1 .. n - 1
        PROVE  Ahead(Succ(rd_own[k]), i - 1) = Ahead(rd_own[k], (i + 1) - 1)
    <3>1. i - 1 \in Nat /\ (i - 1) + 1 < Width /\ (i - 1) + 1 = (i + 1) - 1
      BY <1>2, <1>3
    <3> QED  BY <1>2, <3>1, AheadSucc
  <2> QED  BY <1>4, <1>5, <1>6, <2>1 DEF StoredIn
<1>9. G(1) = pkg
  <2>1. Ahead(rd_own[k], 1 - 1) = rd_own[k]  BY <1>2, AheadZero
  <2> QED  BY <1>4, <2>1
<1> HIDE DEF G, n
<1>10. /\ StoredIn(k) # <<>>
       /\ Head(StoredIn(k)) = pkg
       /\ StoredIn(k)' = Tail(StoredIn(k))
  <2>1. Len(StoredIn(k)) = n  BY <1>3, <1>7
  <2>2. StoredIn(k)[1] = pkg  BY <1>3, <1>7, <1>9
  <2>3. Tail(StoredIn(k)) = [i \in 1 .. n - 1 |-> StoredIn(k)[i + 1]]
    BY <1>3, <1>7, <2>1
  <2>4. \A i \in 1 .. n - 1 : StoredIn(k)[i + 1] = G(i + 1)  BY <1>3, <1>7
  <2> QED  BY <1>3, <1>7, <1>8, <2>1, <2>2, <2>3, <2>4
<1>11. StoredFrames[k] = StoredIn(k)  BY DEF StoredFrames
<1>12. \A l \in Lidars : l # k => StoredIn(l)' = StoredIn(l)
  BY <1>4, <1>5 DEF StoredIn
<1>13. StoredFrames' = [StoredFrames EXCEPT ![k] = Tail(StoredFrames[k])]
  BY <1>10, <1>11, <1>12 DEF StoredFrames
<1> QED  BY <1>4, <1>10, <1>11, <1>13 DEF Channel!Publish

LEMMA StepRefines ==
  TypeOK /\ RingInv /\ ContentInv /\ [Next]_vars => [Channel!Next]_(Channel!vars)
<1> SUFFICES ASSUME TypeOK, RingInv, ContentInv, [Next]_vars
             PROVE  Channel!Next \/ UNCHANGED <<StoredFrames, published>>
  BY DEF Channel!vars
<1>1. CASE AdvanceWr
  <2>1. store_lidar \in Lidars /\ store_frame \in Frames
    BY <1>1 DEF TypeOK, ContentInv, AdvanceWr
  <2> QED  BY <1>1, <2>1, StoreRefines DEF Channel!Next
<1>2. CASE PopUpdate
  <2>1. poll_lidar \in Lidars  BY <1>2 DEF TypeOK, PopUpdate, AtLidarPCs
  <2> QED  BY <1>2, <2>1, PublishRefines DEF Channel!Next
<1>3. CASE WriteSlot
  <2>1. UNCHANGED <<wr_own, rd_own, published, store_lidar>>  BY <1>3 DEF WriteSlot, pollVars
  <2>2. storage_packet' =
          [storage_packet EXCEPT ![store_lidar][Slot(wr_own[store_lidar])] = store_frame]
    BY <1>3 DEF WriteSlot
  <2>3. ASSUME NEW l \in Lidars PROVE StoredIn(l)' = StoredIn(l)
    <3>1. ASSUME NEW i \in 1 .. Used(wr_own[l], rd_own[l])
          PROVE  storage_packet'[l][Slot(Ahead(rd_own[l], i - 1))]
                   = storage_packet[l][Slot(Ahead(rd_own[l], i - 1))]
      <4>1. CASE l # store_lidar
        BY <2>2, <4>1 DEF TypeOK
      <4>2. CASE l = store_lidar
        <5>1. /\ Ahead(rd_own[l], i - 1) \in Indices
              /\ Slot(Ahead(rd_own[l], i - 1)) # Slot(wr_own[l])
          BY <1>3, <4>2, WriteIsClear DEF WriteSlot
        <5>2. /\ Slot(Ahead(rd_own[l], i - 1)) \in Slots
              /\ Slot(wr_own[l]) \in Slots
          BY <5>1, SlotType DEF TypeOK
        <5> QED  BY <2>2, <4>2, <5>1, <5>2 DEF TypeOK
      <4> QED  BY <4>1, <4>2
    <3> QED  BY <2>1, <3>1 DEF StoredIn
  <2> QED  BY <2>1, <2>3 DEF StoredFrames
<1>4. ASSUME NEW l \in Lidars, NEW f \in Frames, BeginPush(l, f)
      PROVE  UNCHANGED <<StoredFrames, published>>
  BY <1>4, SameFrames DEF BeginPush, pollVars
<1>5. CASE CheckFull \/ CheckEmpty \/ ReadCount \/ Signal
  BY <1>5, SameFrames DEF CheckFull, CheckEmpty, ReadCount, Signal, ringVars, pollVars
<1>6. CASE CheckExit \/ Wait \/ Scan \/ Poll \/ CheckQueue \/ CopySlot \/ CheckFuture
  BY <1>6, SameFrames DEF CheckExit, Wait, Scan, Poll, CheckQueue, CopySlot, CheckFuture, ringVars
<1>7. CASE Drain
  BY <1>7, SameFrames DEF Drain, DrainWr, DrainRd, pollVars
<1>8. ASSUME NEW l \in Lidars, StartSampling(l)
      PROVE  UNCHANGED <<StoredFrames, published>>
  BY <1>8, SameFrames DEF StartSampling, ringVars, pollVars
<1>9. CASE MainStep
  BY <1>9, SameFrames DEF MainStep, RequestExit, SetValue, Join, ringVars, pollVars
<1>10. CASE UNCHANGED vars
  BY <1>10, SameFrames DEF vars, ringVars, pollVars
<1> QED
  BY <1>1, <1>2, <1>3, <1>4, <1>5, <1>6, <1>7, <1>8, <1>9, <1>10
  DEF Next, NewFrame, PushStep, PollStep

LEMMA InitRefines == Init => Channel!Init
<1> SUFFICES ASSUME Init PROVE Channel!Init  OBVIOUS
<1>1. Used(0, 0) = 0  BY RingAssumption DEF Used
<1>2. \A l \in Lidars : StoredIn(l) = <<>>
  BY <1>1 DEF Init, StoredIn
<1> QED  BY <1>2 DEF Init, Channel!Init, StoredFrames

(* The lock-free rings and the two threads implement a bounded FIFO per    *)
(* lidar: a stored frame is neither torn, duplicated, reordered nor lost,  *)
(* for every ring size, number of lidars and delay of an index store.      *)
THEOREM RefinesFrameChannel == Spec => ImplementsFrameChannel
<1> USE DEF ImplementsFrameChannel, Channel!Spec
<1> QED
  BY InitRefines, StepRefines, TypeCorrect, RingInvariant, ContentInvariant, PTL DEF Spec
=============================================================================
