--------------------------- MODULE ScanSyncProofs ---------------------------
(***************************************************************************)
(* The pairing of scans and IMU measurements for any number of scans and   *)
(* measurements, any stamps and any durations; and that the odometry built *)
(* on it, LioPipeline, keeps to it and maps each scan as it came.          *)
(***************************************************************************)
EXTENDS LioProperties, FiniteSetTheorems, SequenceTheorems, WellFoundedInduction, TLAPS

LEMMA PairIsSeq == ASSUME NEW S, NEW a \in S, NEW b \in S PROVE <<a, b>> \in Seq(S)
OBVIOUS

LEMMA PairFromOne ==
  ASSUME NEW S, NEW a \in S, NEW b \in S
  PROVE  Append(<<a>>, b) = <<a, b>> /\ Len(<<a, b>>) = 2 /\ Tail(<<a, b>>) = <<b>>
<1>1. Append(<<>>, a) = <<a>> /\ <<>> \in Seq(S)  OBVIOUS
<1>2. Len(<<a, b>>) = 2  OBVIOUS
<1>3. <<a>> \in Seq(S) /\ Len(<<a>>) = 1 /\ <<a>>[1] = a  OBVIOUS
<1>4. Append(<<a>>, b) = <<a, b>>
  <2>1. /\ Append(<<a>>, b) \in Seq(S) /\ Len(Append(<<a>>, b)) = 2
        /\ Append(<<a>>, b)[1] = a /\ Append(<<a>>, b)[2] = b
    BY <1>3, AppendProperties
  <2>2. <<a, b>> \in Seq(S) /\ <<a, b>>[1] = a /\ <<a, b>>[2] = b  OBVIOUS
  <2>3. \A i \in 1 .. 2 : i = 1 \/ i = 2  OBVIOUS
  <2> QED  BY <2>1, <2>2, <2>3, <1>2, SeqEqual
<1>5. Tail(<<a, b>>) = <<b>>
  <2>1. Tail(Append(<<a>>, b)) = Append(Tail(<<a>>), b)  BY <1>3, HeadTailAppend
  <2>2. Tail(<<a>>) = <<>>  BY <1>1, HeadTailAppend
  <2>3. Append(<<>>, b) = <<b>>  OBVIOUS
  <2> QED  BY <1>4, <2>1, <2>2, <2>3
<1> QED  BY <1>2, <1>4, <1>5

LEMMA StampsAreNat == Stamps \subseteq Nat
BY SyncAssumption DEF Stamps

-----------------------------------------------------------------------------
(* What is taken from the front of the IMU buffer, and what is left.       *)

\* The positions the loop of syncPackages takes when it takes any.
Early(end) == {i \in DOMAIN imu_buffer :
                 imu_buffer[i] <= end /\ \A j \in 1 .. i - 1 : imu_buffer[j] < end}

LEMMA EarlyFinite ==
  ASSUME imu_buffer \in Seq(Stamps), NEW end \in Nat
  PROVE  /\ IsFiniteSet(Early(end))
         /\ Cardinality(Early(end)) \in 0 .. Len(imu_buffer)
<1>1. Len(imu_buffer) \in Nat /\ DOMAIN imu_buffer = 1 .. Len(imu_buffer)
  BY LenProperties
<1>2. Early(end) \in SUBSET (1 .. Len(imu_buffer))  BY <1>1 DEF Early
<1>3. /\ IsFiniteSet(1 .. Len(imu_buffer))
      /\ Cardinality(1 .. Len(imu_buffer)) = Len(imu_buffer)
  BY <1>1, FS_Interval
<1>4. /\ IsFiniteSet(Early(end))
      /\ Cardinality(Early(end)) <= Len(imu_buffer)
  BY <1>2, <1>3, FS_Subset
<1> QED  BY <1>1, <1>4, FS_CardinalityType

LEMMA TakenRange ==
  ASSUME imu_buffer \in Seq(Stamps), NEW end \in Nat
  PROVE  Taken(end) \in 0 .. Len(imu_buffer)
<1>1. Taken(end) = IF imu_buffer[1] >= end THEN 0 ELSE Cardinality(Early(end))
  BY DEF Taken, Early
<1> QED  BY <1>1, EarlyFinite, LenProperties

\* Nothing older than the end of the scan stays behind in an ordered buffer.
LEMMA TakenAll ==
  ASSUME imu_buffer \in Seq(Stamps), NEW end \in Nat,
         \A i, j \in DOMAIN imu_buffer : i <= j => imu_buffer[i] <= imu_buffer[j],
         NEW i \in DOMAIN imu_buffer, i > Taken(end)
  PROVE  imu_buffer[i] >= end
<1>1. /\ Len(imu_buffer) \in Nat /\ DOMAIN imu_buffer = 1 .. Len(imu_buffer)
      /\ \A k \in DOMAIN imu_buffer : imu_buffer[k] \in Nat
  BY LenProperties, StampsAreNat
<1>2. i \in Nat /\ i >= 1 /\ 1 \in DOMAIN imu_buffer  BY <1>1
<1>3. CASE imu_buffer[1] >= end
  <2>1. imu_buffer[1] <= imu_buffer[i]  BY <1>2
  <2> QED  BY <2>1, <1>3, <1>1, <1>2
<1>4. CASE ~(imu_buffer[1] >= end)
  <2>1. Taken(end) = Cardinality(Early(end))  BY <1>4 DEF Taken, Early
  <2>2. i \notin Early(end)
    <3> SUFFICES ASSUME i \in Early(end) PROVE FALSE  OBVIOUS
    <3>1. ASSUME NEW k \in 1 .. i PROVE k \in Early(end)
      <4>1. k \in DOMAIN imu_buffer /\ imu_buffer[k] \in Nat /\ imu_buffer[i] \in Nat
        BY <1>1
      <4>2. imu_buffer[k] <= end  BY <4>1, <1>2 DEF Early
      <4>3. \A j \in 1 .. k - 1 : imu_buffer[j] < end  BY <1>2 DEF Early
      <4> QED  BY <4>1, <4>2, <4>3 DEF Early
    <3>2. (1 .. i) \in SUBSET Early(end)  BY <3>1
    <3>3. Cardinality(1 .. i) <= Cardinality(Early(end))
      BY <3>2, EarlyFinite, FS_Subset
    <3>4. Cardinality(1 .. i) = i  BY <1>2, FS_Interval
    <3> QED  BY <3>3, <3>4, <2>1, EarlyFinite, <1>1, <1>2
  <2>3. PICK j \in 1 .. i : imu_buffer[j] >= end
    <3>1. imu_buffer[i] <= end \/ imu_buffer[i] >= end  BY <1>1
    <3>2. ~(imu_buffer[i] <= end) => imu_buffer[i] >= end  BY <1>1
    <3>3. ASSUME imu_buffer[i] <= end PROVE \E j \in 1 .. i : imu_buffer[j] >= end
      <4>1. PICK j \in 1 .. i - 1 : ~(imu_buffer[j] < end)  BY <2>2, <3>3 DEF Early
      <4>2. j \in 1 .. i /\ imu_buffer[j] \in Nat  BY <1>1, <1>2
      <4> QED  BY <4>1, <4>2
    <3> QED  BY <3>2, <3>3, <1>2
  <2>4. /\ imu_buffer[j] <= imu_buffer[i] /\ imu_buffer[j] \in Nat
        /\ imu_buffer[i] \in Nat
    BY <1>1, <1>2
  <2> QED  BY <2>3, <2>4
<1> QED  BY <1>3, <1>4

\* What is left keeps its order and its values.
LEMMA RestOf ==
  ASSUME imu_buffer \in Seq(Stamps), NEW n \in 0 .. Len(imu_buffer)
  PROVE  /\ SubSeq(imu_buffer, 1, n) \in Seq(Stamps)
         /\ Rest(n) \in Seq(Stamps)
         /\ DOMAIN Rest(n) = 1 .. Len(imu_buffer) - n
         /\ \A i \in DOMAIN Rest(n) : Rest(n)[i] = imu_buffer[i + n]
         /\ SubSeq(imu_buffer, 1, n) \o Rest(n) = imu_buffer
<1>1. Len(imu_buffer) \in Nat /\ \A k \in 1 .. Len(imu_buffer) : imu_buffer[k] \in Stamps
  BY LenProperties
<1>2. SubSeq(imu_buffer, 1, n) \in Seq(Stamps)  BY <1>1, SubSeqProperties
<1>3. /\ Rest(n) \in Seq(Stamps)
      /\ Len(Rest(n)) = Len(imu_buffer) - n
      /\ \A i \in 1 .. Len(imu_buffer) - n : Rest(n)[i] = imu_buffer[i + n]
  <2>1. \A i \in n + 1 .. Len(imu_buffer) : imu_buffer[i] \in Stamps  BY <1>1
  <2>2. n + 1 \in Int /\ Len(imu_buffer) \in Int  BY <1>1
  <2> DEFINE L == Len(imu_buffer)
  <2>3. /\ SubSeq(imu_buffer, n + 1, L) \in Seq(Stamps)
        /\ Len(SubSeq(imu_buffer, n + 1, L)) = IF n + 1 <= L THEN L - (n + 1) + 1 ELSE 0
        /\ \A i \in 1 .. L - (n + 1) + 1 :
             SubSeq(imu_buffer, n + 1, L)[i] = imu_buffer[n + 1 + i - 1]
    BY ONLY <2>1, <2>2, SubSeqProperties
  <2>4. L - (n + 1) + 1 = L - n /\ \A i \in Int : n + 1 + i - 1 = i + n  BY <1>1
  <2>5. n + 1 <= L => L - (n + 1) + 1 = L - n  BY <1>1
  <2>6. ~(n + 1 <= L) => L - n = 0  BY <1>1
  <2>7. Rest(n) = SubSeq(imu_buffer, n + 1, L)  BY DEF Rest
  <2>8. Len(Rest(n)) = L - n  BY <2>3, <2>5, <2>6, <2>7
  <2>9. \A i \in 1 .. L - n : i \in Int /\ Rest(n)[i] = imu_buffer[n + 1 + i - 1]
    BY <2>3, <2>4, <2>7, <1>1
  <2>10. \A i \in 1 .. L - n : Rest(n)[i] = imu_buffer[i + n]  BY <2>4, <2>9
  <2> QED  BY <2>3, <2>7, <2>8, <2>10
<1>4. DOMAIN Rest(n) = 1 .. Len(imu_buffer) - n  BY <1>3, LenProperties
<1>5. SubSeq(imu_buffer, 1, n) \o Rest(n) = SubSeq(imu_buffer, 1, Len(imu_buffer))
  <2>1. /\ 1 \in 1 .. Len(imu_buffer) + 1
        /\ n \in 1 - 1 .. Len(imu_buffer)
        /\ Len(imu_buffer) \in n .. Len(imu_buffer)
    BY <1>1
  <2> QED  BY <2>1, ConcatAdjacentSubSeq DEF Rest
<1>6. SubSeq(imu_buffer, 1, Len(imu_buffer)) = imu_buffer  BY SubSeqFull
<1> QED  BY <1>2, <1>3, <1>4, <1>5, <1>6

-----------------------------------------------------------------------------
(* Types.                                                                  *)

LEMMA TypeInit == Init => TypeOK
<1> SUFFICES ASSUME Init PROVE TypeOK  OBVIOUS
<1>1. /\ <<>> \in Seq(Scans) /\ <<>> \in Seq(Stamps)
      /\ Len(lidar_buffer) = 0 /\ Len(time_buffer) = 0
  BY EmptySeq DEF Init
<1>2. NoGroup \in Groups  BY <1>1 DEF NoGroup, Groups
<1>3. Len(time_buffer) >= Len(lidar_buffer)  BY <1>1
<1>4. last_lidar \in Nat /\ last_imu \in Nat  BY SyncAssumption DEF Init
<1> QED  BY <1>1, <1>2, <1>3, <1>4 DEF Init, TypeOK

LEMMA HeldType ==
  ASSUME TypeOK, Ready
  PROVE  Held \in Groups /\ time_buffer # <<>>
<1>1. Head(lidar_buffer) \in Scans /\ Len(lidar_buffer) > 0
  BY LenProperties, EmptySeq, HeadTailProperties DEF TypeOK, Ready
<1>2. Len(time_buffer) > 0  BY <1>1, LenProperties DEF TypeOK
<1>3. time_buffer # <<>>  BY <1>2, EmptySeq
<1>4. Head(time_buffer) \in Nat
  BY <1>3, HeadTailProperties, StampsAreNat DEF TypeOK
<1>5. Head(lidar_buffer).dur \in Nat  BY <1>1, SyncAssumption DEF Scans
<1>6. Head(time_buffer) + Head(lidar_buffer).dur \in Nat  BY <1>4, <1>5
<1> QED  BY <1>1, <1>3, <1>4, <1>6 DEF TypeOK, Held, Groups

LEMMA TypeNext == TypeOK /\ [Next]_vars => TypeOK'
<1> SUFFICES ASSUME TypeOK, [Next]_vars PROVE TypeOK'  OBVIOUS
<1>1. ASSUME NEW s \in Stamps, NEW d \in Durations, LidarCallback(s, d) PROVE TypeOK'
  <2> DEFINE front == IF s < last_lidar THEN <<>> ELSE lidar_buffer
             scan == [stamp |-> s, dur |-> d]
  <2>1. scan \in Scans  BY DEF Scans
  <2>2. front \in Seq(Scans) /\ Len(front) \in Nat /\ Len(front) <= Len(time_buffer)
    BY LenProperties, EmptySeq DEF TypeOK
  <2>3. lidar_buffer' \in Seq(Scans) /\ Len(lidar_buffer') = Len(front) + 1
    BY <1>1, <2>1, <2>2, AppendProperties DEF LidarCallback
  <2>4. time_buffer' \in Seq(Stamps) /\ Len(time_buffer') = Len(time_buffer) + 1
    BY <1>1, AppendProperties DEF TypeOK, LidarCallback
  <2>5. Len(time_buffer') >= Len(lidar_buffer')
    BY <2>2, <2>3, <2>4, LenProperties DEF TypeOK
  <2>6. last_lidar' \in Nat /\ scans' \in Nat  BY <1>1, StampsAreNat DEF TypeOK, LidarCallback
  <2> QED  BY <1>1, <2>3, <2>4, <2>5, <2>6 DEF TypeOK, LidarCallback, imuVars
<1>2. ASSUME NEW t \in Stamps, ImuCallback(t) PROVE TypeOK'
  <2>1. last_imu' \in Nat /\ imus' \in Nat  BY <1>2, StampsAreNat DEF TypeOK, ImuCallback
  <2>2. imu_buffer' \in Seq(Stamps) /\ seen' \in Seq(Stamps) /\ preintegration' \in BOOLEAN
    <3>1. <<t>> \in Seq(Stamps)  OBVIOUS
    <3>2. /\ Append(imu_buffer, t) \in Seq(Stamps)
          /\ Append(seen, t) \in Seq(Stamps)
          /\ Append(used, t) \in Seq(Stamps)
      BY AppendProperties DEF TypeOK
    <3> QED  BY <1>2, <3>1, <3>2 DEF TypeOK, ImuCallback
  <2>3. imu_queue' \in Seq(Stamps) /\ integrated' \in Seq(Stamps)
    <3>1. CASE UNCHANGED <<imu_queue, integrated>>  BY <3>1 DEF TypeOK
    <3>2. CASE Integrate(t)
      <4> DEFINE queue == Append(imu_queue, t)
      <4>0. imu_queue \in Seq(Stamps)  BY DEF TypeOK
      <4>1. queue \in Seq(Stamps) /\ queue # <<>> /\ Len(queue) \in Nat
        <5>1. queue \in Seq(Stamps) /\ queue # <<>>  BY <4>0, AppendProperties
        <5> QED  BY <5>1, LenProperties
      <4>2. CASE Len(queue) < 2  BY <3>2, <4>1, <4>2 DEF Integrate, TypeOK
      <4>3. CASE ~(Len(queue) < 2)
        <5>1. Tail(queue) \in Seq(Stamps)  BY <4>1, HeadTailProperties
        <5>2. queue[1] \in Stamps /\ queue[2] \in Stamps  BY <4>1, <4>3, ElementOfSeq
        <5> HIDE DEF queue
        <5>3. <<queue[1], queue[2]>> \in Seq(Stamps)  BY <5>2, PairIsSeq
        <5>4. imu_queue' = Tail(queue)  BY <3>2, <4>3 DEF Integrate, queue
        <5>5. integrated' \in {integrated, <<queue[1], queue[2]>>}
          BY <3>2, <4>3 DEF Integrate, queue
        <5> QED  BY <5>1, <5>3, <5>4, <5>5 DEF TypeOK
      <4> QED  BY <4>2, <4>3
    <3> QED  BY <1>2, <3>1, <3>2 DEF ImuCallback
  <2> QED  BY <1>2, <2>1, <2>2, <2>3 DEF TypeOK, ImuCallback, lidarVars
<1>3. CASE Hold
  BY <1>3, HeldType DEF TypeOK, Hold, lidarVars, imuVars
<1>4. CASE Emit
  <2> DEFINE n == Taken(Held.end)
  <2>1. Ready /\ Held \in Groups /\ time_buffer # <<>> /\ lidar_buffer # <<>>
    BY <1>4, HeldType DEF Emit, Take, Ready
  <2>2. Held.end \in Nat  BY <2>1 DEF Groups
  <2>3. n \in 0 .. Len(imu_buffer)  BY <2>2, TakenRange DEF TypeOK
  <2>4. SubSeq(imu_buffer, 1, n) \in Seq(Stamps) /\ Rest(n) \in Seq(Stamps)
    BY <2>3, RestOf DEF TypeOK
  <2>5. group' = [Held EXCEPT !.imu = SubSeq(imu_buffer, 1, n)] /\ meas' = group'
    BY <1>4 DEF Emit, Take
  <2>6. group' \in Groups /\ group'.imu = SubSeq(imu_buffer, 1, n)
    BY <2>1, <2>4, <2>5 DEF Groups
  <2>7. imu_buffer' \in Seq(Stamps)  BY <1>4, <2>4 DEF Emit, Take
  <2>8. used' \in Seq(Stamps)
    BY <1>4, <2>4, <2>6, ConcatProperties DEF Emit, Take, TypeOK
  <2>9. lidar_buffer' \in Seq(Scans) /\ Len(lidar_buffer') = Len(lidar_buffer) - 1
    BY <1>4, <2>1, HeadTailProperties DEF Emit, Take, TypeOK
  <2>10. time_buffer' \in Seq(Stamps) /\ Len(time_buffer') = Len(time_buffer) - 1
    BY <1>4, <2>1, HeadTailProperties DEF Emit, Take, TypeOK
  <2>11. Len(time_buffer') >= Len(lidar_buffer')
    BY <2>9, <2>10, LenProperties DEF TypeOK
  <2> QED
    BY <1>4, <2>5, <2>6, <2>7, <2>8, <2>9, <2>10, <2>11 DEF TypeOK, Emit, Take
<1>5. CASE UNCHANGED vars
  BY <1>5 DEF TypeOK, vars, lidarVars, imuVars
<1> QED  BY <1>1, <1>2, <1>3, <1>4, <1>5 DEF Next

(* Every variable keeps its type, whatever comes in: in particular a scan  *)
(* never waits without a stamp, so that syncPackages takes the front of    *)
(* time_buffer_ and pops it only while it has one.                         *)
THEOREM SyncTypeCorrect == Spec => []TypeOK
BY TypeInit, TypeNext, PTL DEF Spec

-----------------------------------------------------------------------------
(* Before the first message of a kind nothing of it is stored: that the    *)
(* first one may precede the time of construction has no effect.           *)

Fresh ==
  /\ scans = 0 => lidar_buffer = <<>>
  /\ imus = 0 => /\ imu_buffer = <<>> /\ imu_queue = <<>>
                 /\ ~preintegration /\ group.end = 0

LEMMA FreshNext == TypeOK /\ Fresh /\ [Next]_vars => Fresh'
<1> SUFFICES ASSUME TypeOK, Fresh, [Next]_vars PROVE Fresh'  OBVIOUS
<1>1. ASSUME NEW s \in Stamps, NEW d \in Durations, LidarCallback(s, d) PROVE Fresh'
  <2>1. scans' # 0  BY <1>1 DEF LidarCallback, TypeOK
  <2> QED  BY <1>1, <2>1 DEF LidarCallback, imuVars, Fresh
<1>2. ASSUME NEW t \in Stamps, ImuCallback(t) PROVE Fresh'
  <2>1. imus' # 0  BY <1>2 DEF ImuCallback, TypeOK
  <2> QED  BY <1>2, <2>1 DEF ImuCallback, lidarVars, Fresh
<1>3. CASE Hold  BY <1>3 DEF Hold, lidarVars, imuVars, Fresh
<1>4. CASE Emit
  <2>1. scans # 0 /\ imus # 0  BY <1>4 DEF Emit, Take, Ready, Fresh
  <2>2. UNCHANGED <<scans, imus>>  BY <1>4 DEF Emit, Take
  <2> QED  BY <2>1, <2>2 DEF Fresh
<1>5. CASE UNCHANGED vars  BY <1>5 DEF vars, lidarVars, imuVars, Fresh
<1> QED  BY <1>1, <1>2, <1>3, <1>4, <1>5 DEF Next

(* Before the first scan and the first measurement the buffers are empty   *)
(* and the preintegration is not running.                                  *)
THEOREM FreshHolds == Spec => []Fresh
<1>1. Init => Fresh  BY DEF Init, Fresh, NoGroup
<1> QED  BY <1>1, FreshNext, SyncTypeCorrect, PTL DEF Spec

-----------------------------------------------------------------------------
(* A scan and its time.                                                    *)

LEMMA LoopedGrows == [Next]_vars => looped \subseteq looped'
<1> SUFFICES ASSUME [Next]_vars PROVE looped \subseteq looped'  OBVIOUS
<1>1. ASSUME NEW s \in Stamps, NEW d \in Durations, LidarCallback(s, d)
      PROVE  looped \subseteq looped'
  BY <1>1 DEF LidarCallback
<1>2. ASSUME NEW t \in Stamps, ImuCallback(t) PROVE looped \subseteq looped'
  BY <1>2 DEF ImuCallback
<1>3. CASE Hold  BY <1>3 DEF Hold
<1>4. CASE Emit  BY <1>4 DEF Emit, Take
<1>5. CASE UNCHANGED vars  BY <1>5 DEF vars
<1> QED  BY <1>1, <1>2, <1>3, <1>4, <1>5 DEF Next

LEMMA HeldPairs ==
  ASSUME TypeOK, Paired, Ready
  PROVE  /\ Held.lidar = Head(lidar_buffer)
         /\ Held.beg = Held.lidar.stamp
<1>1. CASE lidar_pushed
  BY <1>1 DEF Held, Paired, HeldIsFirst
<1>2. CASE ~lidar_pushed
  <2>1. Len(lidar_buffer) \in Nat /\ Len(lidar_buffer) > 0 /\ lidar_buffer # <<>>
    BY LenProperties, EmptySeq DEF TypeOK, Ready
  <2>2. Len(time_buffer) > 0 /\ time_buffer[1] = lidar_buffer[1].stamp
    <3>1. 1 \in DOMAIN lidar_buffer  BY <2>1, LenProperties DEF TypeOK
    <3> QED  BY <3>1, <2>1 DEF Paired, BuffersAligned
  <2>3. Head(time_buffer) = time_buffer[1] /\ Head(lidar_buffer) = lidar_buffer[1]
    OBVIOUS
  <2>4. Held = [meas EXCEPT !.lidar = Head(lidar_buffer), !.beg = Head(time_buffer),
                            !.end = Head(time_buffer) + Head(lidar_buffer).dur]
    BY <1>2 DEF Held
  <2>5. Held.lidar = Head(lidar_buffer) /\ Held.beg = Head(time_buffer)
    BY <2>4 DEF TypeOK, Groups
  <2> QED  BY <2>2, <2>3, <2>5
<1> QED  BY <1>1, <1>2 DEF TypeOK

LEMMA PairedInit == Init => Paired
<1> SUFFICES ASSUME Init PROVE Paired  OBVIOUS
<1>1. DOMAIN lidar_buffer = {}  BY DEF Init
<1> QED
  BY <1>1 DEF Init, Paired, BuffersAligned, HeldIsFirst, ScanHasItsTime, NoGroup, NoScan

LEMMA PairedNext ==
  ASSUME TypeOK, Fresh, Paired, [Next]_vars, "lidar" \notin looped'
  PROVE  Paired'
<1>0. /\ lidar_buffer \in Seq(Scans) /\ time_buffer \in Seq(Stamps)
      /\ Len(lidar_buffer) \in Nat /\ DOMAIN lidar_buffer = 1 .. Len(lidar_buffer)
      /\ Len(time_buffer) = Len(lidar_buffer)
      /\ \A i \in 1 .. Len(lidar_buffer) : time_buffer[i] = lidar_buffer[i].stamp
  BY LenProperties DEF TypeOK, Paired, BuffersAligned
<1>1. ASSUME NEW s \in Stamps, NEW d \in Durations, LidarCallback(s, d) PROVE Paired'
  <2> DEFINE scan == [stamp |-> s, dur |-> d]
             L    == Len(lidar_buffer)
  <2>1. scan \in Scans /\ scan.stamp = s  BY DEF Scans
  <2>2. ~(s < last_lidar) \/ lidar_buffer = <<>>
    BY <1>1, StampsAreNat DEF LidarCallback, TypeOK, Fresh
  <2>3. lidar_buffer' = Append(lidar_buffer, scan) /\ time_buffer' = Append(time_buffer, s)
    BY <1>1, <2>2 DEF LidarCallback
  <2> HIDE DEF scan
  <2>4. /\ lidar_buffer' \in Seq(Scans) /\ lidar_buffer' # <<>>
        /\ Len(lidar_buffer') = L + 1
        /\ lidar_buffer'[L + 1] = scan
        /\ \A i \in 1 .. L : lidar_buffer'[i] = lidar_buffer[i]
    BY <1>0, <2>1, <2>3, AppendProperties
  <2>5. /\ Len(time_buffer') = L + 1 /\ time_buffer'[L + 1] = s
        /\ \A i \in 1 .. L : time_buffer'[i] = time_buffer[i]
    BY <1>0, <2>3, AppendProperties
  <2>6. DOMAIN lidar_buffer' = 1 .. L + 1  BY <2>4, LenProperties
  <2>7. ASSUME NEW i \in 1 .. L + 1 PROVE time_buffer'[i] = lidar_buffer'[i].stamp
    <3>1. i \in 1 .. L \/ i = L + 1  BY <1>0
    <3> QED  BY <3>1, <1>0, <2>1, <2>4, <2>5
  <2>8. BuffersAligned'  BY <2>4, <2>5, <2>6, <2>7 DEF BuffersAligned
  <2>9. HeldIsFirst'
    <3>1. lidar_buffer # <<>> => Head(lidar_buffer') = Head(lidar_buffer)
      BY <1>0, <2>3, HeadTailAppend
    <3>2. UNCHANGED <<lidar_pushed, meas>>  BY <1>1 DEF LidarCallback
    <3> QED  BY <2>4, <3>1, <3>2 DEF Paired, HeldIsFirst
  <2>10. ScanHasItsTime'  BY <1>1 DEF LidarCallback, Paired, ScanHasItsTime
  <2> QED  BY <2>8, <2>9, <2>10 DEF Paired
<1>2. ASSUME NEW t \in Stamps, ImuCallback(t) PROVE Paired'
  BY <1>2 DEF ImuCallback, lidarVars, Paired, BuffersAligned, HeldIsFirst, ScanHasItsTime
<1>3. CASE Hold
  <2>1. /\ meas' = Held /\ Ready /\ UNCHANGED <<lidar_buffer, time_buffer, group>>
    BY <1>3 DEF Hold, lidarVars
  <2>2. Held.lidar = Head(lidar_buffer) /\ Held.beg = Held.lidar.stamp
    BY <2>1, HeldPairs
  <2> QED
    BY <2>1, <2>2 DEF Ready, Paired, BuffersAligned, HeldIsFirst, ScanHasItsTime
<1>4. CASE Emit
  <2> DEFINE L == Len(lidar_buffer)
  <2>1. Ready /\ lidar_buffer # <<>> /\ time_buffer # <<>> /\ Held \in Groups
    BY <1>4, HeldType DEF Emit, Take, Ready
  <2>2. /\ lidar_buffer' \in Seq(Scans) /\ Len(lidar_buffer') = L - 1
        /\ \A i \in 1 .. L - 1 : lidar_buffer'[i] = lidar_buffer[i + 1]
    BY <1>0, <1>4, <2>1, HeadTailProperties DEF Emit, Take
  <2>3. /\ time_buffer' \in Seq(Stamps) /\ Len(time_buffer') = L - 1
        /\ \A i \in 1 .. L - 1 : time_buffer'[i] = time_buffer[i + 1]
    BY <1>0, <1>4, <2>1, HeadTailProperties DEF Emit, Take
  <2>4. DOMAIN lidar_buffer' = 1 .. L - 1  BY <2>2, LenProperties
  <2>5. \A i \in 1 .. L - 1 : i + 1 \in 1 .. L  BY <1>0
  <2>6. BuffersAligned'
    BY <2>2, <2>3, <2>4, <2>5, <1>0 DEF BuffersAligned
  <2>7. HeldIsFirst'  BY <1>4 DEF Emit, Take, HeldIsFirst
  <2>8. ScanHasItsTime'
    <3>1. group' = [Held EXCEPT !.imu = SubSeq(imu_buffer, 1, Taken(Held.end))]
      BY <1>4 DEF Emit, Take
    <3>2. group'.beg = Held.beg /\ group'.lidar = Held.lidar
      BY <3>1, <2>1 DEF Groups
    <3> QED  BY <3>2, <2>1, HeldPairs DEF ScanHasItsTime
  <2> QED  BY <2>6, <2>7, <2>8 DEF Paired
<1>5. CASE UNCHANGED vars
  BY <1>5 DEF vars, lidarVars, Paired, BuffersAligned, HeldIsFirst, ScanHasItsTime
<1> QED  BY <1>1, <1>2, <1>3, <1>4, <1>5 DEF Next

(* Until a scan jumps back, the filter gets every scan with its own time,  *)
(* and the scan syncPackages holds is the one it pops.                     *)
THEOREM PairingHolds == Spec => []PairingInv
<1>1. Init => PairingInv  BY PairedInit DEF PairingInv
<1>2. TypeOK /\ Fresh /\ PairingInv /\ [Next]_vars => PairingInv'
  BY LoopedGrows, PairedNext DEF PairingInv
<1> QED  BY <1>1, <1>2, SyncTypeCorrect, FreshHolds, PTL DEF Spec

-----------------------------------------------------------------------------
(* No measurement is lost, repeated or reordered.                          *)

LEMMA InOrderInit == Init => ImuInOrder
<1> SUFFICES ASSUME Init PROVE ImuInOrder  OBVIOUS
<1>1. used \in Seq(Stamps) /\ imu_buffer = <<>> /\ seen = used  BY EmptySeq DEF Init
<1>2. used \o <<>> = used  BY <1>1, ConcatEmptySeq
<1> QED  BY <1>1, <1>2 DEF ImuInOrder

LEMMA InOrderNext == TypeOK /\ ImuInOrder /\ [Next]_vars => ImuInOrder'
<1> SUFFICES ASSUME TypeOK, ImuInOrder, [Next]_vars PROVE ImuInOrder'  OBVIOUS
<1>0. used \in Seq(Stamps) /\ imu_buffer \in Seq(Stamps) /\ seen = used \o imu_buffer
  BY DEF TypeOK, ImuInOrder
<1>1. ASSUME NEW s \in Stamps, NEW d \in Durations, LidarCallback(s, d) PROVE ImuInOrder'
  BY <1>1 DEF LidarCallback, imuVars, ImuInOrder
<1>2. ASSUME NEW t \in Stamps, ImuCallback(t) PROVE ImuInOrder'
  <2>1. used' = used  BY <1>2 DEF ImuCallback
  <2>2. CASE t < last_imu
    <3>1. imu_buffer' = <<t>> /\ seen' = Append(used, t)  BY <1>2, <2>2 DEF ImuCallback
    <3>2. Append(used, t) = used \o <<t>>  BY <1>0, AppendIsConcat
    <3> QED  BY <2>1, <3>1, <3>2 DEF ImuInOrder
  <2>3. CASE ~(t < last_imu)
    <3>1. imu_buffer' = Append(imu_buffer, t) /\ seen' = Append(seen, t)
      BY <1>2, <2>3 DEF ImuCallback
    <3>2. Append(imu_buffer, t) = imu_buffer \o <<t>>  BY <1>0, AppendIsConcat
    <3>3. seen \in Seq(Stamps) /\ <<t>> \in Seq(Stamps)  BY DEF TypeOK
    <3>4. Append(seen, t) = seen \o <<t>>  BY <3>3, AppendIsConcat
    <3>5. (used \o imu_buffer) \o <<t>> = used \o (imu_buffer \o <<t>>)
      BY <1>0, <3>3, ConcatAssociative
    <3> QED  BY <1>0, <2>1, <3>1, <3>2, <3>4, <3>5 DEF ImuInOrder
  <2> QED  BY <2>2, <2>3
<1>3. CASE Hold
  BY <1>3 DEF Hold, imuVars, ImuInOrder
<1>4. CASE Emit
  <2> DEFINE n == Taken(Held.end)
             taken == SubSeq(imu_buffer, 1, n)
  <2>1. Ready /\ Held \in Groups  BY <1>4, HeldType DEF Emit, Take
  <2>2. n \in 0 .. Len(imu_buffer)  BY <1>0, <2>1, TakenRange DEF Groups
  <2>3. taken \in Seq(Stamps) /\ Rest(n) \in Seq(Stamps) /\ taken \o Rest(n) = imu_buffer
    BY <1>0, <2>2, RestOf
  <2>4. group' = [Held EXCEPT !.imu = taken]  BY <1>4 DEF Emit, Take
  <2>5. group'.imu = taken  BY <2>1, <2>4 DEF Groups
  <2>6. used' = used \o taken /\ imu_buffer' = Rest(n) /\ seen' = seen
    BY <1>4, <2>5 DEF Emit, Take
  <2> HIDE DEF n, taken
  <2>7. (used \o taken) \o Rest(n) = used \o (taken \o Rest(n))
    <3> DEFINE rest == Rest(n)
    <3>1. used \in Seq(Stamps) /\ taken \in Seq(Stamps) /\ rest \in Seq(Stamps)
      BY <1>0, <2>3
    <3> HIDE DEF rest
    <3>2. (used \o taken) \o rest = used \o (taken \o rest)
      BY <3>1, ConcatAssociative
    <3> QED  BY <3>2 DEF rest
  <2> QED  BY <1>0, <2>3, <2>6, <2>7 DEF ImuInOrder
<1>5. CASE UNCHANGED vars
  BY <1>5 DEF vars, imuVars, ImuInOrder
<1> QED  BY <1>1, <1>2, <1>3, <1>4, <1>5 DEF Next

(* What was handed to the filter and what waits is what was received, in   *)
(* order and once, through held scans, loopbacks and both ways the loop of *)
(* syncPackages ends.                                                      *)
THEOREM ImuInOrderHolds == Spec => []ImuInOrder
BY InOrderInit, InOrderNext, SyncTypeCorrect, PTL DEF Spec

-----------------------------------------------------------------------------
(* The measurements of a group are complete. The buffer is ordered, which  *)
(* a loopback does not break because it empties it, and last_imu bounds    *)
(* what is in it.                                                          *)

BufferOrdered ==
  /\ \A i, j \in DOMAIN imu_buffer : i <= j => imu_buffer[i] <= imu_buffer[j]
  /\ \A i \in DOMAIN imu_buffer : imu_buffer[i] <= last_imu

CompleteInv ==
  /\ BufferOrdered
  /\ last_imu >= group.end
  /\ \A i \in DOMAIN imu_buffer : imu_buffer[i] >= group.end

LEMMA CompleteInit == Init => CompleteInv
<1> SUFFICES ASSUME Init PROVE CompleteInv  OBVIOUS
<1>1. DOMAIN imu_buffer = {}  BY DEF Init
<1> QED  BY <1>1 DEF Init, CompleteInv, BufferOrdered, NoGroup

LEMMA CompleteNext ==
  ASSUME TypeOK, Fresh, CompleteInv, [Next]_vars, "imu" \notin looped'
  PROVE  CompleteInv'
<1> DEFINE L == Len(imu_buffer)
<1>0. /\ imu_buffer \in Seq(Stamps) /\ L \in Nat /\ DOMAIN imu_buffer = 1 .. L
      /\ \A i \in 1 .. L : imu_buffer[i] \in Nat
      /\ last_imu \in Nat /\ group.end \in Nat
  BY LenProperties, StampsAreNat DEF TypeOK, Groups
<1>1. ASSUME NEW s \in Stamps, NEW d \in Durations, LidarCallback(s, d) PROVE CompleteInv'
  BY <1>1 DEF LidarCallback, imuVars, CompleteInv, BufferOrdered
<1>2. ASSUME NEW t \in Stamps, ImuCallback(t) PROVE CompleteInv'
  <2>1. t \in Nat /\ (t >= last_imu \/ (imu_buffer = <<>> /\ group.end = 0))
    BY <1>0, <1>2, StampsAreNat DEF ImuCallback, Fresh, TypeOK
  <2>2. imu_buffer' = Append(imu_buffer, t) /\ last_imu' = t /\ group' = group
    <3>1. CASE t < last_imu
      <4>1. imu_buffer = <<>>  BY <1>0, <2>1, <3>1
      <4>2. imu_buffer' = <<t>>  BY <1>2, <3>1 DEF ImuCallback
      <4> QED  BY <1>2, <4>1, <4>2 DEF ImuCallback
    <3>2. CASE ~(t < last_imu)  BY <1>2, <3>2 DEF ImuCallback
    <3> QED  BY <3>1, <3>2
  <2>3. /\ imu_buffer' \in Seq(Stamps) /\ Len(imu_buffer') = L + 1
        /\ imu_buffer'[L + 1] = t
        /\ \A i \in 1 .. L : imu_buffer'[i] = imu_buffer[i]
    BY <1>0, <2>2, AppendProperties
  <2>4. DOMAIN imu_buffer' = 1 .. L + 1  BY <2>3, LenProperties
  <2>5. \A i \in 1 .. L + 1 : i \in 1 .. L \/ i = L + 1  BY <1>0
  <2>6. \A i \in 1 .. L : imu_buffer[i] <= t
    <3>1. CASE t >= last_imu  BY <1>0, <2>1, <3>1 DEF CompleteInv, BufferOrdered
    <3>2. CASE imu_buffer = <<>>  BY <3>2
    <3> QED  BY <2>1, <3>1, <3>2
  <2>7. \A i \in 1 .. L + 1 : imu_buffer'[i] <= t
    BY <2>1, <2>3, <2>5, <2>6
  <2>8. ASSUME NEW i \in 1 .. L + 1, NEW j \in 1 .. L + 1, i <= j
        PROVE imu_buffer'[i] <= imu_buffer'[j]
    <3>1. CASE j = L + 1  BY <2>3, <2>7, <3>1
    <3>2. CASE j \in 1 .. L
      <4>1. i \in 1 .. L  BY <2>8, <3>2, <1>0
      <4> QED  BY <4>1, <3>2, <2>8, <2>3, <1>0 DEF CompleteInv, BufferOrdered
    <3> QED  BY <2>5, <3>1, <3>2
  <2>9. t >= group.end  BY <1>0, <2>1 DEF CompleteInv
  <2>10. \A i \in 1 .. L + 1 : imu_buffer'[i] >= group.end
    BY <1>0, <2>3, <2>5, <2>9 DEF CompleteInv
  <2> QED  BY <2>2, <2>4, <2>7, <2>8, <2>9, <2>10 DEF CompleteInv, BufferOrdered
<1>3. CASE Hold
  BY <1>3 DEF Hold, imuVars, CompleteInv, BufferOrdered
<1>4. CASE Emit
  <2> DEFINE n == Taken(Held.end)
  <2>1. Held \in Groups /\ last_imu >= Held.end  BY <1>4, HeldType DEF Emit, Take
  <2>2. Held.end \in Nat /\ n \in 0 .. L  BY <1>0, <2>1, TakenRange DEF Groups
  <2>3. group' = [Held EXCEPT !.imu = SubSeq(imu_buffer, 1, n)] /\ last_imu' = last_imu
        /\ imu_buffer' = Rest(n)
    BY <1>4 DEF Emit, Take
  <2>4. group'.end = Held.end  BY <2>1, <2>3 DEF Groups
  <2>5. \A i, j \in DOMAIN imu_buffer : i <= j => imu_buffer[i] <= imu_buffer[j]
    BY DEF CompleteInv, BufferOrdered
  <2>6. \A i \in 1 .. L : i > n => imu_buffer[i] >= Held.end
    BY <1>0, <2>2, <2>5, TakenAll
  <2> HIDE DEF n
  <2>7. DOMAIN imu_buffer' = 1 .. L - n /\ \A i \in 1 .. L - n : imu_buffer'[i] = imu_buffer[i + n]
    BY <1>0, <2>2, <2>3, RestOf
  <2>8. \A i \in 1 .. L - n : i + n \in 1 .. L /\ i + n > n  BY <1>0, <2>2
  <2>9. \A i \in 1 .. L - n : imu_buffer'[i] >= Held.end  BY <2>6, <2>7, <2>8
  <2>10. \A i \in 1 .. L - n : imu_buffer'[i] <= last_imu
    BY <1>0, <2>7, <2>8 DEF CompleteInv, BufferOrdered
  <2>11. ASSUME NEW i \in 1 .. L - n, NEW j \in 1 .. L - n, i <= j
         PROVE imu_buffer'[i] <= imu_buffer'[j]
    <3>1. i + n <= j + n  BY <2>11, <1>0, <2>2
    <3> QED  BY <3>1, <2>5, <2>7, <2>8, <1>0
  <2> QED
    BY <2>1, <2>3, <2>4, <2>7, <2>9, <2>10, <2>11 DEF CompleteInv, BufferOrdered
<1>5. CASE UNCHANGED vars
  BY <1>5 DEF vars, imuVars, CompleteInv, BufferOrdered
<1> QED  BY <1>1, <1>2, <1>3, <1>4, <1>5 DEF Next

(* Until the IMU jumps back, a scan is handed over only when its           *)
(* measurements are all there, and none of them stays behind.              *)
THEOREM ImuCompleteHolds == Spec => []ImuComplete
<1> DEFINE Inv == "imu" \notin looped => CompleteInv
<1>1. Init => Inv  BY CompleteInit
<1>2. TypeOK /\ Fresh /\ Inv /\ [Next]_vars => Inv'  BY LoopedGrows, CompleteNext
<1>3. Inv => ImuComplete  BY DEF CompleteInv, ImuComplete
<1> HIDE DEF Inv
<1> QED  BY <1>1, <1>2, <1>3, SyncTypeCorrect, FreshHolds, PTL DEF Spec

-----------------------------------------------------------------------------
(* The preintegration goes from each measurement to the next.              *)

QueueInv == imu_queue = <<>> \/ (preintegration /\ imu_queue = <<last_imu>>)

LEMMA QueueStep ==
  ASSUME TypeOK, Fresh, QueueInv, [Next]_vars, "imu" \notin looped'
  PROVE  QueueInv' /\ (integrated' # integrated => integrated'[1] = last_imu)
<1>1. ASSUME NEW t \in Stamps, ImuCallback(t)
      PROVE  QueueInv' /\ (integrated' # integrated => integrated'[1] = last_imu)
  <2>1. last_imu' = t /\ preintegration' = preintegration
        /\ IF preintegration THEN Integrate(t) ELSE UNCHANGED <<imu_queue, integrated>>
    <3>1. CASE t < last_imu
      <4>1. imus = 0  BY <1>1, <3>1 DEF ImuCallback, TypeOK
      <4>2. preintegration = FALSE  BY <4>1 DEF Fresh, TypeOK
      <4>3. preintegration' = FALSE /\ last_imu' = t /\ UNCHANGED <<imu_queue, integrated>>
        BY <1>1, <3>1 DEF ImuCallback
      <4> QED  BY <4>2, <4>3
    <3>2. CASE ~(t < last_imu)  BY <1>1, <3>2 DEF ImuCallback
    <3> QED  BY <3>1, <3>2
  <2>2. CASE ~preintegration  BY <2>1, <2>2 DEF QueueInv
  <2>3. CASE preintegration /\ imu_queue = <<>>
    <3>1. Append(imu_queue, t) = <<t>> /\ Len(<<t>>) = 1  BY <2>3
    <3>2. imu_queue' = <<t>> /\ integrated' = integrated
      BY <2>1, <2>3, <3>1 DEF Integrate
    <3> QED  BY <2>1, <2>3, <3>2 DEF QueueInv
  <2>4. CASE preintegration /\ imu_queue = <<last_imu>>
    <3>1. /\ Append(imu_queue, t) = <<last_imu, t>> /\ Len(<<last_imu, t>>) = 2
          /\ Tail(<<last_imu, t>>) = <<t>>
      BY <2>4, PairFromOne DEF TypeOK
    <3>2. /\ imu_queue' = <<t>>
          /\ integrated' \in {integrated, <<last_imu, t>>}
      BY <2>1, <2>4, <3>1 DEF Integrate
    <3> QED  BY <2>1, <2>4, <3>2 DEF QueueInv
  <2> QED  BY <2>2, <2>3, <2>4 DEF QueueInv, TypeOK
<1>2. ASSUME NEW s \in Stamps, NEW d \in Durations, LidarCallback(s, d)
      PROVE  QueueInv' /\ integrated' = integrated
  BY <1>2 DEF LidarCallback, imuVars, QueueInv
<1>3. CASE Hold
  BY <1>3 DEF Hold, imuVars, QueueInv
<1>4. CASE Emit
  <2>1. UNCHANGED <<imu_queue, last_imu, integrated>>  BY <1>4 DEF Emit, Take
  <2>2. preintegration' \in {preintegration, TRUE}  BY <1>4 DEF Emit, Take
  <2>3. preintegration => preintegration'
    <3>1. preintegration' = preintegration \/ preintegration' = TRUE  BY <2>2
    <3> QED  BY <3>1
  <2> QED  BY <2>1, <2>3 DEF QueueInv
<1>5. CASE UNCHANGED vars
  BY <1>5 DEF vars, imuVars, QueueInv
<1> QED  BY <1>1, <1>2, <1>3, <1>4, <1>5 DEF Next

(* Until the IMU jumps back, the pose is propagated over every interval    *)
(* between two measurements and over no other.                             *)
THEOREM IntegratesNeighboursHolds == Spec => IntegratesNeighbours
<1> DEFINE Inv == "imu" \notin looped => QueueInv
<1>1. Init => Inv  BY DEF Init, QueueInv
<1>2. TypeOK /\ Fresh /\ Inv /\ [Next]_vars => Inv'  BY LoopedGrows, QueueStep
<1>3. TypeOK /\ Fresh /\ Inv /\ [Next]_vars => [("imu" \notin looped) => FromTheLast]_vars
  <2> SUFFICES ASSUME TypeOK, Fresh, Inv, [Next]_vars, "imu" \notin looped PROVE FromTheLast
    OBVIOUS
  <2>1. CASE "imu" \in looped'
    <3>1. UNCHANGED integrated
      <4>1. ASSUME NEW s \in Stamps, NEW d \in Durations, LidarCallback(s, d)
            PROVE  UNCHANGED integrated
        BY <4>1 DEF LidarCallback, imuVars
      <4>2. ASSUME NEW t \in Stamps, ImuCallback(t) PROVE UNCHANGED integrated
        BY <4>2, <2>1 DEF ImuCallback
      <4>3. CASE Hold  BY <4>3 DEF Hold, imuVars
      <4>4. CASE Emit  BY <4>4 DEF Emit, Take
      <4>5. CASE UNCHANGED vars  BY <4>5 DEF vars, imuVars
      <4> QED  BY <4>1, <4>2, <4>3, <4>4, <4>5 DEF Next
    <3> QED  BY <3>1 DEF FromTheLast
  <2>2. CASE "imu" \notin looped'
    <3>1. QueueInv  OBVIOUS
    <3> QED  BY <3>1, <2>2, QueueStep DEF FromTheLast
  <2> QED  BY <2>1, <2>2
<1> HIDE DEF Inv
<1> QED  BY <1>1, <1>2, <1>3, SyncTypeCorrect, FreshHolds, PTL DEF Spec, IntegratesNeighbours
-----------------------------------------------------------------------------
(* The odometry on top of the pairing.                                     *)

LEMMA LioStep == [LioNext]_lioVars => [Next]_vars
<1> SUFFICES ASSUME [LioNext]_lioVars PROVE [Next]_vars
  OBVIOUS
<1>1. ASSUME NEW s \in Stamps, NEW d \in Durations, LidarCb(s, d) PROVE Next
  BY <1>1 DEF LidarCb, Next
<1>2. ASSUME NEW t \in Stamps, ImuCb(t) PROVE Next
  BY <1>2 DEF ImuCb, Next
<1>3. CASE HoldScan
  BY <1>3 DEF HoldScan, Next
<1>4. CASE FirstScan
  BY <1>4 DEF FirstScan, Emit, Next
<1>5. CASE Cleaned /\ preintegration' \in {preintegration, TRUE}
  <2>1. Take  BY <1>5 DEF Cleaned, NoImu, InitImu, Undistort, Later
  <2> QED  BY <1>5, <2>1 DEF Emit, Next
<1>6. CASE NoPoints
  BY <1>5, <1>6 DEF NoPoints
<1>7. CASE FewPoints
  BY <1>5, <1>7 DEF FewPoints, Points
<1>8. CASE Build
  BY <1>5, <1>8 DEF Build, Points
<1>9. CASE Update
  BY <1>5, <1>9 DEF Update, Points
<1>10. CASE UNCHANGED lioVars
  BY <1>10 DEF lioVars
<1> QED  BY <1>1, <1>2, <1>3, <1>4, <1>6, <1>7, <1>8, <1>9, <1>10 DEF LioNext

(* syncPackages does not know what processLidarAndImu makes of its groups: *)
(* each behaviour of the odometry is one of ScanSync, so that all of the   *)
(* theorems above hold of it.                                              *)
THEOREM LioImplementsSync == LioSpec => Spec
<1>1. LioInit => Init  BY DEF LioInit
<1> QED  BY <1>1, LioStep, PTL DEF LioSpec, Spec

(* The pairing of the theorems above, in the odometry.                     *)
THEOREM LioPairing == LioSpec => [](PairingInv /\ ImuComplete)
BY LioImplementsSync, PairingHolds, ImuCompleteHolds, PTL

\* The map and what its new entries are made of.
MapType == /\ map \in Seq([scan : Scans \union {NoScan}, aligned : BOOLEAN])
           /\ aligned \in BOOLEAN

\* The cloud is that of the last group, as soon as it has points.
LEMMA PointsOwn ==
  ASSUME Points
  PROVE  /\ cloud' = group'.lidar
         /\ group' = meas' /\ group'.imu # <<>>
<1>1. cloud' # NoScan /\ Cleaned  BY DEF Points
<1>2. Undistort  BY <1>1 DEF Cleaned, NoImu, InitImu, Cleared
<1> QED  BY <1>1, <1>2 DEF Undistort, Later, Take

LEMMA MapGrows ==
  ASSUME TypeOK', MapType, [LioNext]_lioVars
  PROVE  MapType' /\ (map' # map => map'[Len(map')].scan = group'.lidar
                                     /\ group' = meas' /\ group'.imu # <<>>)
<1> DEFINE Entry == [scan : Scans \union {NoScan}, aligned : BOOLEAN]
<1>1. group'.lidar \in Scans \union {NoScan}  BY DEF TypeOK, Groups
<1>2. CASE UNCHANGED <<map, aligned>>
  BY <1>2 DEF MapType
<1>3. CASE Build
  <2>1. Points /\ UNCHANGED aligned  BY <1>3 DEF Build
  <2> DEFINE e == [scan |-> cloud', aligned |-> FALSE]
  <2>2. map' = <<e>> /\ e \in Entry  BY <1>1, <1>3, <2>1, PointsOwn DEF Build
  <2>3. map' \in Seq(Entry) /\ Len(map') = 1 /\ map'[1] = e  BY <2>2
  <2> QED  BY <2>1, <2>3, PointsOwn DEF MapType
<1>4. CASE Update
  <2>1. Points /\ Align  BY <1>4 DEF Update
  <2>2. aligned' \in BOOLEAN  BY <2>1 DEF Align, MapType
  <2> DEFINE e == [scan |-> cloud', aligned |-> aligned']
  <2>3. e \in Entry  BY <1>1, <2>1, <2>2, PointsOwn
  <2>4. map' = map \/ map' = Append(map, e)  BY <1>4 DEF Update
  <2>5. CASE map' = map  BY <2>2, <2>5 DEF MapType
  <2>6. CASE map' = Append(map, e)
    <3>1. map' \in Seq(Entry) /\ map'[Len(map')] = e
      BY <2>3, <2>6, AppendProperties DEF MapType
    <3> QED  BY <2>1, <2>2, <3>1, PointsOwn DEF MapType
  <2> QED  BY <2>4, <2>5, <2>6
<1>5. UNCHANGED <<map, aligned>> \/ Build \/ Update
  BY DEF LioNext, LidarCb, ImuCb, HoldScan, FirstScan, NoPoints, FewPoints, alignment, lioVars
<1> QED  BY <1>2, <1>3, <1>4, <1>5

(* Whatever the parameters and however the scans come, what is added to    *)
(* the map is the scan just handed over, and it had measurements.          *)
THEOREM LioMapsOwnScan == LioSpec => MapsOwnScan
<1>1. LioInit => MapType
  <2>1. <<>> \in Seq([scan : Scans \union {NoScan}, aligned : BOOLEAN])  OBVIOUS
  <2> QED  BY <2>1 DEF LioInit, MapType
<1>2. TypeOK' /\ MapType /\ [LioNext]_lioVars => MapType'  BY MapGrows
<1>3. LioSpec => []TypeOK  BY LioImplementsSync, SyncTypeCorrect, PTL
<1>4. TypeOK' /\ MapType /\ [LioNext]_lioVars
      => [map' # map => /\ map'[Len(map')].scan = group'.lidar
                        /\ group' = meas' /\ group'.imu # <<>>]_lioVars
  BY MapGrows
<1> QED  BY <1>1, <1>2, <1>3, <1>4, PTL DEF LioSpec, MapsOwnScan

-----------------------------------------------------------------------------
(* Types of the odometry.  The two times of its history are left to what   *)
(* follows, which is about their values.                                   *)
LioType ==
  /\ align \in BOOLEAN /\ first_scan \in BOOLEAN /\ first_time \in Nat
  /\ ekf_inited \in BOOLEAN /\ need_init \in BOOLEAN /\ undistorted \in BOOLEAN
  /\ init_iter \in 1 .. MaxInit + 1
  /\ last_used \in Nat /\ last_end \in Nat
  /\ cloud \in Scans \union {NoScan} /\ tree \in BOOLEAN
  /\ moving \in 0 .. MovingThr + 1 /\ gravity \in 0 .. GravityThr

LEMMA LioTypeInit == LioInit => LioType
<1> SUFFICES ASSUME LioInit PROVE LioType  OBVIOUS
<1>1. align \in BOOLEAN /\ last_end \in Nat
  BY LioAssumption, SyncAssumption DEF LioInit
<1>2. 1 \in 1 .. MaxInit + 1 /\ 0 \in 0 .. MovingThr + 1 /\ 0 \in 0 .. GravityThr
  BY LioAssumption
<1> QED  BY <1>1, <1>2 DEF LioInit, LioType

\* What a group that is handed over is made of.
LEMMA TakeGroup ==
  ASSUME TypeOK, Take
  PROVE  /\ Held.end \in Nat /\ Taken(Held.end) \in 0 .. Len(imu_buffer)
         /\ group'.imu = SubSeq(imu_buffer, 1, Taken(Held.end))
         /\ group'.imu \in Seq(Stamps)
         /\ group'.end = Held.end /\ group'.beg \in Nat
         /\ group'.lidar \in Scans \union {NoScan}
         /\ imu_buffer' = Rest(Taken(Held.end))
         /\ last_imu >= Held.end /\ imu_buffer # <<>>
         /\ UNCHANGED <<last_imu, imu_queue, imus, looped>>
<1> DEFINE n == Taken(Held.end)
<1>1. Ready /\ last_imu >= Held.end  BY DEF Take
<1>2. Held \in Groups /\ Held.end \in Nat  BY <1>1, HeldType DEF Groups
<1>3. n \in 0 .. Len(imu_buffer)  BY <1>2, TakenRange DEF TypeOK
<1>4. SubSeq(imu_buffer, 1, n) \in Seq(Stamps)  BY <1>3, RestOf DEF TypeOK
<1>5. /\ group' = [Held EXCEPT !.imu = SubSeq(imu_buffer, 1, n)]
      /\ imu_buffer' = Rest(n)
      /\ UNCHANGED <<last_imu, imu_queue, imus, looped>>
  BY DEF Take
<1> HIDE DEF n
<1>6. /\ group'.imu = SubSeq(imu_buffer, 1, n) /\ group'.end = Held.end
      /\ group'.beg \in Nat /\ group'.lidar \in Scans \union {NoScan}
  BY <1>2, <1>5 DEF Groups
<1> QED  BY <1>1, <1>2, <1>3, <1>4, <1>5, <1>6 DEF n, Ready

LEMMA LioTypeNext ==
  ASSUME TypeOK, LioType, [LioNext]_lioVars
  PROVE  LioType'
<1>1. CASE UNCHANGED <<startup, ekf_inited, imuProcess, cloud, tree, moving, gravity>>
  BY <1>1 DEF LioType, startup, imuProcess
<1>2. CASE FirstScan
  <2>1. group'.beg \in Nat  BY <1>2, TakeGroup DEF FirstScan
  <2> QED  BY <1>2, <2>1 DEF FirstScan, LioType, imuProcess, alignment
<1>3. ASSUME Cleaned
      PROVE  /\ UNCHANGED startup
             /\ need_init' \in BOOLEAN /\ undistorted' \in BOOLEAN
             /\ init_iter' \in 1 .. MaxInit + 1 /\ last_used' \in Nat /\ last_end' \in Nat
             /\ cloud' \in Scans \union {NoScan}
  <2>1. Take /\ UNCHANGED startup  BY <1>3 DEF Cleaned, NoImu, InitImu, Undistort, Later
  <2>2. /\ group'.imu \in Seq(Stamps) /\ group'.end \in Nat
        /\ group'.lidar \in Scans \union {NoScan}
    BY <2>1, TakeGroup
  <2>3. CASE NoImu  BY <2>1, <2>3 DEF NoImu, imuProcess, LioType, Cleared
  <2>4. /\ Len(group'.imu) \in Nat
        /\ group'.imu # <<>> => group'.imu[Len(group'.imu)] \in Nat
    <3>1. Len(group'.imu) \in Nat /\ (group'.imu # <<>> => Len(group'.imu) # 0)
      BY <2>2, LenProperties, EmptySeq
    <3>2. group'.imu # <<>> => Len(group'.imu) \in 1 .. Len(group'.imu)  BY <3>1
    <3> QED  BY <2>2, <3>1, <3>2, ElementOfSeq, StampsAreNat
  <2>5. CASE InitImu
    <3>1. init_iter' \in 1 .. MaxInit + 1
      <4>1. init_iter + Len(group'.imu) \in Nat /\ init_iter + Len(group'.imu) >= 1
        BY <2>4 DEF LioType
      <4> QED  BY <2>5, <4>1, LioAssumption DEF InitImu, Least
    <3>2. last_used' \in Nat  BY <2>4, <2>5 DEF InitImu
    <3> QED  BY <2>1, <2>5, <3>1, <3>2 DEF InitImu, LioType, Cleared
  <2>6. CASE Undistort
    BY <2>1, <2>2, <2>4, <2>6 DEF Undistort, UndistortPcl, LioType
  <2> QED  BY <1>3, <2>3, <2>5, <2>6 DEF Cleaned
<1>4. CASE NoPoints  BY <1>3, <1>4 DEF NoPoints, LioType, startup, alignment
<1>5. ASSUME Points
      PROVE  ekf_inited' \in BOOLEAN /\ moving' \in 0 .. MovingThr + 1
  <2>1. moving' \in {moving, 0, Least(moving + 1, MovingThr + 1)}  BY <1>5 DEF Points
  <2>2. Least(moving + 1, MovingThr + 1) \in 0 .. MovingThr + 1
    BY LioAssumption DEF LioType, Least
  <2> QED  BY <1>5, <2>1, <2>2, LioAssumption DEF Points, LioType
<1>6. CASE FewPoints \/ Build
  BY <1>3, <1>5, <1>6 DEF FewPoints, Build, Points, LioType, startup
<1>7. CASE Update
  <2>1. gravity' \in 0 .. GravityThr
    BY <1>7, LioAssumption DEF Update, Align, LioType
  <2> QED  BY <1>3, <1>5, <1>7, <2>1 DEF Update, Points, LioType, startup
<1>8. CASE UNCHANGED lioVars  BY <1>1, <1>8 DEF lioVars, alignment
<1>9. CASE (\E s \in Stamps, d \in Durations : LidarCb(s, d)) \/ HoldScan
           \/ (\E t \in Stamps : ImuCb(t))
  BY <1>1, <1>9 DEF LidarCb, ImuCb, HoldScan, alignment
<1> QED  BY <1>2, <1>4, <1>6, <1>7, <1>8, <1>9 DEF LioNext

(* Every variable of the odometry keeps its type: in particular the counts *)
(* of moving frames and of gravity measurements stay within what the       *)
(* thresholds allow.                                                       *)
THEOREM LioTypeCorrect == LioSpec => [](TypeOK /\ LioType)
<1>1. LioSpec => []TypeOK  BY LioImplementsSync, SyncTypeCorrect, PTL
<1> QED  BY <1>1, LioTypeInit, LioTypeNext, PTL DEF LioSpec

-----------------------------------------------------------------------------
(* How far the filter is predicted over a group.                           *)

LEMMA LeastNat ==
  ASSUME NEW S \in SUBSET Nat, S # {}
  PROVE  \E m \in S : \A n \in S : m <= n
<1> DEFINE R == {p \in Nat \X Nat : p[1] < p[2]}
<1>1. IsWellFoundedOn(R, Nat)  BY NatLessThanWellFounded DEF OpToRel
<1>2. PICK m \in S : \A n \in S : <<n, m>> \notin R  BY <1>1, WFMin
<1>3. ASSUME NEW n \in S PROVE m <= n
  <2>1. m \in Nat /\ n \in Nat /\ <<n, m>> \notin R  BY <1>2
  <2>2. ~(n < m)  BY <2>1
  <2> QED  BY <2>1, <2>2
<1> QED  BY <1>3

\* The time that lies behind the end of the last scan.
Beyond(t) == IF t < last_end THEN 0 ELSE t - last_end

LEMMA PredictedBeyond ==
  ASSUME last_end \in Nat, NEW h \in Nat, NEW t \in Nat, h <= t
  PROVE  Beyond(h) + Predicted(h, t) = Beyond(t) /\ Beyond(t) \in Nat
BY DEF Predicted, Beyond

\* The loop over ordered measurements, of which the first is not after the end of
\* the last scan, takes the filter from there to the last of them.
LEMMA ElapsedBeyond ==
  ASSUME last_end \in Nat, NEW v \in Seq(Nat), Len(v) # 0, v[1] <= last_end,
         \A i, j \in 1 .. Len(v) : i <= j => v[i] <= v[j]
  PROVE  Elapsed(v) = Beyond(v[Len(v)])
<1> DEFINE N == Len(v)
           Step(i) == Predicted(v[i - 1], v[i])
           g == [i \in 1 .. N |-> Beyond(v[i])]
           f == CHOOSE u : u = [i \in 1 .. N |-> IF i = 1 THEN 0 ELSE u[i - 1] + Step(i)]
<1>1. N \in Nat /\ N >= 1 /\ \A i \in 1 .. N : v[i] \in Nat  BY LenProperties
<1>2. ASSUME NEW i \in 1 .. N
      PROVE  g[i] = IF i = 1 THEN 0 ELSE g[i - 1] + Step(i)
  <2>1. CASE i = 1
    <3>1. v[1] \in Nat /\ g[1] = Beyond(v[1])  BY <1>1
    <3>2. Beyond(v[1]) = 0  BY <3>1 DEF Beyond
    <3> QED  BY <2>1, <3>1, <3>2
  <2>2. CASE i # 1
    <3>1. i - 1 \in 1 .. N /\ i - 1 <= i  BY <1>1, <2>2
    <3>2. v[i - 1] \in Nat /\ v[i] \in Nat /\ v[i - 1] <= v[i]  BY <1>1, <3>1
    <3>3. Beyond(v[i - 1]) + Step(i) = Beyond(v[i])  BY <3>2, PredictedBeyond
    <3> QED  BY <2>2, <3>1, <3>3
  <2> QED  BY <2>1, <2>2
<1>3. g = [i \in 1 .. N |-> IF i = 1 THEN 0 ELSE g[i - 1] + Step(i)]
  <2>1. g = [i \in 1 .. N |-> g[i]]  OBVIOUS
  <2> HIDE DEF g, Step, N
  <2> QED  BY <1>2, <2>1
<1>4. f = [i \in 1 .. N |-> IF i = 1 THEN 0 ELSE f[i - 1] + Step(i)]
  <2> HIDE DEF g, Step, N
  <2>1. \E u : u = [i \in 1 .. N |-> IF i = 1 THEN 0 ELSE u[i - 1] + Step(i)]  BY <1>3
  <2> QED  BY <2>1
<1>5. ASSUME NEW k \in 1 .. N PROVE f[k] = g[k]
  <2> DEFINE Bad == {i \in 1 .. N : f[i] # g[i]}
  <2> SUFFICES ASSUME Bad # {} PROVE FALSE  BY <1>1
  <2>1. Bad \in SUBSET Nat  OBVIOUS
  <2>2. PICK m \in Bad : \A n \in Bad : m <= n
    <3> HIDE DEF Bad
    <3> QED  BY <2>1, LeastNat
  <2> HIDE DEF f, g, Step, N
  <2>3. f[m] = (IF m = 1 THEN 0 ELSE f[m - 1] + Step(m)) /\ m \in 1 .. N /\ f[m] # g[m]
    BY <1>4, <2>2
  <2>4. m # 1  BY <1>2, <2>3
  <2>5. m - 1 \in 1 .. N /\ ~(m <= m - 1)  BY <1>1, <2>3, <2>4
  <2>6. f[m - 1] = g[m - 1]  BY <2>2, <2>5
  <2> QED  BY <1>2, <2>3, <2>4, <2>6
<1>6. Elapsed(v) = f[N]  BY DEF Elapsed
<1> HIDE DEF f
<1>7. f[N] = g[N] /\ g[N] = Beyond(v[N])  BY <1>1, <1>5
<1> QED  BY <1>6, <1>7

\* From the end of the last scan to that of this one.
LEMMA SpanIs ==
  ASSUME last_end \in Nat, last_used \in Nat, last_used <= last_end,
         NEW imu \in Seq(Nat), imu # <<>>, NEW end \in Nat,
         \A i, j \in 1 .. Len(imu) : i <= j => imu[i] <= imu[j],
         \A i \in 1 .. Len(imu) : last_end <= imu[i] /\ imu[i] <= end
  PROVE  Span(imu, end) = end - last_end
<1> DEFINE n == Len(imu)
           v == <<last_used>> \o imu
<1>1. n \in Nat /\ n >= 1 /\ \A i \in 1 .. n : imu[i] \in Nat  BY LenProperties, EmptySeq
<1>2. <<last_used>> \in Seq(Nat) /\ Len(<<last_used>>) = 1 /\ <<last_used>>[1] = last_used
  OBVIOUS
<1>3. /\ v \in Seq(Nat) /\ Len(v) = 1 + n
      /\ \A i \in 1 .. 1 + n : v[i] = IF i <= 1 THEN <<last_used>>[i] ELSE imu[i - 1]
  BY <1>2, ConcatProperties
<1> HIDE DEF v
<1>4. v[1] = last_used  BY <1>1, <1>2, <1>3
<1>5. \A i \in 2 .. 1 + n : v[i] = imu[i - 1] /\ i - 1 \in 1 .. n
  <2> SUFFICES ASSUME NEW i \in 2 .. 1 + n PROVE v[i] = imu[i - 1] /\ i - 1 \in 1 .. n
    OBVIOUS
  <2>1. i \in 1 .. 1 + n /\ ~(i <= 1) /\ i - 1 \in 1 .. n  BY <1>1
  <2> QED  BY <1>3, <2>1
<1>6. ASSUME NEW i \in 1 .. 1 + n, NEW j \in 1 .. 1 + n, i <= j PROVE v[i] <= v[j]
  <2>1. CASE j = 1
    <3>1. i = 1  BY <1>6, <2>1
    <3> QED  BY <1>4, <2>1, <3>1
  <2>2. CASE i = 1 /\ j # 1
    <3>1. j \in 2 .. 1 + n  BY <1>1, <2>2
    <3>2. v[j] = imu[j - 1] /\ j - 1 \in 1 .. n  BY <1>5, <3>1
    <3>3. last_end <= imu[j - 1] /\ imu[j - 1] \in Nat  BY <1>1, <3>2
    <3> QED  BY <1>4, <2>2, <3>2, <3>3
  <2>3. CASE i # 1
    <3>1. i \in 2 .. 1 + n /\ j \in 2 .. 1 + n  BY <1>1, <1>6, <2>3
    <3>2. v[i] = imu[i - 1] /\ i - 1 \in 1 .. n /\ v[j] = imu[j - 1] /\ j - 1 \in 1 .. n
      BY <1>5, <3>1
    <3>3. i - 1 <= j - 1  BY <1>6, <3>1
    <3> QED  BY <3>2, <3>3
  <2> QED  BY <2>1, <2>2, <2>3
<1>7. Elapsed(v) = Beyond(v[1 + n])
  <2>1. Len(v) # 0 /\ v[1] <= last_end  BY <1>1, <1>3, <1>4
  <2>2. \A i, j \in 1 .. Len(v) : i <= j => v[i] <= v[j]  BY <1>3, <1>6
  <2> QED  BY <1>3, <2>1, <2>2, ElapsedBeyond
<1>8. v[1 + n] = imu[n]
  <2>1. 1 + n \in 2 .. 1 + n /\ (1 + n) - 1 = n  BY <1>1
  <2> QED  BY <1>5, <2>1
<1>9. last_end <= imu[n] /\ imu[n] <= end /\ imu[n] \in Nat  BY <1>1
<1>10. Beyond(imu[n]) = imu[n] - last_end /\ Abs(end - imu[n]) = end - imu[n]
  BY <1>9 DEF Beyond, Abs
<1>11. Span(imu, end) = Elapsed(v) + Abs(end - imu[n])  BY DEF Span, v
<1> HIDE DEF n
<1>12. Span(imu, end) = (imu[n] - last_end) + (end - imu[n])
  BY <1>7, <1>8, <1>10, <1>11
<1> QED  BY <1>9, <1>12

-----------------------------------------------------------------------------
(* The time the filter stands for, and that of the pose integrated on from *)
(* it.                                                                     *)

\* No measurement after the end of a scan is taken with it.
LEMMA TakenBefore ==
  ASSUME imu_buffer \in Seq(Stamps), NEW end \in Nat,
         \A i, j \in DOMAIN imu_buffer : i <= j => imu_buffer[i] <= imu_buffer[j],
         NEW i \in 1 .. Taken(end)
  PROVE  imu_buffer[i] <= end
<1>1. /\ Len(imu_buffer) \in Nat /\ DOMAIN imu_buffer = 1 .. Len(imu_buffer)
      /\ \A k \in 1 .. Len(imu_buffer) : imu_buffer[k] \in Nat
  BY LenProperties, StampsAreNat
<1>2. Taken(end) \in 0 .. Len(imu_buffer)  BY TakenRange
<1>3. Taken(end) = Cardinality(Early(end))
  BY <1>2 DEF Taken, Early
<1> SUFFICES ASSUME ~(imu_buffer[i] <= end) PROVE FALSE  OBVIOUS
<1>4. i \in 1 .. Len(imu_buffer) /\ i - 1 \in Nat  BY <1>1, <1>2
<1>5. ASSUME NEW k \in Early(end) PROVE k \in 1 .. i - 1
  <2>1. k \in 1 .. Len(imu_buffer) /\ imu_buffer[k] <= end  BY <1>1, <1>5 DEF Early
  <2>2. i <= k => imu_buffer[i] <= imu_buffer[k]  BY <1>1, <1>4, <2>1
  <2>3. imu_buffer[i] \in Nat /\ imu_buffer[k] \in Nat  BY <1>1, <1>4, <2>1
  <2>4. ~(i <= k)  BY <2>1, <2>2, <2>3
  <2> QED  BY <1>4, <2>1, <2>4
<1>6. Early(end) \in SUBSET (1 .. i - 1)  BY <1>5
<1>7. /\ IsFiniteSet(1 .. i - 1) /\ Cardinality(1 .. i - 1) = i - 1
  BY <1>4, FS_Interval
<1>8. Cardinality(Early(end)) <= i - 1  BY <1>6, <1>7, FS_Subset
<1> QED  BY <1>2, <1>3, <1>4, <1>8

\* Nothing that waits is older than what the filter stands for.
FilterInv ==
  undistorted =>
    /\ imus # 0 /\ ~need_init
    /\ filter_time = last_end /\ last_used <= last_end /\ last_end <= last_imu
    /\ \A i \in DOMAIN imu_buffer : imu_buffer[i] >= last_end

PoseInv == pose_time \in Int /\ (preintegration => pose_time <= last_imu)

\* A group that is handed over leaves only later measurements behind.
LEMMA FilterTake ==
  ASSUME TypeOK, LioType, Fresh, CompleteInv, FilterInv, Take
  PROVE  /\ undistorted => /\ \A i \in DOMAIN imu_buffer' : imu_buffer'[i] >= last_end
                           /\ last_end <= last_imu'
         /\ \A i \in DOMAIN imu_buffer' : imu_buffer'[i] >= group'.end
         /\ \A i \in 1 .. Len(group'.imu) : group'.imu[i] <= group'.end
         /\ \A i, j \in 1 .. Len(group'.imu) : i <= j => group'.imu[i] <= group'.imu[j]
         /\ undistorted => \A i \in 1 .. Len(group'.imu) : last_end <= group'.imu[i]
         /\ group'.imu \in Seq(Nat) /\ group'.end \in Nat /\ group'.end <= last_imu'
         /\ imus' # 0
<1> DEFINE n == Taken(Held.end)
           L == Len(imu_buffer)
<1>1. /\ Held.end \in Nat /\ n \in 0 .. L
      /\ group'.imu = SubSeq(imu_buffer, 1, n) /\ group'.imu \in Seq(Stamps)
      /\ group'.end = Held.end /\ imu_buffer' = Rest(n)
      /\ last_imu >= Held.end /\ imu_buffer # <<>> /\ UNCHANGED <<last_imu, imus>>
  BY TakeGroup
<1>2. /\ imu_buffer \in Seq(Stamps) /\ L \in Nat /\ DOMAIN imu_buffer = 1 .. L
      /\ \A i \in 1 .. L : imu_buffer[i] \in Nat
  BY LenProperties, StampsAreNat DEF TypeOK
<1>3. \A i, j \in DOMAIN imu_buffer : i <= j => imu_buffer[i] <= imu_buffer[j]
  BY DEF CompleteInv, BufferOrdered
<1>4. \A i \in 1 .. n : imu_buffer[i] <= Held.end  BY <1>1, <1>2, <1>3, TakenBefore
<1>5. \A i \in 1 .. L : i > n => imu_buffer[i] >= Held.end  BY <1>1, <1>2, <1>3, TakenAll
<1> HIDE DEF n
<1>6. /\ Len(group'.imu) = n
      /\ \A i \in 1 .. n : i \in 1 .. L /\ group'.imu[i] = imu_buffer[i]
  <2>1. \A i \in 1 .. n : imu_buffer[i] \in Stamps
    <3>1. \A i \in 1 .. n : i \in 1 .. L  BY <1>1, <1>2
    <3> QED  BY <1>2, <3>1, ElementOfSeq
  <2>2. /\ Len(SubSeq(imu_buffer, 1, n)) = IF 1 <= n THEN n - 1 + 1 ELSE 0
        /\ \A i \in 1 .. n - 1 + 1 : SubSeq(imu_buffer, 1, n)[i] = imu_buffer[1 + i - 1]
    <3>1. 1 \in Int /\ n \in Int  BY <1>1, <1>2
    <3> QED  BY <2>1, <3>1, SubSeqProperties
  <2>3. n - 1 + 1 = n /\ \A i \in 1 .. n : 1 + i - 1 = i /\ i \in 1 .. L  BY <1>1, <1>2
  <2>4. Len(SubSeq(imu_buffer, 1, n)) = n  BY <1>1, <1>2, <2>2, <2>3
  <2> QED  BY <1>1, <2>2, <2>3, <2>4
<1>7. /\ DOMAIN imu_buffer' = 1 .. L - n
      /\ \A i \in 1 .. L - n : /\ imu_buffer'[i] = imu_buffer[i + n]
                               /\ i + n \in 1 .. L /\ i + n > n
  <2>1. /\ DOMAIN Rest(n) = 1 .. L - n
        /\ \A i \in DOMAIN Rest(n) : Rest(n)[i] = imu_buffer[i + n]
    BY <1>1, <1>2, RestOf
  <2>2. \A i \in 1 .. L - n : i + n \in 1 .. L /\ i + n > n  BY <1>1, <1>2
  <2> QED  BY <1>1, <2>1, <2>2
<1>8. \A i \in DOMAIN imu_buffer' : imu_buffer'[i] >= group'.end  BY <1>1, <1>5, <1>7
<1>9. \A i \in 1 .. Len(group'.imu) : group'.imu[i] <= group'.end  BY <1>1, <1>4, <1>6
<1>10. \A i, j \in 1 .. Len(group'.imu) : i <= j => group'.imu[i] <= group'.imu[j]
  BY <1>2, <1>3, <1>6
<1>11. undistorted => /\ \A i \in DOMAIN imu_buffer' : imu_buffer'[i] >= last_end
                      /\ \A i \in 1 .. Len(group'.imu) : last_end <= group'.imu[i]
                      /\ last_end <= last_imu'
  <2> SUFFICES ASSUME undistorted
               PROVE  /\ \A i \in DOMAIN imu_buffer' : imu_buffer'[i] >= last_end
                      /\ \A i \in 1 .. Len(group'.imu) : last_end <= group'.imu[i]
                      /\ last_end <= last_imu'
    OBVIOUS
  <2>1. (\A i \in 1 .. L : imu_buffer[i] >= last_end) /\ last_end <= last_imu
    BY <1>2 DEF FilterInv
  <2>2. last_end \in Nat  BY DEF LioType
  <2>3. ASSUME NEW i \in 1 .. Len(group'.imu) PROVE last_end <= group'.imu[i]
    BY <1>2, <1>6, <2>1, <2>2
  <2> QED  BY <1>1, <1>7, <2>1, <2>3
<1>12. group'.imu \in Seq(Nat)  BY <1>1, StampsAreNat, SeqMonotonic
<1>13. imus' # 0  BY <1>1 DEF Fresh
<1> QED  BY <1>1, <1>8, <1>9, <1>10, <1>11, <1>12, <1>13

LEMMA FilterUndistort ==
  ASSUME TypeOK, LioType, Fresh, CompleteInv, FilterInv, Undistort
  PROVE  FilterInv' /\ undistorted' /\ filter_time' = last_end' /\ last_end' \in Nat
         /\ last_end' <= last_imu'
<1> DEFINE imu == group'.imu
           n == Len(imu)
<1>1. /\ Take /\ imu # <<>> /\ ~need_init /\ UNCHANGED need_init
      /\ last_used' = imu[n] /\ last_end' = group'.end /\ undistorted' = TRUE
      /\ filter_time' = IF undistorted THEN filter_time + Span(imu, group'.end) ELSE group'.end
  BY DEF Undistort, Later, UndistortPcl
<1>2. /\ undistorted => \A i \in 1 .. n : last_end <= imu[i]
      /\ \A i \in DOMAIN imu_buffer' : imu_buffer'[i] >= group'.end
      /\ \A i \in 1 .. n : imu[i] <= group'.end
      /\ \A i, j \in 1 .. n : i <= j => imu[i] <= imu[j]
      /\ imu \in Seq(Nat) /\ group'.end \in Nat /\ group'.end <= last_imu'
      /\ imus' # 0
  BY <1>1, FilterTake
<1> HIDE DEF imu
<1>3. n \in 1 .. n  BY <1>1, <1>2, LenProperties, EmptySeq
<1>4. filter_time' = group'.end
  <2>1. CASE undistorted
    <3>1. last_end \in Nat /\ last_used \in Nat /\ last_used <= last_end
          /\ filter_time = last_end
      BY <2>1 DEF LioType, FilterInv
    <3>2. \A i \in 1 .. n : last_end <= imu[i] /\ imu[i] <= group'.end  BY <1>2, <2>1
    <3> DEFINE end == group'.end
    <3>3. end \in Nat  BY <1>2
    <3> HIDE DEF end
    <3>4. \A i \in 1 .. Len(imu) : last_end <= imu[i] /\ imu[i] <= end  BY <3>2 DEF end
    <3>5. Span(imu, end) = end - last_end
      BY <1>1, <1>2, <3>1, <3>3, <3>4, SpanIs
    <3>6. filter_time' = last_end + (end - last_end)  BY <1>1, <2>1, <3>1, <3>5 DEF end
    <3> QED  BY <3>1, <3>3, <3>6 DEF end
  <2>2. CASE ~undistorted  BY <1>1, <2>2
  <2> QED  BY <2>1, <2>2
<1>5. last_used' <= last_end'  BY <1>1, <1>2, <1>3
<1> QED  BY <1>1, <1>2, <1>4, <1>5 DEF FilterInv

LEMMA FilterNext ==
  ASSUME TypeOK, LioType, Fresh, QueueInv, CompleteInv, FilterInv, PoseInv,
         [LioNext]_lioVars, "imu" \notin looped'
  PROVE  FilterInv' /\ PoseInv'
<1>1. ASSUME NEW t \in Stamps, ImuCb(t) PROVE FilterInv' /\ PoseInv'
  <2>1. /\ ImuCallback(t) /\ UNCHANGED imuProcess
        /\ pose_time' = IF preintegration /\ t >= last_imu /\ imu_queue # <<>> /\ t > imu_queue[1]
                        THEN pose_time + t - imu_queue[1] ELSE pose_time
    BY <1>1 DEF ImuCb
  <2>2. imus # 0 => t >= last_imu
    BY <2>1, StampsAreNat DEF ImuCallback, TypeOK
  <2>3. last_imu' = t /\ imus' = imus + 1 /\ t \in Nat /\ last_imu \in Nat /\ imus \in Nat
    BY <2>1, StampsAreNat DEF ImuCallback, TypeOK
  <2>4. FilterInv'
    <3> SUFFICES ASSUME undistorted' PROVE FilterInv'  BY DEF FilterInv
    <3>1. undistorted /\ imus # 0 /\ t >= last_imu  BY <2>1, <2>2 DEF imuProcess, FilterInv
    <3>2. last_end <= t /\ last_end \in Nat  BY <2>3, <3>1 DEF FilterInv, LioType
    <3>3. imu_buffer' = Append(imu_buffer, t)
      BY <2>1, <2>3, <3>1 DEF ImuCallback
    <3> DEFINE L == Len(imu_buffer)
    <3>4. /\ Len(imu_buffer') = L + 1 /\ imu_buffer'[L + 1] = t
          /\ imu_buffer' \in Seq(Stamps) /\ \A i \in 1 .. L : imu_buffer'[i] = imu_buffer[i]
      BY <3>3, AppendProperties DEF TypeOK
    <3>5. DOMAIN imu_buffer' = 1 .. L + 1 /\ DOMAIN imu_buffer = 1 .. L /\ L \in Nat
      BY <3>4, LenProperties DEF TypeOK
    <3>6. \A i \in 1 .. L + 1 : i \in 1 .. L \/ i = L + 1  BY <3>5
    <3>7. \A i \in DOMAIN imu_buffer' : imu_buffer'[i] >= last_end
      BY <3>1, <3>2, <3>4, <3>5, <3>6 DEF FilterInv
    <3>8. imus' # 0 /\ last_end <= last_imu'  BY <2>3, <3>2
    <3> QED  BY <2>1, <3>1, <3>7, <3>8 DEF FilterInv, imuProcess
  <2>5. PoseInv'
    <3>1. CASE ~preintegration
      <4>1. preintegration' = FALSE
        BY <2>1, <3>1 DEF ImuCallback, TypeOK
      <4> QED  BY <2>1, <3>1, <4>1 DEF PoseInv
    <3>2. CASE preintegration
      <4>1. t >= last_imu /\ pose_time \in Int /\ pose_time <= last_imu
        BY <2>2, <3>2 DEF Fresh, PoseInv
      <4>2. CASE imu_queue = <<>>  BY <2>1, <2>3, <4>1, <4>2 DEF PoseInv
      <4>3. CASE imu_queue = <<last_imu>>
        <5>1. imu_queue[1] = last_imu  BY <4>3
        <5>2. pose_time' \in {pose_time, pose_time + t - last_imu}  BY <2>1, <5>1
        <5> QED  BY <2>3, <4>1, <5>2 DEF PoseInv
      <4> QED  BY <4>2, <4>3 DEF QueueInv
    <3> QED  BY <3>1, <3>2
  <2> QED  BY <2>4, <2>5
<1>2. CASE (\E s \in Stamps, d \in Durations : LidarCb(s, d)) \/ HoldScan \/ UNCHANGED lioVars
  <2>1. UNCHANGED <<imuVars, imuProcess, preintegration, pose_time>>
    BY <1>2 DEF LidarCb, HoldScan, LidarCallback, Hold, lioVars, vars
  <2> QED  BY <2>1 DEF FilterInv, PoseInv, imuVars, imuProcess
<1>3. ASSUME Take, UNCHANGED <<last_end, undistorted, filter_time>>,
             UNCHANGED <<need_init, last_used>> \/ need_init
      PROVE  FilterInv'
  <2>1. undistorted => UNCHANGED <<need_init, last_used>>  BY <1>3 DEF FilterInv
  <2> QED  BY <1>3, <2>1, FilterTake DEF FilterInv
<1>4. ASSUME Cleaned PROVE FilterInv' /\ UNCHANGED last_imu
  <2>1. Take /\ UNCHANGED last_imu
    BY <1>4, TakeGroup DEF Cleaned, NoImu, InitImu, Undistort, Later
  <2>2. CASE NoImu  BY <1>3, <2>1, <2>2 DEF NoImu, imuProcess
  <2>3. CASE InitImu  BY <1>3, <2>1, <2>3 DEF InitImu
  <2>4. CASE Undistort  BY <2>1, <2>4, FilterUndistort
  <2> QED  BY <1>4, <2>1, <2>2, <2>3, <2>4 DEF Cleaned
<1>5. CASE FirstScan
  <2>1. Take /\ UNCHANGED <<preintegration, imuProcess, pose_time, last_imu>>
    BY <1>5, TakeGroup DEF FirstScan
  <2> QED  BY <1>3, <2>1 DEF imuProcess, PoseInv
<1>6. CASE NoPoints \/ FewPoints \/ Build
  <2>1. Cleaned /\ UNCHANGED <<preintegration, pose_time>>
    BY <1>6 DEF NoPoints, FewPoints, Build, Points
  <2> QED  BY <1>4, <2>1 DEF PoseInv
<1>7. CASE Update
  <2>1. Points /\ pose_time' = filter_time'  BY <1>7 DEF Update
  <2>2. Undistort  BY <2>1 DEF Points, Cleaned, NoImu, InitImu, Cleared
  <2> QED  BY <2>1, <2>2, FilterUndistort DEF PoseInv
<1> QED  BY <1>1, <1>2, <1>5, <1>6, <1>7 DEF LioNext

LEMMA LioInvariants ==
  LioSpec => []("imu" \notin looped => CompleteInv /\ QueueInv /\ FilterInv /\ PoseInv)
<1> DEFINE Inv == "imu" \notin looped => CompleteInv /\ QueueInv /\ FilterInv /\ PoseInv
<1>1. LioInit => Inv
  BY CompleteInit DEF LioInit, Init, QueueInv, FilterInv, PoseInv
<1>2. TypeOK /\ LioType /\ Fresh /\ Inv /\ [LioNext]_lioVars => Inv'
  BY LioStep, LoopedGrows, CompleteNext, QueueStep, FilterNext
<1>3. LioSpec => []Fresh  BY LioImplementsSync, FreshHolds, PTL
<1> HIDE DEF Inv
<1>4. LioSpec => []Inv  BY <1>1, <1>2, <1>3, LioTypeCorrect, PTL DEF LioSpec
<1> QED  BY <1>4 DEF Inv

(* Until the IMU jumps back, each scan that is undistorted takes the       *)
(* filter from the end of the last one exactly to its own end: over all    *)
(* measurements, durations and scans, those that jump back included.       *)
THEOREM LioFilterAtScanEnd == LioSpec => []FilterAtScanEnd
<1>1. ("imu" \notin looped => CompleteInv /\ QueueInv /\ FilterInv /\ PoseInv)
      => FilterAtScanEnd
  BY DEF FilterAtScanEnd, FilterInv
<1> QED  BY <1>1, LioInvariants, PTL

(* Until the IMU jumps back, the pose that is published is never of a time *)
(* later than the measurement it is published with.                        *)
THEOREM LioPoseNotAhead == LioSpec => []PoseNotAhead
<1>1. ("imu" \notin looped => CompleteInv /\ QueueInv /\ FilterInv /\ PoseInv)
      => PoseNotAhead
  BY DEF PoseNotAhead, PoseInv
<1> QED  BY <1>1, LioInvariants, PTL
=============================================================================
