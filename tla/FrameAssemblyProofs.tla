------------------------ MODULE FrameAssemblyProofs ------------------------
(***************************************************************************)
(* Frames are assembled from packets without loss, in order, in time: for  *)
(* any number of lidars and packets, any interval and any stamps.          *)
(***************************************************************************)
EXTENDS FrameAssemblyProperties, SequenceTheorems, TLAPS

LEMMA SeqFacts ==
  ASSUME NEW S, NEW s \in Seq(S)
  PROVE  /\ Len(s) \in Nat /\ DOMAIN s = 1 .. Len(s)
         /\ \A i \in 1 .. Len(s) : s[i] \in S
         /\ s # <<>> => Len(s) >= 1 /\ Head(s) \in S /\ Tail(s) \in Seq(S)
         /\ s = <<>> => Len(s) = 0
         /\ Len(s) = 0 => s = <<>>
BY LenProperties, EmptySeq, HeadTailProperties

LEMMA AppendFacts ==
  ASSUME NEW S, NEW s \in Seq(S), NEW e \in S
  PROVE  /\ Append(s, e) \in Seq(S) /\ Append(s, e) # <<>>
         /\ Len(Append(s, e)) = Len(s) + 1
         /\ \A i \in 1 .. Len(s) : Append(s, e)[i] = s[i]
         /\ Append(s, e)[Len(s) + 1] = e
BY AppendProperties, LenProperties

LEMMA ConcatFacts ==
  ASSUME NEW S, NEW s \in Seq(S), NEW t \in Seq(S)
  PROVE  /\ s \o t \in Seq(S)
         /\ Len(s \o t) = Len(s) + Len(t)
         /\ \A i \in 1 .. Len(s) : (s \o t)[i] = s[i]
         /\ \A i \in 1 .. Len(t) : (s \o t)[Len(s) + i] = t[i]
         /\ s \o <<>> = s /\ <<>> \o s = s
BY ConcatProperties, ConcatEmptySeq, LenProperties

LEMMA OneIsSeq ==
  ASSUME NEW S, NEW e \in S
  PROVE  <<e>> \in Seq(S) /\ Len(<<e>>) = 1 /\ <<e>>[1] = e /\ <<e>> # <<>>
OBVIOUS

-----------------------------------------------------------------------------
(* Types.                                                                  *)

LEMMA TakeFrontType ==
  ASSUME TypeOK, TakeFront
  PROVE  /\ raw_packet_queue' \in Seq(Packets)
         /\ raw_data' \in Seq(Packets) /\ Len(raw_data') = 1
         /\ pc' = "process"
<1>1. Head(raw_packet_queue) \in Packets /\ Tail(raw_packet_queue) \in Seq(Packets)
  BY SeqFacts DEF TypeOK, TakeFront
<1> QED  BY <1>1, OneIsSeq DEF TakeFront

LEMMA TakenPacket ==
  ASSUME TypeOK, pc = "process"
  PROVE  raw_data[1] \in Packets /\ raw_data = <<raw_data[1]>>
<1>1. raw_data \in Seq(Packets) /\ Len(raw_data) = 1  BY DEF TypeOK
<1>2. raw_data[1] \in Packets  BY <1>1, SeqFacts
<1>3. <<raw_data[1]>> \in Seq(Packets) /\ Len(<<raw_data[1]>>) = 1  BY <1>2, OneIsSeq
<1>4. \A i \in 1 .. Len(raw_data) : raw_data[i] = <<raw_data[1]>>[i]  BY <1>1
<1> QED  BY <1>1, <1>2, <1>3, <1>4, SeqEqual

LEMMA AddedType ==
  ASSUME TypeOK, NEW p \in Packets
  PROVE  /\ Added(p) \in [Lidars -> Seq(Packets)]
         /\ Added(p)[p.id] = IF p.no = 0 THEN points_clouds[p.id]
                                         ELSE Append(points_clouds[p.id], p)
         /\ \A l \in Lidars : l # p.id => Added(p)[l] = points_clouds[l]
<1>1. p.id \in Lidars  BY DEF Packets
<1>2. Append(points_clouds[p.id], p) \in Seq(Packets)  BY <1>1, AppendFacts DEF TypeOK
<1> QED  BY <1>1, <1>2 DEF TypeOK, Added

LEMMA CloseType ==
  ASSUME TypeOK, NEW clouds \in [Lidars -> Seq(Packets)], NEW ids,
         Close(clouds, ids) \/ Keep(clouds)
  PROVE  /\ points_clouds' \in [Lidars -> Seq(Packets)]
         /\ points' \in [Lidars -> Seq(Packets)]
         /\ published' \in [Lidars -> Seq(Packets)]
<1>1. \A l \in Lidars : published[l] \o clouds[l] \in Seq(Packets)
  BY ConcatFacts DEF TypeOK
<1>2. <<>> \in Seq(Packets)  BY EmptySeq
<1> QED  BY <1>1, <1>2 DEF TypeOK, Close, Keep

LEMMA ProcessType ==
  ASSUME TypeOK, Process
  PROVE  TypeOK'
<1> DEFINE p == raw_data[1]
<1>1. pc = "process" /\ p \in Packets  BY TakenPacket DEF Process
<1>2. Added(p) \in [Lidars -> Seq(Packets)]  BY <1>1, AddedType
<1>3. /\ points_clouds' \in [Lidars -> Seq(Packets)]
      /\ points' \in [Lidars -> Seq(Packets)]
      /\ published' \in [Lidars -> Seq(Packets)]
  <2>1. \E ids : Close(Added(p), ids) \/ Keep(Added(p))
    BY DEF Process, CheckStamps, CheckClock
  <2> QED  BY <2>1, <1>2, CloseType
<1>4. /\ first' \in BOOLEAN /\ last_pub_time' \in Nat
      /\ start' \in Nat /\ ticks' \in Nat
  <2>1. CASE is_timestamp_sync
    BY <2>1 DEF Process, CheckStamps, timerVars, TypeOK
  <2>2. CASE ~is_timestamp_sync
    <3>1. CheckClock(Added(p))  BY <2>2 DEF Process
    <3>2. /\ now \in Nat /\ Interval \in Nat /\ last_pub_time \in Nat
          /\ start \in Nat /\ ticks \in Nat /\ first \in BOOLEAN
      BY FrameAssumption DEF TypeOK
    <3>3. last_pub_time + Interval \in Nat /\ ticks + 1 \in Nat  BY <3>2
    <3> QED  BY ONLY <3>1, <3>2, <3>3 DEF CheckClock, timerVars
  <2> QED  BY <2>1, <2>2
<1>5. raw_data' \in Seq(Packets) /\ Len(raw_data') = 0 /\ pc' = "loop"
  BY EmptySeq DEF Process
<1> QED  BY <1>3, <1>4, <1>5 DEF TypeOK, Process, packetVars

LEMMA TypeNext == TypeOK /\ [Next]_vars => TypeOK'
<1> SUFFICES ASSUME TypeOK, [Next]_vars PROVE TypeOK'  OBVIOUS
<1>1. ASSUME NEW l \in Lidars, NEW sync \in Syncs, NEW known \in BOOLEAN,
             NEW t \in Stamps, NEW d \in Lengths, Receive(l, sync, known, t, d)
      PROVE  TypeOK'
  <2> DEFINE beg == IF sync THEN t ELSE now
             p == [id |-> l, no |-> IF known THEN count[l] + 1 ELSE 0,
                   beg |-> beg, end |-> beg + d]
  <2>1. beg \in Nat /\ d \in Nat /\ count[l] \in Nat  BY FrameAssumption DEF TypeOK
  <2>2. p \in Packets  BY <2>1 DEF Packets
  <2>3. raw_packet_queue' = Append(raw_packet_queue, p)  BY <1>1 DEF Receive
  <2>4. raw_packet_queue' \in Seq(Packets)  BY <2>2, <2>3, AppendFacts DEF TypeOK
  <2>5. count' \in [Lidars -> Nat]  BY <1>1 DEF Receive, TypeOK
  <2>6. sync \in BOOLEAN  BY FrameAssumption
  <2> QED
    BY <1>1, <2>4, <2>5, <2>6
    DEF Receive, TypeOK, threadVars, cloudVars, timerVars
<1>2. ASSUME NEW sync \in Syncs, ReceiveImu(sync) PROVE TypeOK'
  <2>1. sync \in BOOLEAN  BY FrameAssumption
  <2> QED  BY <1>2, <2>1 DEF ReceiveImu, TypeOK, threadVars, cloudVars, timerVars
<1>3. CASE CheckQuit
  BY <1>3 DEF CheckQuit, TypeOK, packetVars, cloudVars, timerVars
<1>4. CASE LockQueue
  <2>1. CASE TakeFront
    BY <1>4, <2>1, TakeFrontType DEF LockQueue, TypeOK, cloudVars, timerVars
  <2>2. CASE ~TakeFront
    BY <1>4, <2>2 DEF LockQueue, TypeOK, cloudVars, timerVars
  <2> QED  BY <2>1, <2>2
<1>5. CASE Wake
  <2>1. CASE TakeFront
    BY <1>5, <2>1, TakeFrontType DEF Wake, TypeOK, cloudVars, timerVars
  <2>2. CASE ~TakeFront
    BY <1>5, <2>2 DEF Wake, TypeOK, cloudVars, timerVars
  <2> QED  BY <2>1, <2>2
<1>6. CASE Process  BY <1>6, ProcessType
<1>7. CASE RequestExit
  BY <1>7 DEF RequestExit, TypeOK, packetVars, threadVars, cloudVars, timerVars
<1>8. CASE Tick
  BY <1>8 DEF Tick, TypeOK, packetVars, threadVars, cloudVars, timerVars
<1>9. CASE UNCHANGED vars
  BY <1>9 DEF vars, TypeOK, packetVars, threadVars, cloudVars, timerVars
<1> QED
  BY <1>1, <1>2, <1>3, <1>4, <1>5, <1>6, <1>7, <1>8, <1>9 DEF Next, RawDataProcess

LEMMA TypeInit == Init => TypeOK
<1> SUFFICES ASSUME Init PROVE TypeOK  OBVIOUS
<1>1. <<>> \in Seq(Packets) /\ Len(<<>>) = 0  BY EmptySeq
<1>2. /\ points_clouds \in [Lidars -> Seq(Packets)]
      /\ points \in [Lidars -> Seq(Packets)]
      /\ published \in [Lidars -> Seq(Packets)]
      /\ count \in [Lidars -> Nat]
  BY <1>1 DEF Init
<1>3. raw_data \in Seq(Packets) /\ Len(raw_data) = 0 /\ raw_packet_queue \in Seq(Packets)
  BY <1>1 DEF Init
<1>4. /\ is_quit \in BOOLEAN /\ is_timestamp_sync \in BOOLEAN
      /\ first \in BOOLEAN /\ unsynced \in BOOLEAN
  BY DEF Init
<1>5. /\ now \in Nat /\ last_pub_time \in Nat /\ packets \in Nat
      /\ start \in Nat /\ ticks \in Nat /\ pc = "loop"
  BY DEF Init
<1> QED  BY <1>2, <1>3, <1>4, <1>5 DEF TypeOK

(* Every variable of the packet path has its type, whatever the lidars     *)
(* send, and RawDataProcess never processes a packet it has not taken.     *)
THEOREM FrameTypeCorrect == Spec => []TypeOK
BY TypeInit, TypeNext, PTL DEF Spec

-----------------------------------------------------------------------------
(* The timer.                                                              *)

\* last_pub_time_ counts the intervals since the first call.
TimerInv ==
  /\ first => ticks = 0
  /\ ~first => last_pub_time = start + ticks * Interval /\ last_pub_time <= now

LEMMA OneMore ==
  ASSUME NEW n \in Nat, NEW m \in Nat
  PROVE  (n + 1) * m = n * m + m /\ n * m \in Nat /\ 0 * m = 0
BY SMT

LEMMA TimerNext == TypeOK /\ TimerInv /\ [Next]_vars => TimerInv'
<1> SUFFICES ASSUME TypeOK, TimerInv, [Next]_vars PROVE TimerInv'  OBVIOUS
<1>0. /\ now \in Nat /\ last_pub_time \in Nat /\ start \in Nat /\ ticks \in Nat
      /\ Interval \in Nat
  BY FrameAssumption DEF TypeOK
<1>1. CASE UNCHANGED timerVars /\ now' \in Nat /\ now' >= now
  BY <1>0, <1>1 DEF TimerInv, timerVars
<1>2. CASE Process
  <2>1. CASE is_timestamp_sync
    BY <1>0, <1>1, <1>2, <2>1 DEF Process, CheckStamps
  <2>2. CASE ~is_timestamp_sync
    <3>1. CheckClock(Added(raw_data[1])) /\ now' = now  BY <1>2, <2>2 DEF Process
    <3>2. (ticks + 1) * Interval = ticks * Interval + Interval
          /\ 0 * Interval = 0 /\ ticks * Interval \in Nat
      BY <1>0, OneMore
    <3>3. CASE first /\ last_pub_time' = now /\ start' = now /\ UNCHANGED ticks
      BY <1>0, <3>1, <3>3 DEF TimerInv
    <3>4. CASE UNCHANGED timerVars  BY <1>0, <3>1, <3>4, <1>1
    <3>5. CASE /\ ~first /\ now - last_pub_time >= Interval
               /\ last_pub_time' = last_pub_time + Interval
               /\ ticks' = ticks + 1 /\ UNCHANGED <<first, start>>
      BY <1>0, <3>1, <3>2, <3>5 DEF TimerInv
    <3> QED  BY <3>1, <3>3, <3>4, <3>5 DEF CheckClock
  <2> QED  BY <2>1, <2>2
<1>3. CASE ~Process
  <2>1. UNCHANGED timerVars
    BY <1>3 DEF Next, RawDataProcess, Receive, ReceiveImu, CheckQuit, LockQueue, Wake,
                RequestExit, Tick, vars, threadVars
  <2>2. now' = now \/ now' = now + 1
    BY <1>3 DEF Next, RawDataProcess, Receive, ReceiveImu, CheckQuit, LockQueue, Wake,
                RequestExit, Tick, vars
  <2> QED  BY <1>0, <1>1, <2>1, <2>2
<1> QED  BY <1>2, <1>3

(* The frame timer never runs ahead of the host's clock, for any interval  *)
(* and however long no packet came.                                        *)
THEOREM NeverAheadHolds == Spec => []NeverAhead
<1>1. Init => TypeOK /\ TimerInv
  <2> SUFFICES ASSUME Init PROVE TimerInv  BY TypeInit
  <2> QED  BY DEF Init, TimerInv
<1>2. TypeOK /\ TimerInv => NeverAhead
  <2> SUFFICES ASSUME TypeOK, TimerInv, ~first
      PROVE  last_pub_time <= now /\ ticks * Interval <= now - start
    BY DEF NeverAhead
  <2>1. /\ now \in Nat /\ last_pub_time \in Nat /\ start \in Nat
        /\ ticks * Interval \in Nat
    BY FrameAssumption, OneMore DEF TypeOK
  <2>2. last_pub_time = start + ticks * Interval /\ last_pub_time <= now  BY DEF TimerInv
  <2> DEFINE n == ticks * Interval
  <2> HIDE DEF n
  <2>3. n \in Nat /\ last_pub_time = start + n  BY <2>1, <2>2 DEF n
  <2>4. n <= now - start  BY <2>1, <2>2, <2>3
  <2> QED  BY <2>2, <2>4 DEF n
<1> QED  BY <1>1, <1>2, TypeNext, TimerNext, PTL DEF Spec

-----------------------------------------------------------------------------
(* The stream.                                                             *)

LEMMA Associative ==
  ASSUME NEW s \in Seq(Packets), NEW t \in Seq(Packets), NEW u \in Seq(Packets)
  PROVE  s \o (t \o u) = (s \o t) \o u
BY ConcatAssociative

LEMMA NumberedAppend ==
  ASSUME NEW l \in Lidars, NEW s \in Seq(Packets), Numbered(s, l),
         NEW p \in Packets, p.id = l, p.no = Len(s) + 1
  PROVE  Numbered(Append(s, p), l)
<1>1. DOMAIN Append(s, p) = 1 .. Len(s) + 1 /\ DOMAIN s = 1 .. Len(s) /\ Len(s) \in Nat
  BY AppendFacts, SeqFacts
<1> SUFFICES ASSUME NEW i \in 1 .. Len(s) + 1
             PROVE  Append(s, p)[i].no = i /\ Append(s, p)[i].id = l
  BY <1>1 DEF Numbered
<1>2. CASE i = Len(s) + 1  BY <1>2, AppendFacts
<1>3. CASE i \in 1 .. Len(s)
  BY <1>1, <1>3, AppendFacts DEF Numbered
<1> QED  BY <1>1, <1>2, <1>3

\* A packet at the end of the queue.
LEMMA HoldsAppend ==
  ASSUME NEW l \in Lidars, NEW w \in Seq(Packets), NEW lo \in Nat, NEW hi \in Nat,
         Holds(w, l, lo, hi), NEW p \in Packets
  PROVE  /\ p.id # l \/ p.no = 0 => Holds(Append(w, p), l, lo, hi)
         /\ p.id = l /\ p.no = hi + 1 => Holds(Append(w, p), l, lo, hi + 1)
<1> DEFINE v == Append(w, p)
           n == Len(w)
           Mine(u) == {i \in DOMAIN u : u[i].id = l /\ u[i].no # 0}
<1>1. /\ n \in Nat /\ DOMAIN w = 1 .. n /\ DOMAIN v = 1 .. n + 1
      /\ \A i \in 1 .. n : v[i] = w[i] /\ w[i].no \in Nat
      /\ v[n + 1] = p
  <2>1. /\ v \in Seq(Packets) /\ Len(v) = n + 1 /\ v[n + 1] = p
        /\ \A i \in 1 .. n : v[i] = w[i]
    BY AppendFacts
  <2>2. n \in Nat /\ DOMAIN w = 1 .. n /\ \A i \in 1 .. n : w[i] \in Packets
    BY SeqFacts
  <2>3. DOMAIN v = 1 .. Len(v)  BY <2>1, SeqFacts
  <2> QED  BY <2>1, <2>2, <2>3 DEF Packets
<1> HIDE DEF v, n
<1>2. CASE p.id # l \/ p.no = 0
  <2>1. Mine(v) = Mine(w)  BY <1>1, <1>2
  <2>2. \A i \in Mine(w) : v[i] = w[i]  BY <1>1
  <2>3. Holds(v, l, lo, hi)  BY <2>1, <2>2 DEF Holds
  <2> QED  BY <2>3, <1>2 DEF v
<1>3. CASE p.id = l /\ p.no = hi + 1
  <2>1. Mine(v) = Mine(w) \union {n + 1}  BY <1>1, <1>3
  <2>2. \A i \in Mine(w) : v[i] = w[i] /\ i \in 1 .. n /\ w[i].no \in lo + 1 .. hi
    BY <1>1 DEF Holds
  <2>3. lo <= hi + 1  BY DEF Holds
  <2>4. ASSUME NEW k \in lo + 1 .. hi + 1 PROVE \E i \in Mine(v) : v[i].no = k
    <3>1. CASE k = hi + 1  BY <3>1, <2>1, <1>1, <1>3
    <3>2. CASE k \in lo + 1 .. hi
      <4>1. PICK i \in Mine(w) : w[i].no = k  BY <3>2 DEF Holds
      <4> QED  BY <4>1, <2>1, <2>2
    <3> QED  BY <3>1, <3>2
  <2>5. ASSUME NEW i \in Mine(v) PROVE v[i].no \in lo + 1 .. hi + 1
    <3>1. lo <= hi  BY DEF Holds
    <3> QED  BY <3>1, <2>1, <2>2, <1>1, <1>3
  <2>6. ASSUME NEW i \in Mine(v), NEW j \in Mine(v), i < j PROVE v[i].no < v[j].no
    <3>1. i \in Mine(w)  BY <2>1, <2>2, <2>6, <1>1
    <3>2. CASE j = n + 1  BY <3>1, <3>2, <2>2, <1>1, <1>3
    <3>3. CASE j \in Mine(w)  BY <3>1, <3>3, <2>2, <2>6 DEF Holds
    <3> QED  BY <3>2, <3>3, <2>1
  <2>7. Holds(v, l, lo, hi + 1)  BY <2>3, <2>4, <2>5, <2>6 DEF Holds
  <2> QED  BY <2>7, <1>3 DEF v
<1> QED  BY <1>2, <1>3 DEF v

\* The packet at the front of what waits.
LEMMA HoldsFront ==
  ASSUME NEW l \in Lidars, NEW p \in Packets, NEW q \in Seq(Packets),
         NEW lo \in Nat, NEW hi \in Nat, Holds(<<p>> \o q, l, lo, hi)
  PROVE  /\ p.id # l \/ p.no = 0 => Holds(q, l, lo, hi)
         /\ p.id = l /\ p.no # 0 => p.no = lo + 1 /\ Holds(q, l, lo + 1, hi)
<1> DEFINE w == <<p>> \o q
           n == Len(q)
           Mine(u) == {i \in DOMAIN u : u[i].id = l /\ u[i].no # 0}
<1>1. /\ n \in Nat /\ DOMAIN q = 1 .. n /\ DOMAIN w = 1 .. n + 1
      /\ w[1] = p
      /\ \A i \in 1 .. n : w[i + 1] = q[i] /\ q[i].no \in Nat
  <2>1. <<p>> \in Seq(Packets) /\ Len(<<p>>) = 1 /\ <<p>>[1] = p  BY OneIsSeq
  <2>2. /\ w \in Seq(Packets) /\ Len(w) = 1 + n
        /\ w[1] = p /\ \A i \in 1 .. n : w[1 + i] = q[i]
    BY <2>1, ConcatFacts
  <2>3. n \in Nat /\ DOMAIN q = 1 .. n /\ DOMAIN w = 1 .. Len(w)
        /\ \A i \in 1 .. n : q[i] \in Packets
    BY <2>2, SeqFacts
  <2>4. \A i \in 1 .. n : 1 + i = i + 1  BY <2>3
  <2> QED  BY <2>2, <2>3, <2>4 DEF Packets
<1>2. Holds(w, l, lo, hi)  OBVIOUS
<1>9. p.no \in Nat  BY DEF Packets
<1> HIDE DEF w, n
<1>3. \A i \in Mine(q) : i \in 1 .. n /\ i + 1 \in Mine(w) /\ w[i + 1] = q[i]
  BY <1>1
<1>4. \A i \in Mine(w) : i = 1 \/ (i - 1 \in Mine(q) /\ w[i] = q[i - 1])
  <2> SUFFICES ASSUME NEW i \in Mine(w), i # 1 PROVE i - 1 \in Mine(q) /\ w[i] = q[i - 1]
    OBVIOUS
  <2>1. i - 1 \in 1 .. n /\ (i - 1) + 1 = i  BY <1>1
  <2> QED  BY <2>1, <1>1
<1>5. /\ lo <= hi
      /\ \A m \in lo + 1 .. hi : \E i \in Mine(w) : w[i].no = m
      /\ \A i \in Mine(w) : w[i].no \in lo + 1 .. hi
      /\ \A i, j \in Mine(w) : i < j => w[i].no < w[j].no
  BY <1>2 DEF Holds
<1>6. \A i, j \in Mine(q) : i < j => q[i].no < q[j].no
  <2> SUFFICES ASSUME NEW i \in Mine(q), NEW j \in Mine(q), i < j
               PROVE  q[i].no < q[j].no
    OBVIOUS
  <2>1. i + 1 < j + 1  BY <1>3, <1>1
  <2> QED  BY <2>1, <1>3, <1>5
<1>7. CASE p.id # l \/ p.no = 0
  <2>1. 1 \notin Mine(w)  BY <1>1, <1>7
  <2>2. \A m \in lo + 1 .. hi : \E i \in Mine(q) : q[i].no = m
    BY <2>1, <1>4, <1>5
  <2>3. \A i \in Mine(q) : q[i].no \in lo + 1 .. hi  BY <1>3, <1>5
  <2> QED  BY <2>2, <2>3, <1>5, <1>6, <1>7 DEF Holds
<1>8. CASE p.id = l /\ p.no # 0
  <2>1. 1 \in Mine(w) /\ w[1] = p  BY <1>1, <1>8
  <2>2. \A i \in Mine(q) : p.no < q[i].no /\ q[i].no \in lo + 1 .. hi
    <3> SUFFICES ASSUME NEW i \in Mine(q)
                 PROVE  p.no < q[i].no /\ q[i].no \in lo + 1 .. hi
      OBVIOUS
    <3>1. 1 < i + 1  BY <1>3, <1>1
    <3> QED  BY <3>1, <2>1, <1>3, <1>5
  <2>3. p.no \in lo + 1 .. hi  BY <2>1, <1>5
  <2>4. p.no = lo + 1
    <3>1. PICK i \in Mine(w) : w[i].no = lo + 1  BY <1>5, <2>3
    <3>2. i = 1 \/ p.no < lo + 1  BY <3>1, <1>4, <2>2
    <3> QED  BY <3>1, <3>2, <2>1, <2>3
  <2>5. \A m \in (lo + 1) + 1 .. hi : \E i \in Mine(q) : q[i].no = m
    <3> SUFFICES ASSUME NEW m \in (lo + 1) + 1 .. hi
                 PROVE  \E i \in Mine(q) : q[i].no = m
      OBVIOUS
    <3>1. PICK i \in Mine(w) : w[i].no = m  BY <1>5
    <3>2. i # 1  BY <3>1, <2>1, <2>4
    <3> QED  BY <3>1, <3>2, <1>4
  <2>6. \A i \in Mine(q) : q[i].no \in (lo + 1) + 1 .. hi
    BY <2>2, <2>4
  <2>7. lo + 1 <= hi  BY <2>3
  <2> QED  BY <2>4, <2>5, <2>6, <2>7, <1>6, <1>8 DEF Holds
<1> QED  BY <1>7, <1>8

LEMMA WaitingType ==
  ASSUME TypeOK
  PROVE  /\ Waiting \in Seq(Packets)
         /\ \A l \in Lidars : Assembled(l) \in Seq(Packets) /\ Len(Assembled(l)) \in Nat
<1>1. Waiting \in Seq(Packets)  BY ConcatFacts DEF TypeOK, Waiting
<1>2. ASSUME NEW l \in Lidars PROVE Assembled(l) \in Seq(Packets)
  BY ConcatFacts DEF TypeOK, Assembled
<1> QED  BY <1>1, <1>2, SeqFacts

LEMMA StreamReceive ==
  ASSUME TypeOK, StreamIntact, NEW k \in Lidars, NEW sync \in Syncs, NEW known \in BOOLEAN,
         NEW t \in Stamps, NEW d \in Lengths, Receive(k, sync, known, t, d)
  PROVE  StreamIntact'
<1> DEFINE beg == IF sync THEN t ELSE now
           p == [id |-> k, no |-> IF known THEN count[k] + 1 ELSE 0,
                 beg |-> beg, end |-> beg + d]
<1>1. p \in Packets /\ p.id = k /\ p.no = IF known THEN count[k] + 1 ELSE 0
  <2>1. beg \in Nat /\ d \in Nat /\ count[k] \in Nat  BY FrameAssumption DEF TypeOK
  <2> QED  BY <2>1 DEF Packets
<1>2. raw_packet_queue' = Append(raw_packet_queue, p)  BY DEF Receive
<1> HIDE DEF p
<1>3. Waiting' = Append(Waiting, p)
  <2>1. /\ raw_data \in Seq(Packets) /\ raw_packet_queue \in Seq(Packets)
        /\ raw_data' = raw_data /\ <<p>> \in Seq(Packets)
    BY <1>1, OneIsSeq DEF TypeOK, Receive, threadVars
  <2>2. Append(raw_packet_queue, p) = raw_packet_queue \o <<p>>  BY <1>1, <2>1, AppendIsConcat
  <2>3. raw_data \o (raw_packet_queue \o <<p>>) = Waiting \o <<p>>
    BY <2>1, ConcatAssociative DEF Waiting
  <2>4. Waiting \o <<p>> = Append(Waiting, p)  BY <1>1, WaitingType, AppendIsConcat
  <2> QED  BY <1>2, <2>1, <2>2, <2>3, <2>4 DEF Waiting
<1>4. \A l \in Lidars : Assembled(l)' = Assembled(l)
  BY DEF Assembled, Receive, threadVars, cloudVars
<1>5. ASSUME NEW l \in Lidars
      PROVE  Holds(Waiting', l, Len(Assembled(l)), count'[l])
  <2>1. Holds(Waiting, l, Len(Assembled(l)), count[l])  BY DEF StreamIntact, NothingLost
  <2>2. /\ Waiting \in Seq(Packets) /\ Len(Assembled(l)) \in Nat /\ count[l] \in Nat
        /\ count'[l] = IF l = k /\ known THEN count[l] + 1 ELSE count[l]
    BY WaitingType DEF TypeOK, Receive
  <2>3. CASE l = k /\ known
    <3>1. p.id = l /\ p.no = count[l] + 1  BY <2>3, <1>1
    <3> QED  BY <1>1, <1>3, <2>1, <2>2, <2>3, <3>1, HoldsAppend
  <2>4. CASE ~(l = k /\ known)
    <3>1. p.id # l \/ p.no = 0  BY <2>4, <1>1
    <3> QED  BY <1>1, <1>3, <2>1, <2>2, <2>4, <3>1, HoldsAppend
  <2> QED  BY <2>3, <2>4
<1> QED  BY <1>4, <1>5 DEF StreamIntact, FramesInOrder, NothingLost

LEMMA StreamTake ==
  ASSUME TypeOK, pc # "process", TakeFront
  PROVE  Waiting' = Waiting
<1> DEFINE q == raw_packet_queue
<1>1. q \in Seq(Packets) /\ q # <<>> /\ raw_data = <<>>
  BY SeqFacts DEF TypeOK, TakeFront
<1>2. /\ Head(q) \in Packets /\ Tail(q) \in Seq(Packets)
      /\ Len(Tail(q)) = Len(q) - 1 /\ Len(q) \in Nat /\ Len(q) >= 1
      /\ \A i \in 1 .. Len(Tail(q)) : Tail(q)[i] = q[i + 1]
      /\ Head(q) = q[1]
  BY <1>1, HeadTailProperties, SeqFacts
<1>3. <<Head(q)>> \in Seq(Packets) /\ Len(<<Head(q)>>) = 1 /\ <<Head(q)>>[1] = q[1]
  BY <1>2, OneIsSeq
<1>4. /\ <<Head(q)>> \o Tail(q) \in Seq(Packets)
      /\ Len(<<Head(q)>> \o Tail(q)) = Len(q)
      /\ (<<Head(q)>> \o Tail(q))[1] = q[1]
      /\ \A i \in 1 .. Len(q) - 1 : (<<Head(q)>> \o Tail(q))[1 + i] = q[i + 1]
  BY <1>2, <1>3, ConcatFacts
<1>5. ASSUME NEW i \in 1 .. Len(q) PROVE (<<Head(q)>> \o Tail(q))[i] = q[i]
  <2>1. CASE i = 1  BY <2>1, <1>4
  <2>2. CASE i # 1
    <3>1. i - 1 \in 1 .. Len(q) - 1 /\ 1 + (i - 1) = i /\ (i - 1) + 1 = i
      BY <2>2, <1>2
    <3> QED  BY <3>1, <1>4
  <2> QED  BY <2>1, <2>2
<1>6. <<Head(q)>> \o Tail(q) = q  BY <1>1, <1>4, <1>5, SeqEqual
<1>7. Waiting' = <<Head(q)>> \o Tail(q)  BY DEF Waiting, TakeFront
<1>8. Waiting = q  BY <1>1, ConcatFacts DEF Waiting
<1> QED  BY <1>6, <1>7, <1>8

LEMMA StreamProcess ==
  ASSUME TypeOK, StreamIntact, Process
  PROVE  StreamIntact'
<1> DEFINE p == raw_data[1]
           q == raw_packet_queue
<1>1. p \in Packets /\ raw_data = <<p>> /\ q \in Seq(Packets)
  BY TakenPacket DEF Process, TypeOK
<1>2. Waiting = <<p>> \o q /\ Waiting' = q
  <2>1. raw_data' = <<>> /\ q' = q  BY DEF Process, packetVars
  <2> QED  BY <1>1, <2>1, ConcatFacts DEF Waiting
<1>3. /\ Added(p) \in [Lidars -> Seq(Packets)]
      /\ Added(p)[p.id] = IF p.no = 0 THEN points_clouds[p.id]
                                      ELSE Append(points_clouds[p.id], p)
      /\ \A l \in Lidars : l # p.id => Added(p)[l] = points_clouds[l]
  BY <1>1, AddedType
<1>4. ASSUME NEW l \in Lidars PROVE Assembled(l)' = published[l] \o Added(p)[l]
  <2>1. \E ids : Close(Added(p), ids) \/ Keep(Added(p))
    BY DEF Process, CheckStamps, CheckClock
  <2>2. CASE Keep(Added(p))  BY <2>2 DEF Keep, Assembled
  <2>3. ASSUME NEW ids, Close(Added(p), ids) PROVE Assembled(l)' = published[l] \o Added(p)[l]
    <3>1. published[l] \in Seq(Packets) /\ Added(p)[l] \in Seq(Packets)
      BY <1>3 DEF TypeOK
    <3>2. published[l] \o Added(p)[l] \in Seq(Packets)  BY <3>1, ConcatFacts
    <3>3. (published[l] \o Added(p)[l]) \o <<>> = published[l] \o Added(p)[l]
      BY <3>2, ConcatFacts
    <3>4. CASE l \in ids  BY <2>3, <3>3, <3>4 DEF Close, Assembled
    <3>5. CASE l \notin ids  BY <2>3, <3>5 DEF Close, Assembled
    <3> QED  BY <3>4, <3>5
  <2> QED  BY <2>1, <2>2, <2>3
<1>5. ASSUME NEW l \in Lidars
      PROVE  Numbered(Assembled(l)', l) /\ Holds(q, l, Len(Assembled(l)'), count[l])
  <2>1. /\ Assembled(l) \in Seq(Packets) /\ Len(Assembled(l)) \in Nat
        /\ count[l] \in Nat
        /\ published[l] \in Seq(Packets) /\ points_clouds[l] \in Seq(Packets)
    BY WaitingType DEF TypeOK
  <2>2. Numbered(Assembled(l), l) /\ Holds(<<p>> \o q, l, Len(Assembled(l)), count[l])
    BY <1>2 DEF StreamIntact, FramesInOrder, NothingLost
  <2>3. CASE p.id # l \/ p.no = 0
    <3>1. Added(p)[l] = points_clouds[l]  BY <2>3, <1>3
    <3>2. Assembled(l)' = Assembled(l)  BY <3>1, <1>4 DEF Assembled
    <3>3. Holds(q, l, Len(Assembled(l)), count[l])
      BY <1>1, <2>1, <2>2, <2>3, HoldsFront
    <3> QED  BY <2>2, <3>2, <3>3
  <2>4. CASE p.id = l /\ p.no # 0
    <3>1. Added(p)[l] = Append(points_clouds[l], p)  BY <2>4, <1>3
    <3>2. Assembled(l)' = Append(Assembled(l), p)
      <4>1. Append(points_clouds[l], p) = points_clouds[l] \o <<p>>
        BY <1>1, <2>1, AppendIsConcat
      <4>2. <<p>> \in Seq(Packets)  BY <1>1, OneIsSeq
      <4>3. published[l] \o (points_clouds[l] \o <<p>>) = Assembled(l) \o <<p>>
        BY <2>1, <4>2, Associative, Zenon DEF Assembled
      <4>4. Assembled(l) \o <<p>> = Append(Assembled(l), p)
        BY <1>1, <2>1, AppendIsConcat
      <4> QED  BY <1>4, <3>1, <4>1, <4>3, <4>4
    <3>3. /\ p.no = Len(Assembled(l)) + 1
          /\ Holds(q, l, Len(Assembled(l)) + 1, count[l])
      BY <1>1, <2>1, <2>2, <2>4, HoldsFront
    <3>4. Len(Assembled(l)') = Len(Assembled(l)) + 1  BY <1>1, <2>1, <3>2, AppendFacts
    <3>5. Numbered(Assembled(l)', l)
      BY <1>1, <2>1, <2>2, <2>4, <3>2, <3>3, NumberedAppend
    <3> QED  BY <3>3, <3>4, <3>5
  <2> QED  BY <2>3, <2>4
<1>6. count' = count  BY DEF Process, packetVars
<1> QED  BY <1>2, <1>5, <1>6 DEF StreamIntact, FramesInOrder, NothingLost

LEMMA StreamNext == TypeOK /\ StreamIntact /\ [Next]_vars => StreamIntact'
<1> SUFFICES ASSUME TypeOK, StreamIntact, [Next]_vars PROVE StreamIntact'  OBVIOUS
<1>1. ASSUME Waiting' = Waiting, count' = count, UNCHANGED cloudVars
      PROVE  StreamIntact'
  <2>1. \A l \in Lidars : Assembled(l)' = Assembled(l)
    BY <1>1 DEF cloudVars, Assembled
  <2> QED  BY <1>1, <2>1 DEF StreamIntact, FramesInOrder, NothingLost
<1>2. ASSUME UNCHANGED <<raw_data, raw_packet_queue, count>>, UNCHANGED cloudVars
      PROVE  StreamIntact'
  BY <1>1, <1>2 DEF Waiting
<1>3. CASE Process  BY <1>3, StreamProcess
<1>4. CASE LockQueue \/ Wake
  <2>1. CASE TakeFront
    <3>1. pc # "process"  BY <1>4 DEF LockQueue, Wake
    <3> QED  BY <1>1, <1>4, <2>1, <3>1, StreamTake DEF LockQueue, Wake
  <2>2. CASE ~TakeFront  BY <1>2, <1>4, <2>2 DEF LockQueue, Wake
  <2> QED  BY <2>1, <2>2
<1>5. CASE CheckQuit \/ RequestExit \/ Tick \/ (\E sync \in Syncs : ReceiveImu(sync))
  BY <1>2, <1>5
  DEF CheckQuit, RequestExit, Tick, ReceiveImu, packetVars, threadVars
<1>6. CASE UNCHANGED vars  BY <1>2, <1>6 DEF vars, packetVars, threadVars
<1> QED
  BY <1>3, <1>4, <1>5, <1>6, StreamReceive DEF Next, RawDataProcess

(* No packet is lost, repeated or reordered between the callback of the    *)
(* SDK and the frames, for any number of lidars that gain and lose their   *)
(* synchronisation.                                                        *)
THEOREM StreamIntactHolds == Spec => []StreamIntact
<1>1. Init => StreamIntact
  <2> SUFFICES ASSUME Init PROVE StreamIntact  OBVIOUS
  <2>1. <<>> \in Seq(Packets) /\ Len(<<>>) = 0 /\ DOMAIN <<>> = {}  BY SeqFacts, EmptySeq
  <2>2. Waiting = <<>>  BY <2>1, ConcatFacts DEF Init, Waiting
  <2>3. \A l \in Lidars : Assembled(l) = <<>> /\ count[l] = 0
    BY <2>1, ConcatFacts DEF Init, Assembled
  <2> QED
    BY <2>1, <2>2, <2>3 DEF StreamIntact, FramesInOrder, NothingLost, Numbered, Holds
<1> QED  BY <1>1, TypeInit, TypeNext, StreamNext, PTL DEF Spec

-----------------------------------------------------------------------------
(* The span of a frame.                                                    *)

LEMMA DivFacts ==
  ASSUME NEW i \in Nat, NEW s \in Nat \ {0}
  PROVE  /\ i \div s \in Nat /\ s * (i \div s) \in Nat
         /\ s * (i \div s) <= i /\ i < s * (i \div s) + s
BY SMT

LEMMA MulFacts ==
  ASSUME NEW s \in Nat \ {0}, NEW y \in Nat
  PROVE  /\ s * y \in Nat /\ s * (y + 1) = s * y + s
         /\ (s * y) % s = 0
BY SMT

LEMMA MulMonotone ==
  ASSUME NEW s \in Nat \ {0}, NEW x \in Nat, NEW y \in Nat, x <= y
  PROVE  s * x <= s * y
BY SMT

Millis == Interval \div PerMs

(* The first stamp at which a frame that starts at beg is long enough.     *)
Enough(beg) == beg + Interval - PerMs

(* The first millisecond after that which the interval divides.            *)
Closing(beg) == Millis * (Ms(Enough(beg)) \div Millis + 1)

LEMMA MillisType == Millis \in Nat \ {0} /\ PerMs * Millis \in Nat /\ PerMs * Millis <= Interval
<1>1. /\ Millis \in Nat /\ PerMs * Millis \in Nat
      /\ PerMs * Millis <= Interval /\ Interval < PerMs * Millis + PerMs
  BY FrameAssumption, DivFacts DEF Millis
<1>2. Millis # 0
  <2> SUFFICES ASSUME Millis = 0 PROVE FALSE  OBVIOUS
  <2>1. PerMs * 0 = 0  BY FrameAssumption
  <2> QED  BY <1>1, <2>1, FrameAssumption
<1> QED  BY <1>1, <1>2

LEMMA MsType ==
  ASSUME NEW t \in Nat
  PROVE  /\ Ms(t) \in Nat /\ PerMs * Ms(t) \in Nat
         /\ PerMs * Ms(t) <= t /\ t < PerMs * Ms(t) + PerMs
BY FrameAssumption, DivFacts DEF Ms

LEMMA MsMonotone ==
  ASSUME NEW t \in Nat, NEW u \in Nat, Ms(t) < Ms(u)
  PROVE  t < u
<1>1. /\ Ms(t) \in Nat /\ Ms(u) \in Nat
      /\ t < PerMs * Ms(t) + PerMs /\ PerMs * Ms(u) <= u
      /\ PerMs * Ms(t) \in Nat /\ PerMs * Ms(u) \in Nat
  BY MsType
<1>2. PerMs * (Ms(t) + 1) = PerMs * Ms(t) + PerMs  BY <1>1, FrameAssumption, MulFacts
<1>3. PerMs * (Ms(t) + 1) <= PerMs * Ms(u)  BY <1>1, FrameAssumption, MulMonotone
<1> QED  BY <1>1, <1>2, <1>3, FrameAssumption

LEMMA ClosingFacts ==
  ASSUME NEW beg \in Nat
  PROVE  /\ Enough(beg) \in Nat /\ Enough(beg) >= beg
         /\ Closing(beg) \in Nat /\ Closing(beg) % Millis = 0
         /\ Closing(beg) > Ms(Enough(beg))
         /\ Closing(beg) <= Ms(Enough(beg)) + Millis
<1> DEFINE m == Ms(Enough(beg))
           d == m \div Millis
<1>1. Enough(beg) \in Nat /\ Enough(beg) >= beg  BY FrameAssumption DEF Enough
<1>2. m \in Nat  BY <1>1, MsType
<1> HIDE DEF m
<1>3. d \in Nat /\ Millis * d \in Nat /\ Millis * d <= m /\ m < Millis * d + Millis
  BY <1>2, MillisType, DivFacts
<1> HIDE DEF d
<1>4. /\ Millis * (d + 1) = Millis * d + Millis /\ (Millis * (d + 1)) % Millis = 0
  BY <1>3, MillisType, MulFacts
<1>5. Closing(beg) = Millis * (d + 1)  BY DEF Closing, m, d
<1> QED  BY <1>1, <1>2, <1>3, <1>4, <1>5, MillisType DEF m

(* A frame that is closed in its closing millisecond is short enough.      *)
LEMMA ClosedInTime ==
  ASSUME NEW beg \in Nat, NEW end \in Nat, Ms(end) <= Closing(beg)
  PROVE  end - beg < 2 * Interval
<1> DEFINE t == Enough(beg)
<1>1. t \in Nat /\ t = beg + Interval - PerMs  BY ClosingFacts DEF Enough
<1> HIDE DEF t
<1>2. /\ Ms(t) \in Nat /\ PerMs * Ms(t) \in Nat /\ PerMs * Ms(t) <= t
      /\ Ms(end) \in Nat /\ PerMs * Ms(end) \in Nat /\ end < PerMs * Ms(end) + PerMs
  BY <1>1, MsType
<1>3. Ms(end) <= Ms(t) + Millis
  <2>1. Closing(beg) \in Nat /\ Closing(beg) <= Ms(t) + Millis  BY ClosingFacts DEF t
  <2> QED  BY <1>2, <2>1, MillisType
<1>4. PerMs * Ms(end) <= PerMs * (Ms(t) + Millis)
  BY <1>2, <1>3, MillisType, FrameAssumption, MulMonotone
<1>5. PerMs * (Ms(t) + Millis) = PerMs * Ms(t) + PerMs * Millis
  BY <1>2, MillisType, FrameAssumption
<1>6. PerMs \in Nat /\ Interval \in Nat  BY FrameAssumption
<1> DEFINE a == PerMs * Ms(end)
           b == PerMs * Ms(t)
           c == PerMs * Millis
<1>7. /\ a \in Nat /\ b \in Nat /\ c \in Nat /\ c <= Interval /\ b <= t
      /\ end < a + PerMs /\ a <= b + c
  BY <1>2, <1>4, <1>5, MillisType
<1> HIDE DEF a, b, c
<1> QED  BY <1>1, <1>6, <1>7

(* A frame without gaps has not passed its closing millisecond; while it   *)
(* waits it has not reached it.                                            *)
Within(s) == s # <<>> /\ GapFree(s) => Ms(Last(s).end) <= Closing(s[1].beg)
Open(s)   == s # <<>> /\ GapFree(s) => Ms(Last(s).end) < Closing(s[1].beg)

LEMMA LastType ==
  ASSUME NEW s \in Seq(Packets), s # <<>>
  PROVE  /\ Last(s) \in Packets /\ Last(s).end \in Nat /\ s[1].beg \in Nat
         /\ Ms(Last(s).end) \in Nat /\ Closing(s[1].beg) \in Nat
<1>1. Len(s) \in Nat /\ Len(s) >= 1 /\ \A i \in 1 .. Len(s) : s[i] \in Packets
  BY SeqFacts
<1>2. Last(s) \in Packets /\ s[1] \in Packets  BY <1>1 DEF Last
<1>3. Last(s).end \in Nat /\ s[1].beg \in Nat  BY <1>2 DEF Packets
<1> QED  BY <1>2, <1>3, MsType, ClosingFacts

LEMMA OpenIsWithin ==
  ASSUME NEW s \in Seq(Packets), Open(s)
  PROVE  Within(s)
BY LastType DEF Open, Within

LEMMA WithinIsShort ==
  ASSUME NEW s \in Seq(Packets), Within(s)
  PROVE  Short(s)
<1> SUFFICES ASSUME s # <<>>, GapFree(s) PROVE Last(s).end - s[1].beg < 2 * Interval
  BY DEF Short
<1>1. Ms(Last(s).end) <= Closing(s[1].beg)  BY DEF Within
<1>2. Last(s).end \in Nat /\ s[1].beg \in Nat  BY LastType
<1> QED  BY <1>1, <1>2, ClosedInTime

(* One packet more is at most one millisecond more: it may reach the       *)
(* closing millisecond, and then CheckTimer closes the frame.              *)
LEMMA OneMorePacket ==
  ASSUME NEW s \in Seq(Packets), Open(s), NEW p \in Packets
  PROVE  /\ Within(Append(s, p))
         /\ ~SyncDue(Append(s, p)) => Open(Append(s, p))
<1> DEFINE a == Append(s, p)
           n == Len(s)
<1>1. /\ n \in Nat /\ a \in Seq(Packets) /\ a # <<>> /\ Len(a) = n + 1
      /\ \A i \in 1 .. n : a[i] = s[i]
      /\ a[n + 1] = p
  BY SeqFacts, AppendFacts
<1> DEFINE beg == a[1].beg
           end == p.end
<1>2. Last(a) = p  BY <1>1 DEF Last
<1>3. beg \in Nat /\ end \in Nat /\ Ms(end) \in Nat  BY <1>1, <1>2, LastType
<1> HIDE DEF a
<1>4. /\ Closing(beg) \in Nat /\ Closing(beg) % Millis = 0
      /\ Enough(beg) \in Nat /\ Enough(beg) >= beg
      /\ Ms(Enough(beg)) \in Nat /\ Ms(Enough(beg)) < Closing(beg)
  BY <1>3, ClosingFacts, MsType
<1>5. ASSUME GapFree(a) PROVE Ms(end) <= Closing(beg)
  <2>1. CASE s = <<>>
    <3>1. n = 0 /\ a[1] = p  BY <2>1, <1>1, SeqFacts
    <3>2. Ms(end) <= Ms(beg) + 1  BY <3>1, <1>1, <1>5 DEF GapFree
    <3>3. Ms(beg) \in Nat  BY <1>3, MsType
    <3>4. Ms(beg) <= Ms(Enough(beg))
      <4> SUFFICES ASSUME Ms(Enough(beg)) < Ms(beg) PROVE FALSE  BY <1>4, <3>3
      <4>1. Enough(beg) < beg  BY <1>3, <1>4, MsMonotone
      <4> QED  BY <4>1, <1>3, <1>4
    <3> QED  BY <3>2, <3>3, <3>4, <1>3, <1>4
  <2>2. CASE s # <<>>
    <3>1. n >= 1 /\ a[1] = s[1] /\ a[n] = Last(s)  BY <2>2, <1>1, SeqFacts DEF Last
    <3>2. n \in 1 .. Len(a) - 1  BY <3>1, <1>1
    <3>3. Ms(end) <= Ms(Last(s).end) + 1  BY <3>1, <3>2, <1>1, <1>5 DEF GapFree
    <3>4. GapFree(s)
      <4>1. Ms(s[1].end) <= Ms(s[1].beg) + 1  BY <3>1, <1>1, <1>5 DEF GapFree
      <4>2. ASSUME NEW i \in 1 .. n - 1
            PROVE  s[i].end <= s[i + 1].end /\ Ms(s[i + 1].end) <= Ms(s[i].end) + 1
        <5>1. i \in 1 .. Len(a) - 1 /\ a[i] = s[i] /\ a[i + 1] = s[i + 1]
          BY <1>1
        <5> QED  BY <5>1, <1>5 DEF GapFree
      <4> QED  BY <4>1, <4>2 DEF GapFree
    <3>5. Ms(Last(s).end) < Closing(beg)  BY <2>2, <3>1, <3>4 DEF Open
    <3>6. Ms(Last(s).end) \in Nat  BY <2>2, LastType
    <3> QED  BY <3>3, <3>5, <3>6, <1>3, <1>4
  <2> QED  BY <2>1, <2>2
<1>6. Within(a)  BY <1>2, <1>5 DEF Within
<1>7. ASSUME ~SyncDue(a), GapFree(a), Ms(end) = Closing(beg) PROVE FALSE
  <2>1. GetRecentTimeStamp(a) = end /\ GetLidarBaseTime(a) = beg
    BY <1>1, <1>2 DEF GetRecentTimeStamp, GetLidarBaseTime
  <2>2. (end \div PerMs) % (Interval \div PerMs) = 0 /\ end \div PerMs # 0
    BY <1>7, <1>4 DEF Ms, Millis
  <2>3. Enough(beg) < end  BY <1>3, <1>4, <1>7, MsMonotone
  <2>4. end - beg >= Interval - PerMs
    BY <2>3, <1>3, FrameAssumption DEF Enough
  <2> QED  BY <2>1, <2>2, <2>4, <1>7 DEF SyncDue
<1>8. ASSUME ~SyncDue(a) PROVE Open(a)
  <2> SUFFICES ASSUME GapFree(a) PROVE Ms(end) < Closing(beg)  BY <1>2 DEF Open
  <2> QED  BY <1>3, <1>4, <1>5, <1>7, <1>8
<1> QED  BY <1>6, <1>8 DEF a

-----------------------------------------------------------------------------
(* While no packet came without synchronisation, the timer of the host's   *)
(* clock is not used, and every frame is within its closing millisecond.   *)
SpanInv ==
  \/ unsynced
  \/ /\ is_timestamp_sync \/ (raw_data = <<>> /\ raw_packet_queue = <<>>)
     /\ \A l \in Lidars : Open(points_clouds[l]) /\ Within(points[l])

LEMMA SpanProcess ==
  ASSUME TypeOK, SpanInv, Process
  PROVE  SpanInv'
<1> DEFINE p == raw_data[1]
<1>1. p \in Packets /\ raw_data = <<p>> /\ raw_data # <<>>
  BY TakenPacket, OneIsSeq DEF Process
<1>2. CASE unsynced  BY <1>2 DEF Process, packetVars, SpanInv
<1>3. CASE ~unsynced
  <2>1. /\ is_timestamp_sync
        /\ \A l \in Lidars : Open(points_clouds[l]) /\ Within(points[l])
    BY <1>1, <1>3 DEF SpanInv
  <2>2. CheckStamps(Added(p), p.id)  BY <2>1 DEF Process
  <2>3. \A l \in Lidars : points_clouds[l] \in Seq(Packets)  BY DEF TypeOK
  <2>4. p.id \in Lidars  BY <1>1 DEF Packets
  <2>5. /\ Within(Added(p)[p.id])
        /\ ~SyncDue(Added(p)[p.id]) => Open(Added(p)[p.id])
    <3>1. CASE p.no = 0
      BY <3>1, <1>1, <2>1, <2>3, <2>4, AddedType, OpenIsWithin
    <3>2. CASE p.no # 0
      <4>1. Added(p)[p.id] = Append(points_clouds[p.id], p)  BY <3>2, <1>1, AddedType
      <4> QED  BY <4>1, <1>1, <2>1, <2>3, <2>4, OneMorePacket
    <3> QED  BY <3>1, <3>2
  <2>6. ASSUME NEW l \in Lidars PROVE Open(points_clouds'[l]) /\ Within(points'[l])
    <3>1. l # p.id => Added(p)[l] = points_clouds[l]  BY <1>1, AddedType
    <3>2. CASE SyncDue(Added(p)[p.id])
      <4>1. Close(Added(p), {p.id})  BY <2>2, <3>2 DEF CheckStamps
      <4>2. CASE l = p.id
        <5>1. points_clouds'[l] = <<>> /\ points'[l] = Added(p)[l]
          BY <4>1, <4>2 DEF Close
        <5> QED  BY <5>1, <4>2, <2>5 DEF Open
      <4>3. CASE l # p.id
        <5>1. points_clouds'[l] = Added(p)[l] /\ points'[l] = points[l]
          BY <4>1, <4>3 DEF Close
        <5> QED  BY <5>1, <4>3, <3>1, <2>1
      <4> QED  BY <4>2, <4>3
    <3>3. CASE ~SyncDue(Added(p)[p.id])
      <4>1. points_clouds' = Added(p) /\ points' = points
        BY <2>2, <3>3 DEF CheckStamps, Keep
      <4>2. Open(Added(p)[l])
        <5>1. CASE l = p.id  BY <5>1, <3>3, <2>5
        <5>2. CASE l # p.id  BY <5>2, <3>1, <2>1
        <5> QED  BY <5>1, <5>2
      <4> QED  BY <4>1, <4>2, <2>1
    <3> QED  BY <3>2, <3>3
  <2>7. \A l \in Lidars : Open(points_clouds[l])' /\ Within(points[l])'
    BY <2>6 DEF Open, Within
  <2>8. is_timestamp_sync'  BY <2>1 DEF Process, packetVars
  <2> QED  BY <2>7, <2>8 DEF SpanInv
<1> QED  BY <1>2, <1>3

LEMMA SpanNext == TypeOK /\ SpanInv /\ [Next]_vars => SpanInv'
<1> SUFFICES ASSUME TypeOK, SpanInv, [Next]_vars PROVE SpanInv'  OBVIOUS
<1>1. ASSUME UNCHANGED cloudVars
      PROVE  (\A l \in Lidars : Open(points_clouds[l]) /\ Within(points[l]))
               => (\A l \in Lidars : Open(points_clouds[l]) /\ Within(points[l]))'
  BY <1>1 DEF cloudVars, Open, Within
<1>2. ASSUME UNCHANGED <<unsynced, is_timestamp_sync>>, UNCHANGED cloudVars,
             raw_data = <<>> /\ raw_packet_queue = <<>>
               => raw_data' = <<>> /\ raw_packet_queue' = <<>>
      PROVE  SpanInv'
  BY <1>1, <1>2 DEF SpanInv
<1>3. ASSUME NEW sync, is_timestamp_sync' = sync, unsynced' = (unsynced \/ ~sync),
             UNCHANGED cloudVars
      PROVE  SpanInv'
  BY <1>1, <1>3 DEF SpanInv
<1>4. ASSUME NEW l \in Lidars, NEW sync \in Syncs, NEW known \in BOOLEAN,
             NEW t \in Stamps, NEW d \in Lengths, Receive(l, sync, known, t, d)
      PROVE  SpanInv'
  BY <1>3, <1>4 DEF Receive, threadVars
<1>5. ASSUME NEW sync \in Syncs, ReceiveImu(sync) PROVE SpanInv'
  BY <1>3, <1>5 DEF ReceiveImu, threadVars
<1>6. CASE CheckQuit  BY <1>2, <1>6 DEF CheckQuit, packetVars
<1>7. CASE LockQueue \/ Wake
  <2>1. UNCHANGED <<unsynced, is_timestamp_sync>> /\ UNCHANGED cloudVars
    BY <1>7 DEF LockQueue, Wake
  <2>2. raw_packet_queue = <<>> => raw_data' = raw_data /\ raw_packet_queue' = <<>>
    BY <1>7 DEF LockQueue, Wake, TakeFront
  <2> QED  BY <1>2, <2>1, <2>2
<1>8. CASE RequestExit \/ Tick \/ UNCHANGED vars
  BY <1>2, <1>8 DEF RequestExit, Tick, vars, packetVars, threadVars
<1> QED  BY <1>4, <1>5, <1>6, <1>7, <1>8, SpanProcess DEF Next, RawDataProcess

(* A synchronised lidar that misses no millisecond never waits two         *)
(* intervals for its frame, for any interval and any stamps.               *)
THEOREM FramesShortHolds == Spec => []FramesShort
<1>1. Init => TypeOK /\ SpanInv
  <2> SUFFICES ASSUME Init PROVE SpanInv  BY TypeInit
  <2> QED  BY DEF Init, SpanInv, Open, Within
<1>2. TypeOK /\ SpanInv => FramesShort
  <2> SUFFICES ASSUME TypeOK, SpanInv, ~unsynced, NEW l \in Lidars
      PROVE  Short(points_clouds[l]) /\ Short(points[l])
    BY DEF FramesShort
  <2>1. points_clouds[l] \in Seq(Packets) /\ points[l] \in Seq(Packets)  BY DEF TypeOK
  <2>2. Open(points_clouds[l]) /\ Within(points[l])  BY DEF SpanInv
  <2> QED  BY <2>1, <2>2, OpenIsWithin, WithinIsShort
<1> QED  BY <1>1, <1>2, TypeNext, SpanNext, PTL DEF Spec
=============================================================================
