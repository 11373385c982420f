---------------------------- MODULE PtpNetProofs ----------------------------
(***************************************************************************)
(* The message queue of the PTP daemon for every size of the ring, every   *)
(* number of packets and every pool: its counter, its order and its leaks. *)
(***************************************************************************)
EXTENDS PtpNet, SequenceTheorems, TLAPS

\* What follows speaks of positions in the sequences instead of subsequences.
StoreInv == pc = "store" => reg \in 1 .. count

\* The packets that were put in and not taken out, whatever `count' says.
Backlog == Len(queued) - Len(taken)

\* The ring has room for them and holds them from `get' on.
InPlace ==
  /\ Backlog <= PBUF_QUEUE_SIZE
  /\ put = (get + Backlog) % PBUF_QUEUE_SIZE
  /\ \A i \in 1 .. Backlog :
       pbuf[(get + (i - 1)) % PBUF_QUEUE_SIZE] = queued[Len(taken) + i]
  /\ \A i \in 1 .. Len(taken) : taken[i] = queued[i]

Accounted(a) ==
  \/ \E i \in Len(taken) + 1 .. Len(queued) : queued[i] = a
  \/ a \in dropped
  \/ pc \in {"store", "use"} /\ a = p

QueueInv ==
  /\ TypeOK /\ StoreInv /\ CountIsLow
  /\ overrun => lost > 0
  /\ ~overrun => InPlace
  /\ ~overrun => \A a \in alloc : Accounted(a)

-----------------------------------------------------------------------------
\* What the assumptions of the module say of the queue and the bound.
LEMMA SizeType == PBUF_QUEUE_SIZE \in Nat \ {0} /\ MaxPackets \in Nat
  BY SizeAssumption, PacketsAssumption

\* What the remainder is near zero.
LEMMA ModBelow == ASSUME NEW n \in Nat \ {0}, NEW x \in 0 .. n - 1 PROVE x % n = x
  BY SMT
\* A value past n but within twice n loses n once.
LEMMA ModOnce ==
  ASSUME NEW n \in Nat \ {0}, NEW x \in n .. 2 * n - 1 PROVE x % n = x - n
  BY SMT

\* The slot k places behind slot g.
LEMMA Behind ==
  ASSUME NEW n \in Nat \ {0}, NEW g \in 0 .. n - 1, NEW k \in 0 .. n
  PROVE  /\ (g + k) % n = IF g + k < n THEN g + k ELSE g + k - n
         /\ (g + k) % n \in 0 .. n - 1
<1>1. CASE g + k < n
  BY <1>1, ModBelow, g + k \in 0 .. n - 1
<1>2. CASE ~(g + k < n)
  <2>1. g + k \in n .. 2 * n - 1
    BY <1>2
  <2>2. (g + k) % n = (g + k) - n
    BY <2>1, ModOnce
  <2>3. (g + k) - n \in 0 .. n - 1
    BY <2>1
  <2> QED BY <1>2, <2>2, <2>3
<1> QED BY <1>1, <1>2

\* Slots at different places are different.
LEMMA BehindDiffer ==
  ASSUME NEW n \in Nat \ {0}, NEW g \in 0 .. n - 1,
         NEW k \in 0 .. n - 1, NEW l \in 0 .. n - 1, k # l
  PROVE  (g + k) % n # (g + l) % n
<1>1. k \in 0 .. n /\ l \in 0 .. n OBVIOUS
<1>2. (g + k) % n = IF g + k < n THEN g + k ELSE g + k - n BY <1>1, Behind
<1>3. (g + l) % n = IF g + l < n THEN g + l ELSE g + l - n BY <1>1, Behind
<1> DEFINE a == (g + k) % n
           b == (g + l) % n
<1>4. a = (IF g + k < n THEN g + k ELSE g + k - n)
        /\ b = (IF g + l < n THEN g + l ELSE g + l - n)
  BY <1>2, <1>3
<1> HIDE DEF a, b
<1>5. a # b BY <1>4
<1> QED BY <1>5 DEF a, b

\* The slot k + 1 places behind g is the one k places behind the next slot.
LEMMA BehindNext ==
  ASSUME NEW n \in Nat \ {0}, NEW g \in 0 .. n - 1, NEW k \in 0 .. n - 1
  PROVE  (((g + 1) % n) + k) % n = (g + (k + 1)) % n
<1>1. 1 \in 0 .. n /\ k \in 0 .. n /\ k + 1 \in 0 .. n OBVIOUS
<1> DEFINE h == (g + 1) % n
<1>2. h = (IF g + 1 < n THEN g + 1 ELSE g + 1 - n) /\ h \in 0 .. n - 1
  BY <1>1, Behind
<1> HIDE DEF h
<1>3. (h + k) % n = IF h + k < n THEN h + k ELSE h + k - n BY <1>1, <1>2, Behind
<1>4. (g + (k + 1)) % n = IF g + (k + 1) < n THEN g + (k + 1) ELSE g + (k + 1) - n
  BY <1>1, Behind
<1> DEFINE a == (h + k) % n
           b == (g + (k + 1)) % n
<1>5. a = (IF h + k < n THEN h + k ELSE h + k - n)
        /\ b = (IF g + (k + 1) < n THEN g + (k + 1) ELSE g + (k + 1) - n)
  BY <1>3, <1>4
<1> HIDE DEF a, b
<1>6. a = b BY <1>2, <1>5
<1> QED BY <1>6 DEF a, b, h

\* The slot behind the one k places behind g.
LEMMA NextBehind ==
  ASSUME NEW n \in Nat \ {0}, NEW g \in 0 .. n - 1, NEW k \in 0 .. n - 1
  PROVE  (((g + k) % n) + 1) % n = (g + (k + 1)) % n
<1>1. 1 \in 0 .. n /\ k \in 0 .. n /\ k + 1 \in 0 .. n OBVIOUS
<1> DEFINE h == (g + k) % n
<1>2. h = (IF g + k < n THEN g + k ELSE g + k - n) /\ h \in 0 .. n - 1
  BY <1>1, Behind
<1> HIDE DEF h
<1>3. (h + 1) % n = IF h + 1 < n THEN h + 1 ELSE h + 1 - n BY <1>1, <1>2, Behind
<1>4. (g + (k + 1)) % n = IF g + (k + 1) < n THEN g + (k + 1) ELSE g + (k + 1) - n
  BY <1>1, Behind
<1> DEFINE a == (h + 1) % n
           b == (g + (k + 1)) % n
<1>5. a = (IF h + 1 < n THEN h + 1 ELSE h + 1 - n)
        /\ b = (IF g + (k + 1) < n THEN g + (k + 1) ELSE g + (k + 1) - n)
  BY <1>3, <1>4
<1> HIDE DEF a, b
<1>6. a = b BY <1>2, <1>5
<1> QED BY <1>6 DEF a, b, h

-----------------------------------------------------------------------------
\* What the counter says of the packets that wait.
LEMMA Waits ==
  ASSUME QueueInv
  PROVE  /\ count - Uncounted \in 0 .. PBUF_QUEUE_SIZE /\ lost \in Nat
         /\ Backlog \in Nat /\ Backlog = (count - Uncounted) + lost
         /\ Len(queued) = Len(taken) + Backlog
         /\ Len(queued) \in Nat /\ Len(taken) \in Nat
<1>1. /\ Len(queued) \in Nat /\ Len(taken) \in Nat /\ count \in 0 .. PBUF_QUEUE_SIZE
      /\ lost \in Nat
  BY LenProperties DEF QueueInv, TypeOK
<1>2. Uncounted \in 0 .. 1 /\ count - Uncounted \in 0 .. PBUF_QUEUE_SIZE
  <2>1. CASE pc = "store"
    <3>1. reg \in 1 .. count BY <2>1 DEF QueueInv, StoreInv
    <3> QED BY <1>1, <2>1, <3>1, SizeType DEF Uncounted
  <2>2. CASE pc # "store" BY <1>1, <2>2, SizeType DEF Uncounted
  <2> QED BY <2>1, <2>2
<1>3. count + lost = Len(queued) - Len(taken) + Uncounted
  BY DEF QueueInv, CountIsLow
<1> QED BY <1>1, <1>2, <1>3, SizeType DEF Backlog

\* The packets that wait, position by position.
LEMMA PendingIs ==
  ASSUME QueueInv
  PROVE  /\ Pending \in Seq(Packets)
         /\ Len(Pending) = Backlog
         /\ \A i \in 1 .. Len(Pending) : Pending[i] = queued[Len(taken) + i]
<1>1. /\ Backlog \in Nat /\ Len(queued) = Len(taken) + Backlog
      /\ Len(queued) \in Nat /\ Len(taken) \in Nat
  BY Waits
<1>2. queued \in Seq(Packets) BY DEF QueueInv, TypeOK
<1> DEFINE m == Len(taken) + 1
           l == Len(queued)
<1>3. /\ m \in 1 .. l + 1 /\ l \in m - 1 .. l
      /\ l - m + 1 = Backlog
  BY <1>1
<1>4. /\ SubSeq(queued, m, l) \in Seq(Packets)
      /\ Len(SubSeq(queued, m, l)) = IF m <= l THEN l - m + 1 ELSE 0
      /\ \A i \in 1 .. l - m + 1 : SubSeq(queued, m, l)[i] = queued[m + i - 1]
  BY <1>2, <1>3, SubSeqProperties
<1>5. Len(Pending) = Backlog
  BY <1>1, <1>3, <1>4 DEF Pending
<1>6. \A i \in 1 .. Len(Pending) : Pending[i] = queued[Len(taken) + i]
  <2> TAKE i \in 1 .. Len(Pending)
  <2>1. i \in 1 .. l - m + 1 /\ m + i - 1 = Len(taken) + i
    BY <1>1, <1>3, <1>5
  <2> QED BY <1>4, <2>1 DEF Pending
<1> QED BY <1>4, <1>5, <1>6 DEF Pending

\* The queue starts as the invariant says.
LEMMA InitQueue == Init => QueueInv
<1> SUFFICES ASSUME Init PROVE QueueInv OBVIOUS
<1> USE SizeType DEF Init
<1>1. TypeOK
  <2>1. queued \in Seq(Packets) /\ taken \in Seq(0 .. MaxPackets) BY EmptySeq
  <2>2. overrun \in BOOLEAN BY Zenon
  <2> HIDE DEF Init
  <2>3. /\ pbuf = [s \in Slots |-> 0] /\ get = 0 /\ put = 0 /\ count = 0
        /\ pc = "idle" /\ cnt = -1 /\ reg = 0 /\ p = 0
        /\ big = {} /\ packets = 0 /\ alloc = {} /\ dropped = {} /\ lost = 0
    BY Zenon DEF Init
  <2> QED BY <2>1, <2>2, <2>3 DEF TypeOK, Slots, Packets
<1>2. StoreInv BY DEF StoreInv
<1>3. CountIsLow
  <2>1. Len(queued) = 0 /\ Len(taken) = 0 BY EmptySeq
  <2> QED BY <2>1 DEF CountIsLow, Uncounted
<1>4. InPlace
  <2>1. 0 % PBUF_QUEUE_SIZE = 0
    BY ModBelow, 0 \in 0 .. PBUF_QUEUE_SIZE - 1
  <2>2. Len(taken) = 0 BY EmptySeq
  <2>3. Backlog = 0 /\ put = 0 /\ get = 0 BY EmptySeq DEF Backlog
  <2>4. get + Backlog = 0 BY <2>3
  <2>5. put = (get + Backlog) % PBUF_QUEUE_SIZE BY <2>1, <2>3, <2>4, Zenon
  <2> QED BY <2>2, <2>3, <2>5 DEF InPlace
<1>5. \A a \in alloc : Accounted(a) OBVIOUS
<1> QED BY <1>1, <1>2, <1>3, <1>4, <1>5 DEF QueueInv

-----------------------------------------------------------------------------
(* The callback.                                                           *)

\* netQPut counts one packet more and puts it behind the others.
LEMMA PutType ==
  ASSUME QueueInv, packets < MaxPackets, HasRoom, netQPut(packets + 1)
  PROVE  /\ pbuf' \in [Slots -> 0 .. MaxPackets] /\ put' \in Slots
         /\ count' \in 0 .. PBUF_QUEUE_SIZE /\ count' = count + 1
         /\ queued' \in Seq(Packets) /\ alloc' \subseteq Packets
         /\ Len(queued') = Len(queued) + 1
         /\ \A i \in 1 .. Len(queued) : queued'[i] = queued[i]
         /\ queued'[Len(queued) + 1] = packets + 1
<1>1. TypeOK BY DEF QueueInv
<1>2. packets + 1 \in Packets BY <1>1, SizeType DEF TypeOK, Packets
<1>3. pbuf' \in [Slots -> 0 .. MaxPackets]
  BY <1>1, <1>2, SizeType DEF TypeOK, netQPut, Packets
<1>4. put' \in Slots
  <2>1. 1 \in 0 .. PBUF_QUEUE_SIZE /\ put \in 0 .. PBUF_QUEUE_SIZE - 1
    BY <1>1, SizeType DEF TypeOK, Slots
  <2>2. (put + 1) % PBUF_QUEUE_SIZE \in 0 .. PBUF_QUEUE_SIZE - 1
    BY <2>1, Behind, SizeType
  <2> QED BY <2>2 DEF netQPut, Slots
<1>5. count' \in 0 .. PBUF_QUEUE_SIZE /\ count' = count + 1
  BY <1>1, SizeType DEF TypeOK, netQPut, HasRoom
<1>6. alloc' \subseteq Packets BY <1>1, <1>2 DEF TypeOK, netQPut
<1>7. /\ queued' \in Seq(Packets)
      /\ Len(queued') = Len(queued) + 1
      /\ \A i \in 1 .. Len(queued) : queued'[i] = queued[i]
      /\ queued'[Len(queued) + 1] = packets + 1
  <2>1. queued \in Seq(Packets) /\ queued' = Append(queued, packets + 1)
    BY <1>1 DEF TypeOK, netQPut
  <2> QED BY <2>1, <1>2, AppendProperties
<1> QED BY <1>3, <1>4, <1>5, <1>6, <1>7

\* netQPut leaves the packets of the queue in their slots, the new one behind them.
LEMMA PutInPlace ==
  ASSUME QueueInv, ~overrun', packets < MaxPackets, HasRoom, netQPut(packets + 1),
         UNCHANGED <<pc, taken>>
  PROVE  InPlace'
<1> DEFINE c == Backlog
           Slot(i) == (get + i) % PBUF_QUEUE_SIZE
<1>0. ~overrun /\ InPlace /\ Backlog < PBUF_QUEUE_SIZE
  <2>1. ~overrun /\ ~(Len(Pending) >= PBUF_QUEUE_SIZE) BY DEF netQPut
  <2>2. Len(Pending) = Backlog /\ Backlog \in Nat BY PendingIs, Waits
  <2> QED BY <2>1, <2>2, SizeType DEF QueueInv
<1>1. /\ c \in 0 .. PBUF_QUEUE_SIZE - 1
      /\ Len(queued) = Len(taken) + c
      /\ Len(queued) \in Nat /\ Len(taken) \in Nat
  BY <1>0, Waits, SizeType
<1>2. get \in 0 .. PBUF_QUEUE_SIZE - 1 /\ put = Slot(c)
  BY <1>0 DEF QueueInv, TypeOK, InPlace, Slots
<1>3. Backlog' = c + 1 /\ c + 1 <= PBUF_QUEUE_SIZE
  <2>1. Len(queued') = Len(queued) + 1 BY PutType
  <2> QED BY <2>1, <1>1, SizeType DEF Backlog
<1>4. put' = (get' + Backlog') % PBUF_QUEUE_SIZE
  <2>1. put' = (Slot(c) + 1) % PBUF_QUEUE_SIZE BY <1>2 DEF netQPut
  <2>2. put' = (get + (c + 1)) % PBUF_QUEUE_SIZE
    BY <2>1, <1>1, <1>2, NextBehind, SizeType
  <2> QED BY <2>2, <1>3 DEF netQPut
<1>5. ASSUME NEW i \in 1 .. c + 1
      PROVE  pbuf'[Slot(i - 1)] = queued'[Len(taken) + i]
  <2>1. pbuf \in [Slots -> 0 .. MaxPackets] /\ put \in Slots
        /\ pbuf' = [pbuf EXCEPT ![put] = packets + 1]
    BY DEF QueueInv, TypeOK, netQPut
  <2>2. CASE i = c + 1
    <3>1. i - 1 = c /\ Len(taken) + i = Len(queued) + 1 BY <1>1, <2>2
    <3>2. pbuf'[put] = packets + 1 BY <2>1
    <3> QED BY <3>1, <3>2, <1>2, PutType
  <2>3. CASE i # c + 1
    <3>1. i \in 1 .. c /\ i - 1 \in 0 .. PBUF_QUEUE_SIZE - 1 /\ i - 1 # c
          /\ Len(taken) + i \in 1 .. Len(queued)
      BY <1>1, <2>3, SizeType
    <3>2. Slot(i - 1) # put BY <3>1, <1>1, <1>2, BehindDiffer, SizeType
    <3>3. Slot(i - 1) \in Slots
      <4>1. i - 1 \in 0 .. PBUF_QUEUE_SIZE BY <3>1, SizeType
      <4> QED BY <4>1, <1>2, Behind, SizeType DEF Slots
    <3>4. pbuf'[Slot(i - 1)] = pbuf[Slot(i - 1)] BY <2>1, <3>2, <3>3
    <3>5. pbuf[Slot(i - 1)] = queued[Len(taken) + i]
      BY <1>0, <3>1 DEF InPlace
    <3> QED BY <3>1, <3>4, <3>5, PutType
  <2> QED BY <2>2, <2>3
<1>6. \A i \in 1 .. Len(taken) : taken'[i] = queued'[i]
  <2> TAKE i \in 1 .. Len(taken)
  <2>1. i \in 1 .. Len(queued) BY <1>1
  <2>2. taken[i] = queued[i] BY <1>0 DEF InPlace
  <2> QED BY <2>1, <2>2, PutType
<1>7. get' = get /\ taken' = taken BY DEF netQPut
<1> QED BY <1>3, <1>4, <1>5, <1>6, <1>7 DEF InPlace
\* A packet that comes is queued or freed.
LEMMA RecvStep ==
  ASSUME QueueInv, NEW tooBig \in BOOLEAN, RecvCallback(tooBig)
  PROVE  QueueInv'
<1> DEFINE n == packets + 1
<1>1. TypeOK /\ packets < MaxPackets /\ n \in Packets /\ packets' \in 0 .. MaxPackets
  BY SizeType DEF QueueInv, TypeOK, Packets, RecvCallback
<1>2. /\ UNCHANGED <<pc, cnt, reg, p, taken, dropped, lost>>
      /\ big' \subseteq Packets
  BY <1>1 DEF RecvCallback, main, TypeOK
<1>3. Uncounted' = Uncounted BY <1>2 DEF Uncounted
<1>4. CASE HasRoom
  <2>1. netQPut(n) BY <1>4 DEF RecvCallback
  <2>2. TypeOK'
    <3>1. get' = get BY <2>1 DEF netQPut
    <3>2. /\ pbuf' \in [Slots -> 0 .. MaxPackets] /\ put' \in Slots
          /\ count' \in 0 .. PBUF_QUEUE_SIZE
          /\ queued' \in Seq(Packets) /\ alloc' \subseteq Packets
      BY <1>1, <1>4, <2>1, PutType
    <3>3. overrun' \in BOOLEAN BY <2>1 DEF netQPut
    <3> QED BY <1>1, <1>2, <3>1, <3>2, <3>3 DEF TypeOK
  <2>3. count' = count + 1 /\ Len(queued') = Len(queued) + 1
    BY <1>1, <1>4, <2>1, PutType
  <2>4. /\ count \in Nat /\ reg \in Nat /\ Len(queued) \in Nat /\ Len(taken) \in Nat
        /\ lost \in Nat /\ Uncounted \in 0 .. 1
    BY <1>1, SizeType, LenProperties DEF TypeOK, Uncounted
  <2>5. StoreInv' BY <1>2, <2>3, <2>4 DEF StoreInv, QueueInv
  <2>6. CountIsLow' BY <1>2, <1>3, <2>3, <2>4 DEF CountIsLow, QueueInv
  <2>7. ~overrun' => InPlace' BY <1>1, <1>2, <1>4, <2>1, PutInPlace
  <2>9. overrun' => lost' > 0
    <3>1. CASE overrun BY <1>2, <3>1 DEF QueueInv
    <3>2. CASE ~overrun /\ overrun'
      <4>1. Backlog >= PBUF_QUEUE_SIZE BY <2>1, <3>2, PendingIs DEF netQPut
      <4>2. Backlog = (count - Uncounted) + lost BY Waits
      <4> QED BY <1>2, <1>4, <2>4, <4>1, <4>2, SizeType DEF HasRoom
    <3> QED BY <3>1, <3>2
  <2>8. ASSUME ~overrun', NEW a \in alloc' PROVE Accounted(a)'
    <3>0. ~overrun BY <2>1, <2>8 DEF netQPut
    <3>1. /\ \A i \in 1 .. Len(queued) : queued'[i] = queued[i]
          /\ queued'[Len(queued) + 1] = n
      BY <1>1, <1>4, <2>1, PutType
    <3>2. Len(taken) <= Len(queued)
      BY <2>4, Waits
    <3>3. CASE a = n
      <4>1. Len(queued) + 1 \in Len(taken') + 1 .. Len(queued')
        BY <1>2, <2>3, <2>4, <3>2
      <4> QED BY <3>1, <3>3, <4>1 DEF Accounted
    <3>4. CASE a \in alloc
      <4>1. Accounted(a) BY <3>0, <3>4 DEF QueueInv
      <4>2. CASE \E i \in Len(taken) + 1 .. Len(queued) : queued[i] = a
        <5>1. PICK i \in Len(taken) + 1 .. Len(queued) : queued[i] = a BY <4>2
        <5>2. i \in 1 .. Len(queued) /\ i \in Len(taken') + 1 .. Len(queued')
          BY <1>2, <2>3, <2>4
        <5> QED BY <3>1, <5>1, <5>2 DEF Accounted
      <4>3. CASE a \in dropped \/ (pc \in {"store", "use"} /\ a = p)
        BY <1>2, <4>3 DEF Accounted
      <4> QED BY <4>1, <4>2, <4>3 DEF Accounted
    <3> QED BY <2>1, <2>8, <3>3, <3>4 DEF netQPut
  <2> QED BY <2>2, <2>5, <2>6, <2>7, <2>8, <2>9 DEF QueueInv
<1>5. CASE ~HasRoom
  <2>1. UNCHANGED <<pbuf, get, put, count, queued, alloc, overrun>>
    BY <1>5 DEF RecvCallback, Refuse, queue
  <2>2. TypeOK' BY <1>1, <1>2, <2>1 DEF TypeOK
  <2>3. StoreInv' /\ CountIsLow'
    BY <1>2, <1>3, <2>1 DEF QueueInv, StoreInv, CountIsLow
  <2>4. ~overrun' => InPlace' BY <1>2, <2>1 DEF QueueInv, InPlace, Backlog
  <2>5. ~overrun' => \A a \in alloc' : Accounted(a)'
    BY <1>2, <2>1 DEF QueueInv, Accounted
  <2>6. overrun' => lost' > 0 BY <1>2, <2>1 DEF QueueInv
  <2> QED BY <2>2, <2>3, <2>4, <2>5, <2>6 DEF QueueInv
<1> QED BY <1>4, <1>5

-----------------------------------------------------------------------------
(* The main loop.                                                          *)

\* Where only the place in the loop changes, and not between load and store.
LEMMA Moves ==
  ASSUME QueueInv, pc \notin {"store", "use"}, pc' \in {"idle", "get"},
         cnt' \in -1 .. PBUF_QUEUE_SIZE,
         UNCHANGED <<pbuf, get, put, count, reg, p, big, packets, alloc, queued,
                     taken, dropped, lost, overrun>>
  PROVE  QueueInv'
<1>1. Uncounted' = Uncounted BY DEF Uncounted
<1>2. TypeOK' BY DEF QueueInv, TypeOK
<1>3. StoreInv' /\ CountIsLow' BY <1>1 DEF QueueInv, StoreInv, CountIsLow
<1>4. ~overrun' => InPlace' BY DEF QueueInv, InPlace, Backlog
<1>5. ~overrun' => \A a \in alloc' : Accounted(a)' BY DEF QueueInv, Accounted
<1> QED BY <1>2, <1>3, <1>4, <1>5 DEF QueueInv

\* The end of a round.
LEMMA ReturnType ==
  ASSUME TypeOK, Return(cnt)
  PROVE  pc' \in {"idle", "get"} /\ cnt' \in -1 .. PBUF_QUEUE_SIZE
BY SizeType DEF TypeOK, Return

\* Beginning to take packets, one or all, changes none of the queue.
LEMMA EmptyOrRecvStep == ASSUME QueueInv, netRecv \/ netQEmpty PROVE QueueInv'
<1>1. /\ pc = "idle" /\ pc' = "get"
      /\ UNCHANGED <<pbuf, get, put, count, reg, p, big, packets, alloc, queued,
                     taken, dropped, lost, overrun>>
  BY DEF netRecv, netQEmpty, queue
<1>2. cnt' \in -1 .. PBUF_QUEUE_SIZE
  BY SizeType DEF QueueInv, TypeOK, netRecv, netQEmpty
<1> QED BY <1>1, <1>2, Moves

\* What netQGet takes is the oldest packet, until one was put over another.
LEMMA OldestTaken ==
  ASSUME QueueInv, ~overrun, pc = "get", count > 0
  PROVE  pbuf[get] = queued[Len(taken) + 1] /\ Backlog > 0
<1>1. Uncounted = 0 /\ count \in Nat /\ get \in 0 .. PBUF_QUEUE_SIZE - 1
  BY SizeType DEF QueueInv, TypeOK, Uncounted, Slots
<1>2. 1 \in 1 .. Backlog /\ Backlog > 0 /\ get + (1 - 1) = get BY <1>1, Waits
<1>3. get % PBUF_QUEUE_SIZE = get BY <1>1, ModBelow, SizeType
<1>4. pbuf[(get + (1 - 1)) % PBUF_QUEUE_SIZE] = queued[Len(taken) + 1]
  BY <1>2 DEF QueueInv, InPlace
<1> QED BY <1>2, <1>3, <1>4

\* The first half of netQGet keeps the queue.
LEMMA GetStep == ASSUME QueueInv, netQGet PROVE QueueInv'
<1>1. /\ TypeOK /\ pc = "get" /\ count \in Nat /\ lost \in Nat
      /\ Len(queued) \in Nat /\ Len(taken) \in Nat /\ Uncounted = 0
      /\ get \in 0 .. PBUF_QUEUE_SIZE - 1
  BY SizeType, LenProperties DEF QueueInv, TypeOK, netQGet, Uncounted, Slots
<1>2. UNCHANGED <<pbuf, put, count, big, packets, alloc, queued, dropped, lost, overrun>>
  BY DEF netQGet
<1>3. CASE count = 0
  <2>1. Return(cnt) /\ UNCHANGED <<get, reg, p, taken>> BY <1>3 DEF netQGet
  <2> QED BY <1>1, <1>2, <2>1, ReturnType, Moves
<1>4. CASE count # 0
  <2>1. /\ count > 0 /\ p' = pbuf[get] /\ get' = (get + 1) % PBUF_QUEUE_SIZE
        /\ reg' = count /\ taken' = Append(taken, pbuf[get])
        /\ pc' = "store" /\ cnt' = cnt
    BY <1>1, <1>4 DEF netQGet
  <2>2. /\ pbuf[get] \in 0 .. MaxPackets /\ get' \in Slots
        /\ 1 \in 0 .. PBUF_QUEUE_SIZE
    <3>1. 1 \in 0 .. PBUF_QUEUE_SIZE BY SizeType
    <3>2. (get + 1) % PBUF_QUEUE_SIZE \in 0 .. PBUF_QUEUE_SIZE - 1
      BY <1>1, <3>1, Behind, SizeType
    <3> QED BY <1>1, <2>1, <3>1, <3>2 DEF TypeOK, Slots
  <2>3. /\ taken' \in Seq(0 .. MaxPackets) /\ Len(taken') = Len(taken) + 1
        /\ \A i \in 1 .. Len(taken) : taken'[i] = taken[i]
        /\ taken'[Len(taken) + 1] = pbuf[get]
    <3>1. taken \in Seq(0 .. MaxPackets) BY <1>1 DEF TypeOK
    <3> QED BY <2>1, <2>2, <3>1, AppendProperties
  <2>4. TypeOK' BY <1>1, <1>2, <2>1, <2>2, <2>3 DEF TypeOK
  <2>5. Uncounted' = 1 BY <2>1 DEF Uncounted
  <2>6. StoreInv' BY <1>1, <1>2, <2>1 DEF StoreInv
  <2>7. CountIsLow'
    BY <1>1, <1>2, <2>3, <2>5 DEF QueueInv, CountIsLow
  <2>8. ASSUME ~overrun' PROVE InPlace'
    <3>1. ~overrun /\ InPlace BY <1>2, <2>8 DEF QueueInv
    <3>2. pbuf[get] = queued[Len(taken) + 1] /\ Backlog > 0
      BY <1>1, <2>1, <3>1, OldestTaken
    <3> DEFINE w == Backlog
    <3>6. /\ w \in 1 .. PBUF_QUEUE_SIZE /\ Backlog' = w - 1
          /\ w - 1 \in 0 .. PBUF_QUEUE_SIZE - 1 /\ (w - 1) + 1 = w
      <4>1. w \in Nat /\ w <= PBUF_QUEUE_SIZE BY <3>1, Waits DEF InPlace
      <4>2. Backlog' = w - 1 BY <1>1, <1>2, <2>3 DEF Backlog
      <4> QED BY <3>2, <4>1, <4>2, SizeType
    <3>3. put' = (get' + Backlog') % PBUF_QUEUE_SIZE
      <4>1. put = (get + w) % PBUF_QUEUE_SIZE BY <3>1 DEF InPlace
      <4>2. (((get + 1) % PBUF_QUEUE_SIZE) + (w - 1)) % PBUF_QUEUE_SIZE
              = (get + ((w - 1) + 1)) % PBUF_QUEUE_SIZE
        BY <1>1, <3>6, BehindNext, SizeType
      <4> QED BY <1>2, <2>1, <3>6, <4>1, <4>2
    <3>4. ASSUME NEW i \in 1 .. w - 1
          PROVE  pbuf[(get' + (i - 1)) % PBUF_QUEUE_SIZE] = queued[Len(taken') + i]
      <4>1. /\ i - 1 \in 0 .. PBUF_QUEUE_SIZE - 1 /\ (i - 1) + 1 = (i + 1) - 1
            /\ i + 1 \in 1 .. w
            /\ Len(taken) + (i + 1) = Len(taken') + i
        BY <1>1, <2>3, <3>6, SizeType
      <4>2. (get' + (i - 1)) % PBUF_QUEUE_SIZE
              = (get + ((i - 1) + 1)) % PBUF_QUEUE_SIZE
        BY <1>1, <2>1, <4>1, BehindNext, SizeType
      <4>3. pbuf[(get + ((i + 1) - 1)) % PBUF_QUEUE_SIZE] = queued[Len(taken) + (i + 1)]
        BY <3>1, <4>1 DEF InPlace
      <4> QED BY <4>1, <4>2, <4>3
    <3>5. \A i \in 1 .. Len(taken') : taken'[i] = queued'[i]
      <4> TAKE i \in 1 .. Len(taken')
      <4>1. CASE i = Len(taken) + 1 BY <1>2, <2>3, <3>2, <4>1
      <4>2. CASE i # Len(taken) + 1
        <5>1. i \in 1 .. Len(taken) BY <1>1, <2>3, <4>2
        <5> QED BY <1>2, <2>3, <3>1, <5>1 DEF InPlace
      <4> QED BY <4>1, <4>2
    <3>7. Backlog' <= PBUF_QUEUE_SIZE BY <3>6, SizeType
    <3> QED BY <1>2, <3>3, <3>4, <3>5, <3>6, <3>7 DEF InPlace
  <2>9. ASSUME ~overrun', NEW a \in alloc' PROVE Accounted(a)'
    <3>1. ~overrun /\ Accounted(a) BY <1>2, <2>9 DEF QueueInv
    <3>2. pbuf[get] = queued[Len(taken) + 1] BY <1>1, <2>1, <3>1, OldestTaken
    <3>3. CASE \E i \in Len(taken) + 1 .. Len(queued) : queued[i] = a
      <4>1. PICK i \in Len(taken) + 1 .. Len(queued) : queued[i] = a BY <3>3
      <4>2. CASE i = Len(taken) + 1
        BY <2>1, <3>2, <4>1, <4>2 DEF Accounted
      <4>3. CASE i # Len(taken) + 1
        <5>1. i \in Len(taken') + 1 .. Len(queued')
          BY <1>1, <1>2, <2>3, <4>1, <4>3
        <5> QED BY <1>2, <4>1, <5>1 DEF Accounted
      <4> QED BY <4>2, <4>3
    <3>4. CASE a \in dropped BY <1>2, <3>4 DEF Accounted
    <3> QED BY <1>1, <3>1, <3>3, <3>4 DEF Accounted
  <2>10. overrun' => lost' > 0 BY <1>2 DEF QueueInv
  <2> QED BY <2>4, <2>6, <2>7, <2>8, <2>9, <2>10 DEF QueueInv
<1> QED BY <1>3, <1>4

\* The second half of netQGet keeps the queue, though a packet came in between.
LEMMA StoreStep == ASSUME QueueInv, netQGetStore PROVE QueueInv'
<1>1. /\ TypeOK /\ pc = "store" /\ reg \in 1 .. count /\ Uncounted = 1
      /\ count \in 0 .. PBUF_QUEUE_SIZE /\ lost \in Nat /\ reg \in Nat
      /\ Len(queued) \in Nat /\ Len(taken) \in Nat
  BY SizeType, LenProperties
  DEF QueueInv, TypeOK, StoreInv, netQGetStore, Uncounted
<1>2. /\ count' = reg - 1 /\ lost' = lost + (count - reg) /\ pc' = "use"
      /\ UNCHANGED <<pbuf, get, put, cnt, reg, p, big, packets, alloc, queued,
                     taken, dropped, overrun>>
  BY DEF netQGetStore
<1>3. Uncounted' = 0 BY <1>2 DEF Uncounted
<1>4. TypeOK'
  <2>1. count' \in 0 .. PBUF_QUEUE_SIZE /\ lost' \in Nat BY <1>1, <1>2, SizeType
  <2> QED BY <1>1, <1>2, <2>1 DEF TypeOK
<1>5. StoreInv' BY <1>2 DEF StoreInv
<1>6. CountIsLow' BY <1>1, <1>2, <1>3, SizeType DEF QueueInv, CountIsLow
<1>7. overrun' => lost' > 0 BY <1>1, <1>2, SizeType DEF QueueInv
<1>8. ~overrun' => InPlace' BY <1>2 DEF QueueInv, InPlace, Backlog
<1>9. ~overrun' => \A a \in alloc' : Accounted(a)'
  BY <1>1, <1>2 DEF QueueInv, Accounted
<1> QED BY <1>4, <1>5, <1>6, <1>7, <1>8, <1>9 DEF QueueInv

\* Reading and freeing the packet keeps the queue.
LEMMA UseStep == ASSUME QueueInv, Use PROVE QueueInv'
<1>1. /\ TypeOK /\ pc = "use" /\ Return(cnt)
      /\ UNCHANGED <<pbuf, get, put, count, reg, p, big, packets, queued, taken, lost,
                     overrun>>
  BY DEF QueueInv, Use, queue
<1>2. pc' \in {"idle", "get"} /\ cnt' \in -1 .. PBUF_QUEUE_SIZE
  BY <1>1, ReturnType
<1>3. alloc' \subseteq Packets /\ dropped' \subseteq Packets
  BY <1>1 DEF TypeOK, Use
<1>4. Uncounted' = Uncounted BY <1>1, <1>2 DEF Uncounted
<1>5. TypeOK' BY <1>1, <1>2, <1>3 DEF TypeOK
<1>6. StoreInv' /\ CountIsLow'
  BY <1>1, <1>2, <1>4 DEF QueueInv, StoreInv, CountIsLow
<1>7. ~overrun' => InPlace' BY <1>1 DEF QueueInv, InPlace, Backlog
<1>8. ASSUME ~overrun', NEW a \in alloc' PROVE Accounted(a)'
  <2>1. a \in alloc /\ Accounted(a) /\ (a = p => a \in dropped')
        /\ (a \in dropped => a \in dropped')
    BY <1>1, <1>8 DEF QueueInv, Use
  <2> QED BY <1>1, <2>1 DEF Accounted
<1>9. overrun' => lost' > 0 BY <1>1 DEF QueueInv
<1> QED BY <1>5, <1>6, <1>7, <1>8, <1>9 DEF QueueInv

\* Emptying the queue when the protocol restarts keeps it.
LEMMA RestartStep == ASSUME QueueInv, Restart PROVE QueueInv'
<1>1. /\ TypeOK /\ pc = "idle"
      /\ get' = 0 /\ put' = 0 /\ count' = 0
      /\ queued' = <<>> /\ taken' = <<>> /\ lost' = 0 /\ dropped' = alloc
      /\ overrun' = FALSE
      /\ UNCHANGED <<pbuf, pc, cnt, reg, p, big, packets, alloc>>
  BY DEF QueueInv, Restart, main
<1>2. Uncounted' = 0 /\ Len(queued') = 0 /\ Len(taken') = 0
  BY <1>1, EmptySeq DEF Uncounted
<1>3. TypeOK'
  <2>1. queued' \in Seq(Packets) /\ taken' \in Seq(0 .. MaxPackets)
    BY <1>1, EmptySeq
  <2>2. overrun' \in BOOLEAN BY <1>1, Zenon
  <2>3. /\ get' = 0 /\ put' = 0 /\ count' = 0 /\ lost' = 0 /\ dropped' = alloc
        /\ UNCHANGED <<pbuf, pc, cnt, reg, p, big, packets, alloc>>
    BY <1>1, Zenon
  <2> QED BY <1>1, <2>1, <2>2, <2>3, SizeType DEF TypeOK, Slots
<1>4. StoreInv' /\ CountIsLow' BY <1>1, <1>2 DEF StoreInv, CountIsLow
<1>5. InPlace'
  <2>1. 0 % PBUF_QUEUE_SIZE = 0
    BY ModBelow, SizeType, 0 \in 0 .. PBUF_QUEUE_SIZE - 1
  <2>2. Backlog' = 0 /\ Len(taken') = 0 BY <1>2 DEF Backlog
  <2>3. get' + Backlog' = 0 BY <1>1, <2>2
  <2>4. put' = (get' + Backlog') % PBUF_QUEUE_SIZE BY <1>1, <2>1, <2>3, Zenon
  <2> QED BY <2>2, <2>4, SizeType DEF InPlace
<1>6. \A a \in alloc' : Accounted(a)' BY <1>1 DEF Accounted
<1> QED BY <1>1, <1>3, <1>4, <1>5, <1>6 DEF QueueInv

\* Every step keeps the queue.
LEMMA NextQueue == ASSUME QueueInv, [Next]_vars PROVE QueueInv'
<1>1. CASE UNCHANGED vars
  <2>1. /\ UNCHANGED <<pbuf, get, put, count, pc, cnt, reg, p>>
        /\ UNCHANGED <<big, packets, alloc, queued, taken, dropped, lost, overrun>>
    BY <1>1 DEF vars, queue, main
  <2>2. Uncounted' = Uncounted BY <2>1 DEF Uncounted
  <2> QED BY <2>1, <2>2
          DEF QueueInv, TypeOK, StoreInv, CountIsLow, InPlace, Accounted, Backlog
<1>2. CASE \E tooBig \in BOOLEAN : RecvCallback(tooBig) BY <1>2, RecvStep
<1>3. CASE netRecv \/ netQEmpty BY <1>3, EmptyOrRecvStep
<1>4. CASE netQGet BY <1>4, GetStep
<1>5. CASE netQGetStore BY <1>5, StoreStep
<1>6. CASE Use BY <1>6, UseStep
<1>7. CASE Restart BY <1>7, RestartStep
<1> QED BY <1>1, <1>2, <1>3, <1>4, <1>5, <1>6, <1>7 DEF Next, Main

-----------------------------------------------------------------------------
(* Positions back to sequences.                                            *)

\* What the ring counts are the oldest of the packets that wait.
LEMMA ContentsIs ==
  ASSUME QueueInv, ~overrun
  PROVE  Contents = SubSeq(Pending, 1, count - Uncounted)
<1> DEFINE n == count - Uncounted
           old == SubSeq(Pending, 1, n)
<1>1. n \in Nat /\ n <= Backlog /\ Backlog \in Nat
  BY Waits, SizeType
<1>2. /\ Pending \in Seq(Packets) /\ Len(Pending) = Backlog
      /\ \A i \in 1 .. Len(Pending) : Pending[i] = queued[Len(taken) + i]
  BY PendingIs
<1> HIDE DEF n
<1>3. /\ old \in Seq(Packets) /\ Len(old) = n
      /\ \A i \in 1 .. n : old[i] = Pending[i]
  <2>1. /\ old \in Seq(Packets)
        /\ Len(old) = IF 1 <= n THEN n - 1 + 1 ELSE 0
        /\ \A i \in 1 .. n - 1 + 1 : old[i] = Pending[1 + i - 1]
    <3>1. 1 \in 1 .. Len(Pending) + 1 /\ n \in 1 - 1 .. Len(Pending) BY <1>1, <1>2
    <3> QED BY <1>2, <3>1, SubSeqProperties
  <2>2. Len(old) = n BY <1>1, <2>1
  <2>3. ASSUME NEW i \in 1 .. n PROVE old[i] = Pending[i]
    <3>1. i \in 1 .. n - 1 + 1 /\ 1 + i - 1 = i BY <1>1
    <3> QED BY <2>1, <3>1
  <2> QED BY <2>1, <2>2, <2>3
<1> HIDE DEF old
<1>4. \A i \in 1 .. n : Contents[i] = old[i]
  <2> TAKE i \in 1 .. n
  <2>1. Contents[i] = pbuf[(get + (i - 1)) % PBUF_QUEUE_SIZE] BY DEF Contents, n
  <2>2. i \in 1 .. Backlog /\ i \in 1 .. Len(Pending) BY <1>1, <1>2
  <2>3. pbuf[(get + (i - 1)) % PBUF_QUEUE_SIZE] = queued[Len(taken) + i]
    BY <2>2 DEF QueueInv, InPlace
  <2> QED BY <1>2, <1>3, <2>1, <2>2, <2>3
<1>5. old = [i \in 1 .. n |-> old[i]]
  BY <1>3, LenProperties
<1>6. Contents = [i \in 1 .. n |-> Contents[i]] BY DEF Contents, n
<1> QED BY <1>4, <1>5, <1>6 DEF old, n

\* Until a packet is put over another, they are taken in the order they came.
LEMMA TakenIs ==
  ASSUME QueueInv, ~overrun
  PROVE  Len(taken) <= Len(queued) /\ taken = SubSeq(queued, 1, Len(taken))
<1>1. /\ Len(taken) <= Len(queued) /\ Len(taken) \in Nat /\ Len(queued) \in Nat
      /\ queued \in Seq(Packets) /\ taken \in Seq(0 .. MaxPackets)
      /\ \A i \in 1 .. Len(taken) : taken[i] = queued[i]
  BY Waits, SizeType DEF QueueInv, TypeOK, InPlace
<1> DEFINE n == Len(taken)
<1>2. \A i \in 1 .. n : queued[i] \in Packets BY <1>1, ElementOfSeq
<1>3. /\ SubSeq(queued, 1, n) \in Seq(Packets)
      /\ Len(SubSeq(queued, 1, n)) = IF 1 <= n THEN n - 1 + 1 ELSE 0
      /\ \A i \in 1 .. n - 1 + 1 : SubSeq(queued, 1, n)[i] = queued[1 + i - 1]
  BY <1>1, <1>2, SubSeqProperties
<1>4. Len(SubSeq(queued, 1, n)) = n BY <1>1, <1>3
<1>5. \A i \in 1 .. n : taken[i] = SubSeq(queued, 1, n)[i]
  <2> TAKE i \in 1 .. n
  <2>1. i \in 1 .. n - 1 + 1 /\ 1 + i - 1 = i BY <1>1
  <2> QED BY <1>1, <1>3, <2>1
<1>6. taken \in Seq(Int) /\ SubSeq(queued, 1, n) \in Seq(Int)
  <2>1. (0 .. MaxPackets) \subseteq Int /\ Packets \subseteq Int BY DEF Packets
  <2> QED BY <1>1, <1>3, <2>1, SeqMonotonic
<1>7. taken = SubSeq(queued, 1, n) BY <1>4, <1>5, <1>6, SeqEqual
<1> QED BY <1>1, <1>7

\* Under the invariant pbufs leak in the two known ways only.
LEMMA NothingLeaks == ASSUME QueueInv PROVE NoOtherLeak
<1> SUFFICES ASSUME ~overrun, NEW a \in alloc
             PROVE  a \in {Pending[i] : i \in 1 .. Len(Pending)} \cup dropped
                            \cup (IF pc \in {"store", "use"} THEN {p} ELSE {})
  BY DEF NoOtherLeak
<1>1. Accounted(a) BY DEF QueueInv
<1>2. /\ Len(queued) = Len(taken) + Backlog
      /\ Backlog \in Nat /\ Len(taken) \in Nat
      /\ Len(Pending) = Backlog
      /\ \A i \in 1 .. Len(Pending) : Pending[i] = queued[Len(taken) + i]
  BY Waits, PendingIs, SizeType
<1>3. CASE \E i \in Len(taken) + 1 .. Len(queued) : queued[i] = a
  <2>1. PICK i \in Len(taken) + 1 .. Len(queued) : queued[i] = a BY <1>3
  <2>2. /\ i - Len(taken) \in 1 .. Len(Pending)
        /\ Len(taken) + (i - Len(taken)) = i
    BY <1>2
  <2>3. Pending[i - Len(taken)] = a BY <1>2, <2>1, <2>2
  <2> QED BY <2>2, <2>3
<1> QED BY <1>1, <1>3 DEF Accounted

-----------------------------------------------------------------------------
\* The invariant of the queue: until a packet is put over one that waits, which takes a
\* lost increment, the ring holds, slot by slot, what was put in and not taken out.
THEOREM QueueInvariant == Spec => []QueueInv
<1>1. Init => QueueInv BY InitQueue
<1>2. QueueInv /\ [Next]_vars => QueueInv' BY NextQueue
<1> QED BY <1>1, <1>2, PTL DEF Spec

\* The state of the queue keeps its types: the ring never counts more packets than it
\* has slots, although its counter is changed by both sides (netQPut, netQGet).
THEOREM TypesHold == Spec => []TypeOK
<1>1. QueueInv => TypeOK BY DEF QueueInv
<1> QED BY <1>1, QueueInvariant, PTL

\* The counter of the queue only errs on the low side, by exactly the increments it
\* has lost (netQPut, netQGet).
THEOREM CounterIsLow == Spec => []CountIsLow
<1>1. QueueInv => CountIsLow BY DEF QueueInv
<1> QED BY <1>1, QueueInvariant, PTL

\* No packet is put over one that waits unless an increment was lost, and until then the
\* ring is a first-in first-out queue, also with increments lost (netQPut, netQGet).
THEOREM FirstInFirstOutHolds == Spec => []FirstInFirstOut
<1>1. QueueInv => FirstInFirstOut
  <2> SUFFICES ASSUME QueueInv PROVE FirstInFirstOut OBVIOUS
  <2>1. overrun => lost > 0 BY DEF QueueInv
  <2> QED BY <2>1, ContentsIs, TakenIs DEF FirstInFirstOut
<1> QED BY <1>1, QueueInvariant, PTL

\* A lost increment leaks no pbuf by itself: until a packet is put over another, pbufs
\* leak in the two known ways only (netRecv, netShutdown).
THEOREM NoOtherLeakHolds == Spec => []NoOtherLeak
<1>1. QueueInv => NoOtherLeak BY NothingLeaks
<1> QED BY <1>1, QueueInvariant, PTL

=============================================================================
