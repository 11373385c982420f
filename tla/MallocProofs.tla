---------------------------- MODULE MallocProofs ----------------------------
(***************************************************************************)
(* The memory manager, for every number and size of cells: the map matches *)
(* the live pointers, contents are kept, Malloc implements Heap, and the   *)
(* search of my_mem_malloc cell by cell implements Malloc.                 *)
(***************************************************************************)
EXTENDS MallocScan, SequenceTheorems, TLAPS

\* A cell number survives the way to a pointer and back.
LEMMA PointerOfCell ==
  ASSUME NEW o \in Nat
  PROVE  /\ o * memblksize \in Nat
         /\ (o * memblksize) \div memblksize = o
         /\ (o * memblksize) % memblksize = 0
  BY PoolAssumption, SMT

\* A pointer to the start of a cell is that of its cell.
LEMMA CellOfPointer ==
  ASSUME NEW p \in Nat, p % memblksize = 0
  PROVE  /\ First(p) \in Nat
         /\ p = First(p) * memblksize
  BY PoolAssumption, SMT DEF First

\* The cells counted for a size hold it.
LEMMA CellsSuffice ==
  ASSUME NEW size \in Nat
  PROVE  /\ nmemb(size) \in Nat
         /\ size <= nmemb(size) * memblksize
         /\ size # 0 => nmemb(size) # 0
  BY PoolAssumption, SMT DEF nmemb

\* Cells in order have bytes in order.
LEMMA InOrder ==
  ASSUME NEW a \in Nat, NEW n \in Nat, NEW b \in Nat, a + n <= b
  PROVE  a * memblksize + n * memblksize <= b * memblksize
  BY PoolAssumption, SMT

-----------------------------------------------------------------------------
\* The map `map' agrees with the pointers D, of which p has cnt[p] cells.
Matches(map, D, cnt) ==
  /\ map \in [Cells -> 0 .. memtblsize] /\ D \subseteq Pool /\ cnt \in [D -> Nat \ {0}]
  /\ \A p \in D :
       /\ p % memblksize = 0
       /\ First(p) + cnt[p] <= memtblsize
       /\ \A c \in First(p) .. First(p) + cnt[p] - 1 : map[c] = cnt[p]
  /\ \A p, q \in D : p # q => First(p) + cnt[p] <= First(q) \/ First(q) + cnt[q] <= First(p)
  /\ \A c \in Cells : map[c] # 0 => \E p \in D : c \in First(p) .. First(p) + cnt[p] - 1

\* A free run lies apart from every block.
LEMMA FreeRunApart ==
  ASSUME NEW map, NEW D, NEW cnt, Matches(map, D, cnt),
         NEW o \in Cells, NEW n \in Nat \ {0}, Free(map, o, n),
         NEW p \in D
  PROVE  First(p) + cnt[p] <= o \/ o + n <= First(p)
  <1>1. /\ First(p) \in Nat /\ cnt[p] \in Nat \ {0} /\ o \in Nat
        /\ First(p) + cnt[p] <= memtblsize
        /\ \A c \in First(p) .. First(p) + cnt[p] - 1 : map[c] = cnt[p]
    BY PoolAssumption, CellOfPointer, SMT DEF Matches, Pool, Cells
  <1>2. SUFFICES ASSUME First(p) + cnt[p] > o, o + n > First(p)
                 PROVE  FALSE
    BY <1>1, SMT
  <1> DEFINE c == IF o > First(p) THEN o ELSE First(p)
  <1>3. c \in First(p) .. First(p) + cnt[p] - 1 /\ c \in o .. o + n - 1
    BY <1>1, <1>2, SMT
  <1>4. map[c] = cnt[p] /\ map[c] = 0
    BY <1>1, <1>3 DEF Free
  <1>5. QED
    BY <1>1, <1>4, SMT

\* Marking a free run makes its pointer a new block.
LEMMA MarkAddsBlock ==
  ASSUME NEW map, NEW D, NEW cnt, Matches(map, D, cnt),
         NEW o \in Cells, NEW n \in Nat \ {0}, Free(map, o, n)
  PROVE  /\ o * memblksize \notin D
         /\ Matches(Mark(map, o, n), D \cup {o * memblksize},
                    [p \in D \cup {o * memblksize} |-> IF p = o * memblksize THEN n ELSE cnt[p]])
  <1> DEFINE ptr  == o * memblksize
             D1   == D \cup {ptr}
             cnt1 == [p \in D1 |-> IF p = ptr THEN n ELSE cnt[p]]
             map1 == Mark(map, o, n)
  <1>1. /\ ptr \in Nat /\ First(ptr) = o /\ ptr % memblksize = 0
        /\ o \in Nat /\ o < memtblsize /\ o + n <= memtblsize
    BY PointerOfCell, PoolAssumption, SMT DEF Cells, First, Free
  <1>2. ptr \in Pool
    <2>1. o * memblksize + 1 * memblksize <= memtblsize * memblksize
      BY <1>1, PoolAssumption, InOrder, SMT
    <2>2. QED
      BY <1>1, <2>1, PoolAssumption, SMT DEF Pool, memsize
  <1>3. \A p \in D : First(p) + cnt[p] <= o \/ o + n <= First(p)
    BY FreeRunApart
  <1>4. \A p \in D : First(p) \in Nat /\ cnt[p] \in Nat \ {0} /\ First(p) + cnt[p] <= memtblsize
    BY PoolAssumption, CellOfPointer, SMT DEF Matches, Pool
  <1>5. ptr \notin D
    BY <1>1, <1>3, <1>4, SMT
  <1>6. /\ D1 \subseteq Pool
        /\ cnt1 \in [D1 -> Nat \ {0}]
        /\ cnt1[ptr] = n
        /\ \A p \in D : cnt1[p] = cnt[p]
    BY <1>2, <1>5, SMT DEF Matches
  <1>7. /\ map1 \in [Cells -> 0 .. memtblsize]
        /\ \A c \in Cells : map1[c] = IF c \in o .. o + n - 1 THEN n ELSE map[c]
    BY <1>1, PoolAssumption, SMT DEF Matches, Mark
  <1> HIDE DEF ptr, D1, cnt1, map1
  <1>8. ASSUME NEW p \in D1
        PROVE  /\ p % memblksize = 0
               /\ First(p) + cnt1[p] <= memtblsize
               /\ \A c \in First(p) .. First(p) + cnt1[p] - 1 : map1[c] = cnt1[p]
    <2>1. CASE p = ptr
      <3>1. \A c \in o .. o + n - 1 : map1[c] = n
        BY <1>1, <1>7, PoolAssumption, SMT DEF Cells
      <3>2. QED
        BY <1>1, <1>6, <2>1, <3>1
    <2>2. CASE p \in D
      <3>1. /\ p % memblksize = 0
            /\ \A c \in First(p) .. First(p) + cnt[p] - 1 : map[c] = cnt[p]
        BY <2>2 DEF Matches
      <3>2. \A c \in First(p) .. First(p) + cnt[p] - 1 : c \in Cells /\ c \notin o .. o + n - 1
        BY <1>1, <1>3, <1>4, <2>2, PoolAssumption, SMT DEF Cells
      <3>3. \A c \in First(p) .. First(p) + cnt[p] - 1 : map1[c] = cnt[p]
        BY <1>7, <3>1, <3>2
      <3>4. QED
        BY <1>4, <1>6, <2>2, <3>1, <3>3
    <2>3. QED
      BY <2>1, <2>2 DEF D1
  <1>9. ASSUME NEW p \in D1, NEW q \in D1, p # q
        PROVE  First(p) + cnt1[p] <= First(q) \/ First(q) + cnt1[q] <= First(p)
    <2>1. CASE p \in D /\ q \in D
      BY <1>6, <1>9, <2>1 DEF Matches
    <2>2. CASE p = ptr /\ q \in D
      BY <1>1, <1>3, <1>6, <2>2
    <2>3. CASE p \in D /\ q = ptr
      BY <1>1, <1>3, <1>6, <2>3
    <2>4. QED
      BY <1>9, <2>1, <2>2, <2>3 DEF D1
  <1>10. ASSUME NEW c \in Cells, map1[c] # 0
         PROVE  \E p \in D1 : c \in First(p) .. First(p) + cnt1[p] - 1
    <2>1. CASE c \in o .. o + n - 1
      BY <1>1, <1>6, <2>1 DEF D1
    <2>2. CASE c \notin o .. o + n - 1
      <3>1. PICK p \in D : c \in First(p) .. First(p) + cnt[p] - 1
        BY <1>7, <1>10, <2>2 DEF Matches
      <3>2. QED
        BY <1>6, <3>1 DEF D1
    <2>3. QED
      BY <2>1, <2>2
  <1>11. Matches(map1, D1, cnt1)
    BY <1>6, <1>7, <1>8, <1>9, <1>10 DEF Matches
  <1>12. QED
    BY <1>5, <1>11 DEF ptr, D1, cnt1, map1

\* Clearing the marks of a block frees it and no other.
LEMMA UnmarkDropsBlock ==
  ASSUME NEW map, NEW D, NEW cnt, Matches(map, D, cnt), NEW p \in D
  PROVE  Matches(Unmark(map, First(p)), D \ {p}, [q \in D \ {p} |-> cnt[q]])
  <1> DEFINE D1   == D \ {p}
             cnt1 == [q \in D1 |-> cnt[q]]
             map1 == Unmark(map, First(p))
  <1>1. \A q \in D : First(q) \in Nat /\ cnt[q] \in Nat \ {0} /\ First(q) + cnt[q] <= memtblsize
    BY PoolAssumption, CellOfPointer, SMT DEF Matches, Pool
  <1>2. map[First(p)] = cnt[p]
    BY <1>1, SMT DEF Matches
  <1>3. /\ map1 \in [Cells -> 0 .. memtblsize]
        /\ \A c \in Cells :
             map1[c] = IF c \in First(p) .. First(p) + cnt[p] - 1 THEN 0 ELSE map[c]
    BY <1>2, PoolAssumption, SMT DEF Matches, Unmark
  <1>4. /\ D1 \subseteq Pool
        /\ cnt1 \in [D1 -> Nat \ {0}]
        /\ \A q \in D1 : cnt1[q] = cnt[q]
    BY DEF Matches
  <1> HIDE DEF cnt1, map1
  <1>5. ASSUME NEW q \in D1
        PROVE  /\ q % memblksize = 0
               /\ First(q) + cnt1[q] <= memtblsize
               /\ \A c \in First(q) .. First(q) + cnt1[q] - 1 : map1[c] = cnt1[q]
    <2>1. First(q) + cnt[q] <= First(p) \/ First(p) + cnt[p] <= First(q)
      BY DEF Matches
    <2>2. \A c \in First(q) .. First(q) + cnt[q] - 1 :
            c \in Cells /\ c \notin First(p) .. First(p) + cnt[p] - 1
      BY <1>1, <2>1, PoolAssumption, SMT DEF Cells
    <2>3. /\ q % memblksize = 0 /\ First(q) + cnt[q] <= memtblsize
          /\ \A c \in First(q) .. First(q) + cnt[q] - 1 : map[c] = cnt[q]
      BY DEF Matches
    <2>4. QED
      BY <1>3, <1>4, <2>2, <2>3
  <1>6. ASSUME NEW c \in Cells, map1[c] # 0
        PROVE  \E q \in D1 : c \in First(q) .. First(q) + cnt1[q] - 1
    <2>1. c \notin First(p) .. First(p) + cnt[p] - 1 /\ map[c] # 0
      BY <1>3, <1>6
    <2>2. PICK q \in D : c \in First(q) .. First(q) + cnt[q] - 1
      BY <2>1 DEF Matches
    <2>3. QED
      BY <1>4, <2>1, <2>2
  <1>7. \A q, r \in D1 : q # r => First(q) + cnt1[q] <= First(r) \/ First(r) + cnt1[r] <= First(q)
    BY <1>4 DEF Matches
  <1>8. Matches(map1, D1, cnt1)
    BY <1>3, <1>4, <1>5, <1>6, <1>7 DEF Matches
  <1>9. QED
    BY <1>8 DEF cnt1, map1

\* A block begins at its pointer and ends in the pool.
LEMMA BytesOfBlock ==
  ASSUME NEW map, NEW D, NEW cnt, Matches(map, D, cnt), NEW p \in D,
         NEW len \in Nat, len <= cnt[p] * memblksize
  PROVE  /\ p \in Nat
         /\ p = First(p) * memblksize
         /\ p + len <= First(p) * memblksize + cnt[p] * memblksize
         /\ p + len <= memsize
  <1>1. /\ p \in Nat /\ First(p) \in Nat /\ p = First(p) * memblksize
        /\ cnt[p] \in Nat /\ First(p) + cnt[p] <= memtblsize
    BY PoolAssumption, CellOfPointer, SMT DEF Matches, Pool
  <1>2. First(p) * memblksize + cnt[p] * memblksize <= memtblsize * memblksize
    BY <1>1, PoolAssumption, InOrder
  <1>3. cnt[p] * memblksize \in Nat /\ memtblsize * memblksize \in Nat
    BY <1>1, PoolAssumption, SMT
  <1>4. QED
    BY <1>1, <1>2, <1>3, SMT DEF memsize

\* The bytes of two blocks lie apart.
LEMMA BytesApart ==
  ASSUME NEW map, NEW D, NEW cnt, Matches(map, D, cnt), NEW p \in D, NEW q \in D, p # q,
         NEW lp \in Nat, lp <= cnt[p] * memblksize, NEW lq \in Nat, lq <= cnt[q] * memblksize
  PROVE  p + lp <= q \/ q + lq <= p
  <1>1. /\ First(p) \in Nat /\ cnt[p] \in Nat /\ First(q) \in Nat /\ cnt[q] \in Nat
        /\ First(p) + cnt[p] <= First(q) \/ First(q) + cnt[q] <= First(p)
    BY PoolAssumption, CellOfPointer, SMT DEF Matches, Pool
  <1>2. /\ p \in Nat /\ p = First(p) * memblksize
        /\ q \in Nat /\ q = First(q) * memblksize
        /\ p + lp <= First(p) * memblksize + cnt[p] * memblksize
        /\ q + lq <= First(q) * memblksize + cnt[q] * memblksize
    BY BytesOfBlock
  <1>3. cnt[p] * memblksize \in Nat /\ cnt[q] * memblksize \in Nat
    BY <1>1, PoolAssumption, SMT
  <1>4. CASE First(p) + cnt[p] <= First(q)
    <2>1. First(p) * memblksize + cnt[p] * memblksize <= First(q) * memblksize
      BY <1>1, <1>4, InOrder
    <2>2. QED
      BY <1>2, <1>3, <2>1, SMT
  <1>5. CASE First(q) + cnt[q] <= First(p)
    <2>1. First(q) * memblksize + cnt[q] * memblksize <= First(p) * memblksize
      BY <1>1, <1>5, InOrder
    <2>2. QED
      BY <1>2, <1>3, <2>1, SMT
  <1>6. QED
    BY <1>1, <1>4, <1>5

-----------------------------------------------------------------------------
Counts == [p \in DOMAIN held |-> Count(p)]

\* The sizes of live blocks.
LEMMA LiveSizes ==
  ASSUME TypeOK, NEW p \in DOMAIN held
  PROVE  /\ p \in Nat
         /\ Len(held[p]) \in Nat \ {0}
         /\ Count(p) \in Nat \ {0}
         /\ Len(held[p]) <= Count(p) * memblksize
         /\ Counts[p] = Count(p)
  BY SizeAssumption, CellsSuffice, SMT DEF TypeOK, Pool, Count, Counts

\* The invariant in terms of Matches, before and after a step.
LEMMA LiveMatches ==
  ASSUME MInv, memrdy
  PROVE  Matches(memmap, DOMAIN held, Counts)
  <1>1. /\ memmap \in [Cells -> 0 .. memtblsize] /\ DOMAIN held \subseteq Pool
        /\ Counts \in [DOMAIN held -> Nat \ {0}]
        /\ \A p \in DOMAIN held : Counts[p] = Count(p)
    BY LiveSizes DEF MInv, TypeOK, Counts
  <1> HIDE DEF Counts
  <1>2. QED
    BY <1>1 DEF MInv, MapMatches, Matches, CellsOf

\* Once the pool is ready, agreement with the live blocks is MapMatches.
LEMMA MatchesLive ==
  ASSUME memrdy', Matches(memmap', DOMAIN held', Counts')
  PROVE  MapMatches'
  <1>1. \A p \in DOMAIN held' : Counts'[p] = Count(p)'
    BY DEF Counts
  <1> HIDE DEF Counts
  <1>2. QED
    BY <1>1 DEF MapMatches, Matches, CellsOf

\* Clearing the map keeps the invariant.
LEMMA InitStep ==
  ASSUME MInv, my_mem_init
  PROVE  MInv'
  <1>1. DOMAIN held = {} /\ UNCHANGED <<mem, held>> /\ call' = NoCall
        /\ memrdy' = TRUE /\ memmap' = [c \in Cells |-> 0]
    BY DEF MInv, MapMatches, my_mem_init
  <1>2. TypeOK'
    BY <1>1, PoolAssumption, SMT DEF MInv, TypeOK, NoCall
  <1>3. MapMatches'
    BY <1>1 DEF MapMatches
  <1>4. ContentsKept'
    BY <1>1 DEF ContentsKept
  <1>5. QED
    BY <1>2, <1>3, <1>4 DEF MInv

\* A refusal changes nothing but the answer.
LEMMA RefuseStep ==
  ASSUME MInv, NEW size \in Sizes, Refuse(size)
  PROVE  MInv'
  BY DEF Refuse, MInv, TypeOK, MapMatches, ContentsKept, Count, CellsOf

\* Freeing a block keeps the others.
LEMMA FreeStep ==
  ASSUME MInv, myfree
  PROVE  MInv'
  <1>1. PICK p \in DOMAIN held :
          /\ memrdy
          /\ memmap' = Unmark(memmap, First(p))
          /\ held' = [q \in DOMAIN held \ {p} |-> held[q]]
          /\ UNCHANGED <<memrdy, mem>> /\ call' = NoCall
    BY DEF myfree, First
  <1>2. DOMAIN held' = DOMAIN held \ {p} /\ \A q \in DOMAIN held' : held'[q] = held[q]
    BY <1>1
  <1>3. Matches(memmap', DOMAIN held', Counts')
    <2>1. Matches(memmap', DOMAIN held', [q \in DOMAIN held \ {p} |-> Counts[q]])
      BY <1>1, <1>2, LiveMatches, UnmarkDropsBlock
    <2>2. Counts' = [q \in DOMAIN held \ {p} |-> Counts[q]]
      BY <1>2 DEF Counts, Count
    <2>3. QED
      BY <2>1, <2>2
  <1>4. MapMatches'
    BY <1>1, <1>3, MatchesLive
  <1>5. TypeOK'
    BY <1>1, <1>2, <1>3, SMT DEF MInv, TypeOK, Matches, NoCall
  <1>6. ContentsKept'
    BY <1>1, <1>2 DEF MInv, ContentsKept
  <1>7. QED
    BY <1>4, <1>5, <1>6 DEF MInv

\* The block that my_mem_malloc finds: it fits into the pool, and is a new one.
LEMMA NewBlock ==
  ASSUME MInv, NEW o \in Cells, NEW size \in Sizes, Highest(o, size)
  PROVE  LET n   == nmemb(size)
             ptr == o * memblksize
             D   == DOMAIN held \cup {ptr}
             cnt == [p \in D |-> IF p = ptr THEN n ELSE Counts[p]]
         IN  /\ memrdy /\ size \in Nat \ {0} /\ n \in Nat \ {0}
             /\ size <= n * memblksize
             /\ ptr \in Nat /\ ptr + size <= memsize /\ First(ptr) = o
             /\ ptr \notin DOMAIN held
             /\ Matches(Mark(memmap, o, n), D, cnt)
             /\ \A p \in DOMAIN held : cnt[p] = Count(p)
  <1> DEFINE n   == nmemb(size)
             ptr == o * memblksize
             D   == DOMAIN held \cup {ptr}
             cnt == [p \in D |-> IF p = ptr THEN n ELSE Counts[p]]
  <1>1. /\ memrdy /\ size \in Nat \ {0} /\ n \in Nat \ {0} /\ size <= n * memblksize
        /\ Free(memmap, o, n)
    BY CellsSuffice, SizeAssumption DEF Highest
  <1>2. ptr \in Nat /\ First(ptr) = o
    BY PointerOfCell DEF Cells, First
  <1> HIDE DEF n
  <1>3. ptr \notin DOMAIN held /\ Matches(Mark(memmap, o, n), D, cnt)
    BY <1>1, LiveMatches, MarkAddsBlock
  <1>4. cnt[ptr] = n /\ \A p \in DOMAIN held : cnt[p] = Count(p)
    BY <1>3 DEF Counts
  <1> HIDE DEF cnt
  <1>5. ptr + size <= memsize
    BY <1>1, <1>3, <1>4, BytesOfBlock
  <1>6. QED
    BY <1>1, <1>2, <1>3, <1>4, <1>5 DEF n, cnt

\* A new block keeps the invariant.
LEMMA AllocateStep ==
  ASSUME MInv, NEW o \in Cells, NEW size \in Sizes, Highest(o, size), Allocate(o, size)
  PROVE  MInv'
  <1> DEFINE n   == nmemb(size)
             ptr == o * memblksize
             D   == DOMAIN held \cup {ptr}
             cnt == [p \in D |-> IF p = ptr THEN n ELSE Counts[p]]
  <1>1. /\ memrdy /\ size \in Nat \ {0} /\ ptr \in Nat /\ ptr + size <= memsize
        /\ ptr \notin DOMAIN held
        /\ Matches(Mark(memmap, o, n), D, cnt)
        /\ \A p \in DOMAIN held : cnt[p] = Count(p)
    BY NewBlock
  <1>2. /\ memmap' = Mark(memmap, o, n) /\ memrdy' = memrdy /\ mem' = mem
        /\ DOMAIN held' = D
        /\ \A p \in DOMAIN held : held'[p] = held[p]
        /\ held'[ptr] = [i \in 1 .. size |-> mem[ptr + i - 1]]
        /\ call' = [size |-> size, ptr |-> ptr]
    BY <1>1 DEF Allocate
  <1>3. \A i \in 1 .. size : ptr + i - 1 \in Pool
    BY <1>1, PoolAssumption, SMT DEF Pool, memsize
  <1>4. held'[ptr] \in Seq(Byte) /\ Len(held'[ptr]) = size
    <2>1. \A i \in 1 .. size : mem[ptr + i - 1] \in Byte
      BY <1>3 DEF MInv, TypeOK
    <2>2. QED
      BY <1>1, <1>2, <2>1, SMT
  <1>5. Counts' = cnt
    BY <1>1, <1>2, <1>4 DEF Counts, Count
  <1> HIDE DEF cnt
  <1>6. MapMatches'
    BY <1>1, <1>2, <1>5, MatchesLive
  <1>7. TypeOK'
    <2>1. memmap' \in [Cells -> 0 .. memtblsize] /\ DOMAIN held' \subseteq Pool
      BY <1>1, <1>2 DEF Matches
    <2>2. memmap' \in [Cells -> Nat]
      BY <2>1, SMT
    <2>3. \A p \in DOMAIN held' : held'[p] \in Seq(Byte) /\ Len(held'[p]) \in Sizes \ {0}
      BY <1>1, <1>2, <1>4 DEF MInv, TypeOK
    <2>4. ptr \in Pool
      BY <1>2, <2>1
    <2>5. QED
      BY <1>1, <1>2, <2>1, <2>2, <2>3, <2>4 DEF MInv, TypeOK
  <1>8. ContentsKept'
    <2>1. ASSUME NEW p \in DOMAIN held', NEW i \in 1 .. Len(held'[p])
          PROVE  p + i - 1 \in Pool /\ mem'[p + i - 1] = held'[p][i]
      BY <1>1, <1>2, <1>3, <1>4 DEF MInv, ContentsKept
    <2>2. QED
      BY <2>1 DEF ContentsKept
  <1>9. QED
    BY <1>6, <1>7, <1>8 DEF MInv

\* Filling a block keeps the invariant: the others lie apart from it.
LEMMA WriteStep ==
  ASSUME MInv, Write
  PROVE  MInv'
  <1>1. PICK p \in DOMAIN held, v \in Byte :
          /\ mem' = [b \in Pool |-> IF b \in p .. p + Len(held[p]) - 1 THEN v ELSE mem[b]]
          /\ held' = [held EXCEPT ![p] = [i \in 1 .. Len(held[p]) |-> v]]
          /\ call' = NoCall
          /\ UNCHANGED <<memrdy, memmap>>
    BY DEF Write
  <1>2. \A q \in DOMAIN held : /\ q \in Nat /\ Len(held[q]) \in Nat
                              /\ Len(held[q]) <= Counts[q] * memblksize
    BY LiveSizes DEF MInv
  <1>3. /\ DOMAIN held' = DOMAIN held
        /\ \A q \in DOMAIN held : q # p => held'[q] = held[q]
        /\ held'[p] = [i \in 1 .. Len(held[p]) |-> v]
    BY <1>1
  <1>4. held'[p] \in Seq(Byte) /\ Len(held'[p]) = Len(held[p])
    BY <1>2, <1>3, SMT
  <1>5. memrdy /\ Matches(memmap, DOMAIN held, Counts)
    BY LiveMatches DEF MInv, MapMatches
  <1>6. Counts' = Counts
    BY <1>3, <1>4 DEF Counts, Count
  <1>7. MapMatches'
    BY <1>1, <1>3, <1>5, <1>6, MatchesLive
  <1>8. TypeOK'
    <2>1. mem' \in [Pool -> Byte]
      BY <1>1 DEF MInv, TypeOK
    <2>2. \A q \in DOMAIN held' : held'[q] \in Seq(Byte) /\ Len(held'[q]) \in Sizes \ {0}
      BY <1>3, <1>4 DEF MInv, TypeOK
    <2>3. QED
      BY <1>1, <1>3, <2>1, <2>2 DEF MInv, TypeOK, NoCall
  <1>9. ASSUME NEW q \in DOMAIN held', NEW i \in 1 .. Len(held'[q])
        PROVE  q + i - 1 \in Pool /\ mem'[q + i - 1] = held'[q][i]
    <2>1. q \in DOMAIN held /\ i \in 1 .. Len(held[q])
      BY <1>3, <1>4
    <2>2. q + i - 1 \in Pool /\ mem[q + i - 1] = held[q][i]
      BY <2>1 DEF MInv, ContentsKept
    <2>3. CASE q = p
      <3>1. q + i - 1 \in p .. p + Len(held[p]) - 1
        BY <1>2, <2>1, <2>3, SMT
      <3>2. QED
        BY <1>1, <1>3, <2>1, <2>2, <2>3, <3>1
    <2>4. CASE q # p
      <3>1. p + Len(held[p]) <= q \/ q + Len(held[q]) <= p
        BY <1>2, <1>5, <2>1, <2>4, BytesApart
      <3>2. q + i - 1 \notin p .. p + Len(held[p]) - 1
        BY <1>2, <2>1, <3>1, SMT
      <3>3. QED
        BY <1>1, <1>3, <2>1, <2>2, <2>4, <3>2
    <2>5. QED
      BY <2>3, <2>4
  <1>10. ContentsKept'
    BY <1>9 DEF ContentsKept
  <1>11. QED
    BY <1>7, <1>8, <1>10 DEF MInv

\* The copy reads the bytes of the old block where they were before it.
LEMMA SourceInBlock ==
  ASSUME NEW to \in Nat, NEW old \in Nat, NEW k \in Nat, to > old => old + k < to
  PROVE  Source(to, old, k) = old + k
  <1>1. CASE to > old
    <2>1. to - old \in Nat \ {0} /\ k < to - old
      BY <1>1, SMT
    <2>2. \A d \in Nat \ {0}, j \in Nat : j < d => j % d = j
      BY SMT
    <2>3. k % (to - old) = k
      BY <2>1, <2>2
    <2>4. QED
      BY <1>1, <2>3 DEF Source
  <1>2. CASE ~(to > old)
    BY <1>2, SMT DEF Source
  <1>3. QED
    BY <1>1, <1>2

\* Moving a block keeps the invariant: the copy reaches the new block only, and what
\* the old one held is there.
LEMMA MoveStep ==
  ASSUME MInv, NEW o \in Cells, NEW size \in Sizes, NEW old \in Pointers, NEW any \in Byte,
         Highest(o, size), Move(o, size, old, any)
  PROVE  MInv'
  <1> DEFINE n   == nmemb(size)
             ptr == o * memblksize
             D   == DOMAIN held \cup {ptr}
             cnt == [p \in D |-> IF p = ptr THEN n ELSE Counts[p]]
             new == held'[ptr]
  <1>1. /\ memrdy /\ size \in Nat \ {0} /\ n \in Nat \ {0} /\ size <= n * memblksize
        /\ ptr \in Nat /\ ptr + size <= memsize
        /\ ptr \notin DOMAIN held
        /\ Matches(Mark(memmap, o, n), D, cnt)
        /\ \A p \in DOMAIN held : cnt[p] = Count(p)
    BY NewBlock
  <1>2. \A p \in DOMAIN held : /\ p \in Nat /\ Len(held[p]) \in Nat /\ p # NULL /\ p # ptr
                              /\ Len(held[p]) <= Count(p) * memblksize
    BY <1>1, LiveSizes, NullAssumption, SMT DEF MInv
  <1>3. /\ memrdy' = memrdy /\ mem' = Copied(ptr, old, size, any)
        /\ memmap' = IF old = NULL THEN Mark(memmap, o, n) ELSE Unmark(Mark(memmap, o, n), First(old))
        /\ DOMAIN held' = (DOMAIN held \ {old}) \cup {ptr}
        /\ \A p \in DOMAIN held \ {old} : held'[p] = held[p]
        /\ new = [i \in 1 .. size |->
                    IF old # NULL /\ i \in 1 .. Len(held[old]) THEN held[old][i]
                    ELSE mem'[ptr + i - 1]]
        /\ call' = [size |-> size, ptr |-> ptr]
    BY <1>1 DEF Move, First
  <1>4. /\ \A i \in 1 .. size : ptr + i - 1 \in Pool
        /\ \A i \in 1 .. size : ptr + i - 1 \in ptr .. ptr + size - 1 /\ (ptr + i - 1) - ptr = i - 1
        /\ old # NULL => old \in DOMAIN held
    BY <1>1, PoolAssumption, SMT DEF Pool, memsize, Pointers
  <1>5. mem' \in [Pool -> Byte]
    <2>1. ASSUME NEW b \in Pool PROVE Copied(ptr, old, size, any)[b] \in Byte
      BY <2>1 DEF Copied, MInv, TypeOK
    <2>2. QED
      BY <1>3, <2>1 DEF Copied
  <1>6. \A b \in Pool : b \notin ptr .. ptr + size - 1 => mem'[b] = mem[b]
    BY <1>3 DEF Copied
  <1>7. ASSUME NEW i \in 1 .. size PROVE new[i] = mem'[ptr + i - 1]
    <2>1. CASE old # NULL /\ i \in 1 .. Len(held[old])
      <3>1. old + i - 1 \in Pool /\ mem[old + i - 1] = held[old][i]
        BY <1>4, <2>1 DEF MInv, ContentsKept
      <3>2. Source(ptr, old, (ptr + i - 1) - ptr) = old + i - 1
        <4>1. ptr \in D /\ old \in D /\ cnt[ptr] = n
          BY <1>1, <1>4, <2>1
        <4>2. ptr + size <= old \/ old + Len(held[old]) <= ptr
          <5> HIDE DEF cnt, D
          <5>1. QED
            BY <1>1, <1>2, <1>4, <2>1, <4>1, BytesApart
        <4>3. i \in Nat \ {0} /\ i <= Len(held[old]) /\ old \in Nat /\ Len(held[old]) \in Nat
          BY <1>1, <1>2, <1>4, <2>1, SMT
        <4> DEFINE k == i - 1
        <4>4. ptr \in Nat /\ k \in Nat /\ (ptr > old => old + k < ptr)
          BY <1>1, <4>2, <4>3
        <4>5. (ptr + i - 1) - ptr = k /\ old + k = old + i - 1
          BY <4>3, <4>4
        <4> HIDE DEF ptr, k
        <4>6. Source(ptr, old, k) = old + k
          BY <4>3, <4>4, SourceInBlock
        <4>7. QED
          BY <4>5, <4>6
      <3>3. mem'[ptr + i - 1] = mem[old + i - 1]
        BY <1>3, <1>4, <2>1, <3>1, <3>2 DEF Copied
      <3>4. QED
        BY <1>3, <2>1, <3>1, <3>3
    <2>2. QED
      BY <1>3, <2>1
  <1>8. new \in Seq(Byte) /\ Len(new) = size
    <2>1. \A i \in 1 .. size : new[i] \in Byte
      BY <1>4, <1>5, <1>7
    <2>2. DOMAIN new = 1 .. size /\ new = [i \in 1 .. size |-> new[i]]
      BY <1>3
    <2>3. QED
      BY <1>1, <2>1, <2>2, SMT
  <1> HIDE DEF new
  <1>9. Matches(memmap', DOMAIN held', Counts')
    <2>1. \A p \in DOMAIN held' : Count(p)' = cnt[p]
      BY <1>1, <1>3, <1>8 DEF Count, new
    <2>2. Counts' = [p \in DOMAIN held' |-> cnt[p]]
      BY <2>1 DEF Counts
    <2>3. CASE old = NULL
      <3>1. DOMAIN held' = D
        BY <1>2, <1>3, <2>3
      <3>2. [p \in DOMAIN held' |-> cnt[p]] = cnt
        BY <3>1
      <3>3. QED
        BY <1>1, <1>3, <2>2, <2>3, <3>1, <3>2
    <2>4. CASE old # NULL
      <3>1. DOMAIN held' = D \ {old} /\ old \in D
        BY <1>2, <1>3, <1>4, <2>4
      <3> HIDE DEF cnt
      <3>2. Matches(Unmark(Mark(memmap, o, n), First(old)), D \ {old}, [p \in D \ {old} |-> cnt[p]])
        BY <1>1, <3>1, UnmarkDropsBlock
      <3>3. QED
        BY <1>3, <2>2, <2>4, <3>1, <3>2
    <2>5. QED
      BY <2>3, <2>4
  <1>10. MapMatches'
    BY <1>1, <1>3, <1>9, MatchesLive
  <1>11. TypeOK'
    <2>1. memmap' \in [Cells -> 0 .. memtblsize] /\ DOMAIN held' \subseteq Pool
      BY <1>9 DEF Matches
    <2>2. memmap' \in [Cells -> Nat]
      BY <2>1, SMT
    <2>3. \A p \in DOMAIN held' : held'[p] \in Seq(Byte) /\ Len(held'[p]) \in Sizes \ {0}
      BY <1>1, <1>3, <1>8 DEF MInv, TypeOK, new
    <2>4. ptr \in Pool
      BY <1>3, <2>1
    <2>5. QED
      BY <1>1, <1>3, <1>5, <2>1, <2>2, <2>3, <2>4 DEF MInv, TypeOK
  <1>12. ASSUME NEW q \in DOMAIN held', NEW i \in 1 .. Len(held'[q])
         PROVE  q + i - 1 \in Pool /\ mem'[q + i - 1] = held'[q][i]
    <2>1. CASE q = ptr
      BY <1>4, <1>7, <1>8, <2>1 DEF new
    <2>2. CASE q # ptr
      <3>1. q \in DOMAIN held /\ held'[q] = held[q]
        BY <1>3, <2>2
      <3>2. q + i - 1 \in Pool /\ mem[q + i - 1] = held[q][i]
        BY <3>1 DEF MInv, ContentsKept
      <3>3. cnt[ptr] = n /\ cnt[q] = Count(q) /\ ptr \in D /\ q \in D
        BY <1>1, <3>1
      <3> HIDE DEF cnt
      <3>4. q + Len(held[q]) <= ptr \/ ptr + size <= q
        BY <1>1, <1>2, <2>2, <3>1, <3>3, BytesApart
      <3>5. q + i - 1 \notin ptr .. ptr + size - 1
        BY <1>1, <1>2, <3>1, <3>4, SMT
      <3>6. QED
        BY <1>6, <3>1, <3>2, <3>5
    <2>3. QED
      BY <2>1, <2>2
  <1>13. ContentsKept'
    BY <1>12 DEF ContentsKept
  <1>14. QED
    BY <1>10, <1>11, <1>13 DEF MInv

-----------------------------------------------------------------------------
\* Every step keeps the invariant.
LEMMA NextStep == MInv /\ [Next]_vars => MInv'
  <1>1. CASE MInv /\ Next
    <2>1. CASE my_mem_init
      BY <1>1, <2>1, InitStep
    <2>2. CASE mymalloc
      BY <1>1, <2>2, AllocateStep, RefuseStep DEF mymalloc
    <2>3. CASE myfree
      BY <1>1, <2>3, FreeStep
    <2>4. CASE myrealloc
      BY <1>1, <2>4, MoveStep, RefuseStep DEF myrealloc
    <2>5. CASE Write
      BY <1>1, <2>5, WriteStep
    <2>6. QED
      BY <1>1, <2>1, <2>2, <2>3, <2>4, <2>5 DEF Next
  <1>2. CASE MInv /\ UNCHANGED vars
    BY <1>2 DEF vars, MInv, TypeOK, MapMatches, ContentsKept, Count, CellsOf
  <1>3. QED
    BY <1>1, <1>2

\* The heap starts as the invariant says.
LEMMA InitHolds == Init => MInv
  <1> SUFFICES ASSUME Init PROVE MInv
    OBVIOUS
  <1>1. TypeOK
    <2>1. memrdy = FALSE /\ memmap \in [Cells -> Nat]
      BY JunkAssumption DEF Init
    <2>2. mem \in [Pool -> Byte]
      BY DEF Init
    <2>3. DOMAIN held = {}
      BY DEF Init
    <2>4. call.size = 0 /\ call.ptr = NULL
      BY DEF Init, NoCall
    <2>5. QED
      BY <2>1, <2>2, <2>3, <2>4 DEF TypeOK
  <1>2. MapMatches /\ ContentsKept
    BY DEF Init, MapMatches, ContentsKept
  <1>3. QED
    BY <1>1, <1>2 DEF MInv

\* The inductive invariant of the memory manager: types, map and contents
\* (malloc.c:82-167).
THEOREM MallocInvariant == Spec => []MInv
  BY InitHolds, NextStep, PTL DEF Spec

\* Through any sequence of mymalloc, myfree and myrealloc the map and the live pointers
\* agree and no two blocks overlap (malloc.c:92-126).
THEOREM MapIsRight == Spec => []MapMatches
  <1>1. MInv => MapMatches
    BY DEF MInv
  <1>2. QED
    BY <1>1, MallocInvariant, PTL

\* What a caller has written stays, also through myrealloc (malloc.c:156-167).
THEOREM ContentsAreKept == Spec => []ContentsKept
  <1>1. MInv => ContentsKept
    BY DEF MInv
  <1>2. QED
    BY <1>1, MallocInvariant, PTL

\* Through any sequence of calls the entries of a map that was cleared stay in the range
\* of its 16 bits, and pointers stay in the pool (malloc.c:82-167).
THEOREM TypesHold == Spec => []TypeOK
  <1>1. MInv => TypeOK
    BY DEF MInv
  <1>2. QED
    BY <1>1, MallocInvariant, PTL

\* The usage reported is that of the live blocks: no cell stays marked when its block
\* has been freed or moved, and none is counted twice (malloc.c:68-77).
THEOREM UsageHolds == Spec => []UsageRight
  <1>1. MInv => UsageRight
    <2> DEFINE marked == {c \in Cells : memmap[c] # 0}
               lived  == UNION {CellsOf(p) : p \in DOMAIN held}
               permille(cells) == (Cardinality(cells) * 1000) \div memtblsize
    <2>1. SUFFICES ASSUME MInv, memrdy PROVE marked = lived
      <3>1. UsageRight = (memrdy => permille(marked) = permille(lived))
        BY Zenon DEF UsageRight, my_mem_perused
      <3> HIDE DEF marked, lived, permille
      <3>2. QED
        BY <2>1, <3>1, Zenon
    <2>2. ASSUME NEW c \in Cells, memmap[c] # 0
          PROVE  \E p \in DOMAIN held : c \in CellsOf(p)
      BY <2>1, <2>2 DEF MInv, MapMatches
    <2>3. ASSUME NEW p \in DOMAIN held, NEW c \in CellsOf(p)
          PROVE  c \in Cells /\ memmap[c] # 0
      <3>1. /\ Count(p) \in Nat \ {0} /\ p \in Nat
            /\ First(p) + Count(p) <= memtblsize /\ memmap[c] = Count(p)
        BY <2>1, LiveSizes DEF MInv, MapMatches
      <3>2. First(p) \in Nat
        BY <3>1, PoolAssumption, SMT DEF First
      <3>3. QED
        BY <3>1, <3>2, PoolAssumption, SMT DEF CellsOf, Cells
    <2>4. QED
      BY <2>2, <2>3
  <1>2. QED
    BY <1>1, MallocInvariant, PTL

-----------------------------------------------------------------------------
(* The memory manager keeps the promise of Heap: each step of Malloc is a   *)
(* step of it, blocks being the runs of cells of the live pointers.         *)

Blocks == {HeapBlock(p) : p \in DOMAIN held}
Answer == [at |-> IF call.ptr = NULL THEN NULL ELSE call.ptr \div memblksize,
           n  |-> nmemb(call.size)]

\* An allocation of 0 bytes asks for 0 blocks.
LEMMA NothingTakesNothing == nmemb(0) = 0
  BY PoolAssumption, SMT DEF nmemb

\* A live pointer is known by its first cell.
LEMMA FirstIsOwn ==
  ASSUME MInv, NEW p \in DOMAIN held, NEW q \in DOMAIN held, p # q
  PROVE  memrdy /\ HeapBlock(p) # HeapBlock(q)
  <1>1. memrdy
    BY DEF MInv, MapMatches, TypeOK
  <1>2. p \in Nat /\ q \in Nat /\ p % memblksize = 0 /\ q % memblksize = 0
    BY <1>1, LiveSizes DEF MInv, MapMatches
  <1>3. p = First(p) * memblksize /\ q = First(q) * memblksize
    BY <1>2, CellOfPointer
  <1>4. First(p) # First(q)
    BY <1>3
  <1>5. QED
    BY <1>1, <1>4 DEF HeapBlock

\* The cells that no block of the promise covers are those the map shows as free.
LEMMA RoomIsFree ==
  ASSUME MInv, memrdy, NEW o \in Cells, NEW n \in Nat \ {0}
  PROVE  Promise!Room(o, n) <=> Free(memmap, o, n)
  <1>1. o \in Nat /\ o \in Int /\ o >= 0
    BY PoolAssumption DEF Cells
  <1>2. Promise!Room(o, n) <=>
          /\ o + n <= memtblsize
          /\ \A p \in DOMAIN held : o + n <= First(p) \/ First(p) + Count(p) <= o
    <2>1. \A p \in DOMAIN held : HeapBlock(p).at = First(p) /\ HeapBlock(p).n = Count(p)
      BY DEF HeapBlock
    <2>2. Promise!Room(o, n) <=>
            /\ o + n <= memtblsize
            /\ \A b \in Blocks : o + n <= b.at \/ b.at + b.n <= o
      BY <1>1 DEF Promise!Room, Blocks
    <2>3. QED
      BY <2>1, <2>2, Zenon DEF Blocks
  <1>3. Matches(memmap, DOMAIN held, Counts) /\ \A p \in DOMAIN held : Counts[p] = Count(p)
    BY LiveMatches DEF Counts
  <1>4. ASSUME Free(memmap, o, n) PROVE Promise!Room(o, n)
    <2>1. o + n <= memtblsize
      BY <1>4 DEF Free
    <2>2. ASSUME NEW p \in DOMAIN held
          PROVE  o + n <= First(p) \/ First(p) + Count(p) <= o
      <3> HIDE DEF Counts
      <3>1. QED
        BY <1>3, <1>4, FreeRunApart
    <2>3. QED
      BY <1>2, <2>1, <2>2
  <1>5. ASSUME Promise!Room(o, n) PROVE Free(memmap, o, n)
    <2>1. ASSUME NEW c \in o .. o + n - 1, memmap[c] # 0 PROVE FALSE
      <3>1. c \in Cells
        BY <1>1, <1>2, <1>5, PoolAssumption, SMT DEF Cells
      <3>2. PICK p \in DOMAIN held : c \in CellsOf(p)
        BY <2>1, <3>1 DEF MInv, MapMatches
      <3>3. First(p) \in Int /\ Count(p) \in Int
        <4>1. p \in Nat /\ p % memblksize = 0 /\ Count(p) \in Nat
          BY LiveSizes DEF MInv, MapMatches
        <4>2. QED
          BY <4>1, CellOfPointer
      <3>4. o + n <= First(p) \/ First(p) + Count(p) <= o
        BY <1>2, <1>5
      <3>5. QED
        BY <1>1, <3>2, <3>3, <3>4, SMT DEF CellsOf
    <2>2. QED
      BY <1>2, <1>5, <2>1 DEF Free
  <1>6. QED
    BY <1>4, <1>5

-----------------------------------------------------------------------------
\* The initial states of the heap are initial states of the promise.
LEMMA InitIsPromised ==
  ASSUME Init
  PROVE  Promise!Init
  <1>1. DOMAIN held = {} /\ call.size = 0 /\ call.ptr = NULL
    BY DEF Init, NoCall
  <1>2. QED
    BY <1>1, NothingTakesNothing DEF Promise!Init, Promise!Block

\* Steps that leave the live blocks alone and ask for nothing.
LEMMA UseIsPromised ==
  ASSUME DOMAIN held' = DOMAIN held,
         \A p \in DOMAIN held : Len(held'[p]) = Len(held[p]),
         call' = NoCall
  PROVE  Promise!Use
  <1>1. \A p \in DOMAIN held : HeapBlock(p)' = HeapBlock(p)
    BY DEF HeapBlock, First, Count
  <1>2. Blocks' = Blocks
    BY <1>1 DEF Blocks
  <1>3. Answer' = [at |-> NULL, n |-> 0]
    BY NothingTakesNothing DEF Answer, NoCall
  <1>4. QED
    BY <1>2, <1>3 DEF Promise!Use, Promise!Block, Blocks, Answer

\* A request is refused only when there is no room for it.
LEMMA RefuseIsPromised ==
  ASSUME MInv, NEW size \in Sizes, NoRoom(size), Refuse(size)
  PROVE  Promise!Refuse(nmemb(size))
  <1>1. Blocks' = Blocks
    BY DEF Refuse, Blocks, HeapBlock, First, Count
  <1>2. Answer' = [at |-> NULL, n |-> nmemb(size)]
    BY DEF Refuse, Answer
  <1>3. nmemb(size) = 0 \/ \A at \in 0 .. memtblsize - 1 : ~Promise!Room(at, nmemb(size))
    <2>1. CASE size = 0
      BY <2>1, NothingTakesNothing
    <2>2. CASE size # 0
      <3>1. nmemb(size) \in Nat \ {0}
        BY <2>2, CellsSuffice, SizeAssumption
      <3>2. memrdy /\ \A o \in Cells : ~Free(memmap, o, nmemb(size))
        BY <2>2 DEF NoRoom
      <3>3. \A o \in Cells : ~Promise!Room(o, nmemb(size))
        BY <3>1, <3>2, RoomIsFree
      <3>4. QED
        BY <3>3 DEF Cells
    <2>3. QED
      BY <2>1, <2>2
  <1>4. QED
    BY <1>1, <1>2, <1>3 DEF Promise!Refuse, Promise!Block, Blocks, Answer

\* A block that is handed out lies on cells that were free.
LEMMA TakeIsPromised ==
  ASSUME MInv, NEW o \in Cells, NEW size \in Sizes, Highest(o, size)
  PROVE  /\ memrdy /\ size \in Nat \ {0} /\ nmemb(size) > 0
         /\ Promise!Room(o, nmemb(size))
         /\ o * memblksize \notin DOMAIN held /\ o * memblksize # NULL
         /\ First(o * memblksize) = o
  <1>1. /\ memrdy /\ size \in Nat \ {0} /\ nmemb(size) \in Nat \ {0}
        /\ o * memblksize \in Nat /\ First(o * memblksize) = o
        /\ o * memblksize \notin DOMAIN held
    BY NewBlock
  <1>2. Promise!Room(o, nmemb(size))
    BY <1>1, RoomIsFree DEF Highest
  <1>3. QED
    BY <1>1, <1>2, NullAssumption

\* mymalloc takes blocks nobody holds.
LEMMA AllocateIsPromised ==
  ASSUME MInv, NEW o \in Cells, NEW size \in Sizes, Highest(o, size), Allocate(o, size)
  PROVE  Promise!Take(nmemb(size), {})
  <1> DEFINE ptr == o * memblksize
  <1>1. /\ size \in Nat \ {0} /\ nmemb(size) > 0 /\ Promise!Room(o, nmemb(size))
        /\ ptr \notin DOMAIN held /\ ptr # NULL /\ First(ptr) = o
    BY TakeIsPromised
  <1>2. /\ DOMAIN held' = DOMAIN held \cup {ptr}
        /\ \A p \in DOMAIN held : held'[p] = held[p]
        /\ Len(held'[ptr]) = size
        /\ call' = [size |-> size, ptr |-> ptr]
    BY <1>1 DEF Allocate
  <1> HIDE DEF ptr
  <1>3. Blocks' = Blocks \cup {[at |-> o, n |-> nmemb(size)]}
    <2>1. \A p \in DOMAIN held : HeapBlock(p)' = HeapBlock(p)
      BY <1>2 DEF HeapBlock, First, Count
    <2>2. HeapBlock(ptr)' = [at |-> o, n |-> nmemb(size)]
      BY <1>1, <1>2 DEF HeapBlock, First, Count
    <2>3. QED
      BY <1>2, <2>1, <2>2 DEF Blocks
  <1>4. Answer' = [at |-> o, n |-> nmemb(size)]
    BY <1>1, <1>2 DEF Answer, First
  <1>5. QED
    BY <1>1, <1>3, <1>4 DEF Promise!Take, Promise!Block, Blocks, Answer, Cells

\* myrealloc takes the new blocks, and gives the old ones back when they were held.
LEMMA MoveIsPromised ==
  ASSUME MInv, NEW o \in Cells, NEW size \in Sizes, NEW old \in Pointers, NEW any \in Byte,
         Highest(o, size), Move(o, size, old, any)
  PROVE  \/ Promise!Take(nmemb(size), {})
         \/ \E b \in Blocks : Promise!Take(nmemb(size), {b})
  <1> DEFINE ptr == o * memblksize
             new == [at |-> o, n |-> nmemb(size)]
  <1>1. /\ size \in Nat \ {0} /\ nmemb(size) > 0 /\ Promise!Room(o, nmemb(size))
        /\ ptr \notin DOMAIN held /\ ptr # NULL /\ First(ptr) = o
    BY TakeIsPromised
  <1>2. /\ DOMAIN held' = (DOMAIN held \ {old}) \cup {ptr}
        /\ \A p \in DOMAIN held \ {old} : held'[p] = held[p]
        /\ Len(held'[ptr]) = size
        /\ call' = [size |-> size, ptr |-> ptr]
    BY <1>1 DEF Move
  <1> HIDE DEF ptr
  <1>3. /\ \A p \in DOMAIN held \ {old} : HeapBlock(p)' = HeapBlock(p)
        /\ HeapBlock(ptr)' = new
    BY <1>1, <1>2 DEF HeapBlock, First, Count
  <1>4. Answer' = new
    BY <1>1, <1>2 DEF Answer, First
  <1>5. CASE old = NULL
    <2>1. DOMAIN held \ {old} = DOMAIN held
      <3>1. \A p \in DOMAIN held : p \in Nat
        BY LiveSizes DEF MInv
      <3>2. QED
        BY <1>5, <3>1, NullAssumption
    <2>2. Blocks' = (Blocks \ {}) \cup {new}
      BY <1>2, <1>3, <2>1 DEF Blocks
    <2>3. Promise!Take(nmemb(size), {})
      BY <1>1, <1>4, <2>2 DEF Promise!Take, Promise!Block, Blocks, Answer, Cells
    <2>4. QED
      BY <2>3
  <1>6. CASE old # NULL
    <2>1. old \in DOMAIN held /\ HeapBlock(old) \in Blocks
      BY <1>6 DEF Pointers, Blocks
    <2>2. \A p \in DOMAIN held \ {old} : HeapBlock(p) # HeapBlock(old)
      BY <2>1, FirstIsOwn
    <2>3. Blocks' = (Blocks \ {HeapBlock(old)}) \cup {new}
      BY <1>2, <1>3, <2>1, <2>2 DEF Blocks
    <2>4. Promise!Take(nmemb(size), {HeapBlock(old)})
      BY <1>1, <1>4, <2>3 DEF Promise!Take, Promise!Block, Blocks, Answer, Cells
    <2>5. QED
      BY <2>1, <2>4
  <1>7. QED
    BY <1>5, <1>6

\* myfree gives back one block that is held, or none.
LEMMA FreeIsPromised ==
  ASSUME MInv, myfree
  PROVE  \E b \in Blocks : Promise!Release(b)
  <1>1. PICK p \in DOMAIN held :
          /\ held' = [q \in DOMAIN held \ {p} |-> held[q]]
          /\ call' = NoCall
    BY DEF myfree
  <1>2. /\ DOMAIN held' = DOMAIN held \ {p}
        /\ \A q \in DOMAIN held \ {p} : HeapBlock(q)' = HeapBlock(q)
    BY <1>1 DEF HeapBlock, First, Count
  <1>3. \A q \in DOMAIN held \ {p} : HeapBlock(q) # HeapBlock(p)
    BY FirstIsOwn
  <1>4. Blocks' = Blocks \ {HeapBlock(p)}
    BY <1>2, <1>3 DEF Blocks
  <1>5. Answer' = [at |-> NULL, n |-> 0]
    BY <1>1, NothingTakesNothing DEF Answer, NoCall
  <1>6. HeapBlock(p) \in Blocks
    BY DEF Blocks
  <1>7. Promise!Release(HeapBlock(p))
    BY <1>4, <1>5 DEF Promise!Release, Promise!Block, Blocks, Answer
  <1>8. QED
    BY <1>6, <1>7

\* Every call of the heap is a step of the promise.
LEMMA StepIsPromised ==
  ASSUME MInv, Next
  PROVE  Promise!Next
  <1>1. CASE my_mem_init
    <2>1. DOMAIN held' = DOMAIN held /\ (\A p \in DOMAIN held : Len(held'[p]) = Len(held[p]))
          /\ call' = NoCall
      BY <1>1 DEF my_mem_init
    <2>2. Promise!Use
      BY <2>1, UseIsPromised
    <2>3. QED
      BY <2>2 DEF Promise!Next
  <1>2. ASSUME NEW size \in Sizes, NoRoom(size), Refuse(size) PROVE Promise!Next
    BY <1>2, RefuseIsPromised DEF Promise!Next
  <1>3. CASE mymalloc
    <2>1. ASSUME NEW size \in Sizes, NEW o \in Cells, Highest(o, size), Allocate(o, size)
          PROVE  Promise!Next
      BY <2>1, AllocateIsPromised DEF Promise!Next
    <2>2. QED
      BY <1>2, <1>3, <2>1 DEF mymalloc
  <1>4. CASE myrealloc
    <2>1. ASSUME NEW size \in Sizes, NEW o \in Cells, NEW old \in Pointers, NEW any \in Byte,
                 Highest(o, size), Move(o, size, old, any)
          PROVE  Promise!Next
      BY <2>1, MoveIsPromised DEF Promise!Next, Blocks
    <2>2. QED
      BY <1>2, <1>4, <2>1 DEF myrealloc
  <1>5. CASE myfree
    BY <1>5, FreeIsPromised DEF Promise!Next, Blocks
  <1>6. CASE Write
    <2>1. PICK p \in DOMAIN held, v \in Byte :
            held' = [held EXCEPT ![p] = [i \in 1 .. Len(held[p]) |-> v]] /\ call' = NoCall
      BY <1>6 DEF Write
    <2>2. Len(held[p]) \in Nat
      BY LiveSizes DEF MInv
    <2>3. DOMAIN held' = DOMAIN held /\ \A q \in DOMAIN held : Len(held'[q]) = Len(held[q])
      BY <2>1, <2>2
    <2>4. Promise!Use
      BY <2>1, <2>3, UseIsPromised
    <2>5. QED
      BY <2>4 DEF Promise!Next
  <1>7. QED
    BY <1>1, <1>3, <1>4, <1>5, <1>6 DEF Next

\* Blocks never overlap, and a request is refused only when no run of free cells is long
\* enough, for every pool and every sequence of calls (malloc.c:82-167).
THEOREM MallocImplementsHeap == Spec => ImplementsHeap
  <1>1. Init => Promise!Init
    BY InitIsPromised
  <1>2. MInv /\ [Next]_vars => [Promise!Next]_<<Blocks, Answer>>
    <2>1. CASE MInv /\ Next
      BY <2>1, StepIsPromised
    <2>2. CASE UNCHANGED vars
      <3>1. Blocks' = Blocks /\ Answer' = Answer
        BY <2>2 DEF vars, Blocks, Answer, HeapBlock, First, Count
      <3>2. QED
        BY <3>1
    <2>3. QED
      BY <2>1, <2>2
  <1>3. QED
    BY <1>1, <1>2, MallocInvariant, PTL DEF Spec, ImplementsHeap, Promise!Spec, Blocks, Answer

-----------------------------------------------------------------------------
(* The search, one cell at a time, finds the uppermost run that is long     *)
(* enough or shows that there is none.                                      *)

ScanInv == MInv /\ SearchInv

\* What a search has established when it looks at a cell of the pool.
LEMMA AtOffset ==
  ASSUME ScanInv, label = "92"
  PROVE  /\ memrdy /\ want.size \in Sizes /\ want.size # 0 /\ want.old \in Pointers
         /\ nmemb(want.size) \in Nat \ {0}
         /\ offset \in Int /\ cmemb \in Nat /\ memtblsize \in Nat
         /\ -1 <= offset /\ offset < memtblsize
         /\ cmemb < nmemb(want.size) /\ offset + cmemb < memtblsize
  <1>1. /\ memrdy /\ want.size \in Sizes /\ want.size # 0 /\ want.old \in Pointers
        /\ offset \in -1 .. memtblsize - 1 /\ cmemb \in 0 .. nmemb(want.size) - 1
        /\ offset + cmemb < memtblsize
    BY Zenon DEF ScanInv, SearchInv
  <1>2. nmemb(want.size) \in Nat \ {0}
    BY <1>1, CellsSuffice, SizeAssumption
  <1>3. QED
    BY <1>1, <1>2, PoolAssumption, SMT

\* The run found is free, and none above it is long enough.
LEMMA FoundIsHighest ==
  ASSUME ScanInv, label = "92", offset >= 0, InARow = nmemb(want.size)
  PROVE  offset \in Cells /\ Highest(offset, want.size)
  <1> DEFINE n == nmemb(want.size)
  <1>1. /\ memrdy /\ want.size \in Sizes \ {0}
        /\ n \in Nat \ {0} /\ offset \in Int /\ cmemb \in Nat /\ memtblsize \in Nat
        /\ offset < memtblsize /\ offset + cmemb < memtblsize
    BY AtOffset
  <1>2. memmap[offset] = 0 /\ cmemb + 1 = n
    BY <1>1 DEF InARow
  <1>3. /\ \A c \in offset + 1 .. offset + cmemb : memmap[c] = 0
        /\ \A o \in offset + 1 .. memtblsize - 1 : ~Free(memmap, o, n)
    BY Zenon DEF ScanInv, SearchInv
  <1> HIDE DEF n
  <1>4. Free(memmap, offset, n)
    <2>1. offset + n <= memtblsize
      BY <1>1, <1>2, SMT
    <2>2. ASSUME NEW c \in offset .. offset + n - 1 PROVE memmap[c] = 0
      <3>1. c = offset \/ c \in offset + 1 .. offset + cmemb
        BY <1>1, <1>2, SMT
      <3>2. QED
        BY <1>2, <1>3, <3>1
    <2>3. QED
      BY <2>1, <2>2 DEF Free
  <1>5. ASSUME NEW p \in Cells, Free(memmap, p, n) PROVE p <= offset
    <2>1. p \notin offset + 1 .. memtblsize - 1
      BY <1>3, <1>5
    <2>2. QED
      BY <1>1, <2>1, SMT DEF Cells
  <1>6. offset \in Cells
    BY <1>1, SMT DEF Cells
  <1>7. QED
    BY <1>1, <1>4, <1>5, <1>6 DEF Highest, n

\* A search that ends below the pool has shown that there is no room.
LEMMA EndIsNoRoom ==
  ASSUME ScanInv, label = "92", offset < 0
  PROVE  NoRoom(want.size)
  <1>1. memrdy /\ want.size \in Sizes /\ offset = -1
    BY AtOffset, SMT
  <1>2. \A o \in offset + 1 .. memtblsize - 1 : ~Free(memmap, o, nmemb(want.size))
    BY Zenon DEF ScanInv, SearchInv
  <1>3. offset + 1 = 0
    BY <1>1
  <1>4. QED
    BY <1>1, <1>2, <1>3 DEF NoRoom, Cells

\* Every step is one of Malloc or leaves its variables alone.
LEMMA ScanStepIsMallocStep ==
  ASSUME ScanInv, ScanNext
  PROVE  [Next]_vars
  <1>1. CASE Call \/ Begin \/ Continue
    BY <1>1 DEF Call, Begin, Continue
  <1>2. CASE MakeReady
    BY <1>2 DEF MakeReady, Next
  <1>3. CASE Nothing
    <2>1. memrdy /\ 0 \in Sizes
      BY <1>3 DEF Nothing, ScanInv, SearchInv
    <2>2. NoRoom(0) /\ Refuse(0)
      BY <1>3, <2>1 DEF Nothing, NoRoom
    <2>3. QED
      BY <2>1, <2>2 DEF Next, mymalloc
  <1>4. CASE Found
    <2>1. /\ offset \in Cells /\ Highest(offset, want.size)
          /\ want.size \in Sizes /\ want.old \in Pointers
      BY <1>4, FoundIsHighest, AtOffset DEF Found
    <2>2. CASE Allocate(offset, want.size)
      BY <2>1, <2>2 DEF Next, mymalloc
    <2>3. CASE \E any \in Byte : Move(offset, want.size, want.old, any)
      BY <2>1, <2>3 DEF Next, myrealloc
    <2>4. QED
      BY <1>4, <2>2, <2>3 DEF Found
  <1>5. CASE NotFound
    <2>1. NoRoom(want.size) /\ Refuse(want.size) /\ want.size \in Sizes
      BY <1>5, EndIsNoRoom, AtOffset DEF NotFound
    <2>2. QED
      BY <2>1 DEF Next, mymalloc
  <1>6. CASE Between
    BY <1>6 DEF Between, Next
  <1>7. QED
    BY <1>1, <1>2, <1>3, <1>4, <1>5, <1>6 DEF ScanNext

-----------------------------------------------------------------------------
\* The search starts as the invariant says.
LEMMA ScanInitHolds ==
  ASSUME ScanInit
  PROVE  ScanInv
  BY InitHolds DEF ScanInit, Idle, ScanInv, SearchInv

\* A cell that is free lengthens the run, and one that is not starts it anew; either way
\* no run at this cell is long enough yet.
LEMMA ContinueStep ==
  ASSUME ScanInv, Continue
  PROVE  SearchInv'
  <1> DEFINE n == nmemb(want.size)
  <1>1. /\ label = "92" /\ label' = "92" /\ want' = want /\ memmap' = memmap /\ memrdy' = memrdy
        /\ held' = held
        /\ offset >= 0 /\ InARow # n /\ cmemb' = InARow /\ offset' = offset - 1
    BY DEF Continue, vars
  <1>2. /\ memrdy /\ want.size \in Sizes /\ want.size # 0 /\ want.old \in Pointers
        /\ n \in Nat \ {0} /\ offset \in Int /\ cmemb \in Nat /\ memtblsize \in Nat
        /\ offset < memtblsize /\ cmemb < n /\ offset + cmemb < memtblsize
    BY <1>1, AtOffset
  <1>3. /\ \A c \in offset + 1 .. offset + cmemb : memmap[c] = 0
        /\ offset + cmemb + 1 < memtblsize => memmap[offset + cmemb + 1] # 0
        /\ \A o \in offset + 1 .. memtblsize - 1 : ~Free(memmap, o, n)
    BY <1>1, Zenon DEF ScanInv, SearchInv
  <1> HIDE DEF n
  <1>4. /\ offset' \in -1 .. memtblsize - 1 /\ cmemb' \in 0 .. n - 1
        /\ offset' + cmemb' < memtblsize
        /\ \A c \in offset' + 1 .. offset' + cmemb' : memmap[c] = 0
        /\ offset' + cmemb' + 1 < memtblsize => memmap[offset' + cmemb' + 1] # 0
        /\ ~Free(memmap, offset, n)
    <2>1. CASE memmap[offset] = 0
      <3>1. cmemb' = cmemb + 1 /\ cmemb + 1 # n
        BY <1>1, <2>1 DEF InARow
      <3>2. ASSUME NEW c \in offset' + 1 .. offset' + cmemb' PROVE memmap[c] = 0
        <4>1. c = offset \/ c \in offset + 1 .. offset + cmemb
          BY <1>1, <1>2, <3>1, SMT
        <4>2. QED
          BY <1>3, <2>1, <4>1
      <3>3. offset' + cmemb' = offset + cmemb
        BY <1>1, <1>2, <3>1, SMT
      <3>4. ASSUME Free(memmap, offset, n) PROVE FALSE
        <4>1. /\ offset + n <= memtblsize
              /\ \A c \in offset .. offset + n - 1 : memmap[c] = 0
          BY <3>4 DEF Free
        <4>2. offset + cmemb + 1 < memtblsize /\ offset + cmemb + 1 \in offset .. offset + n - 1
          BY <1>2, <3>1, <4>1, SMT
        <4>3. QED
          BY <1>3, <4>1, <4>2
      <3>5. offset' \in -1 .. memtblsize - 1 /\ cmemb' \in 0 .. n - 1
        BY <1>1, <1>2, <3>1, SMT
      <3>6. QED
        BY <1>2, <1>3, <3>2, <3>3, <3>4, <3>5
    <2>2. CASE memmap[offset] # 0
      <3>1. cmemb' = 0
        BY <1>1, <2>2 DEF InARow
      <3>2. offset \in offset .. offset + n - 1
        BY <1>2, SMT
      <3>3. ~Free(memmap, offset, n)
        BY <2>2, <3>2 DEF Free
      <3>4. /\ offset' \in -1 .. memtblsize - 1 /\ cmemb' \in 0 .. n - 1
            /\ offset' + cmemb' < memtblsize /\ offset' + cmemb' + 1 = offset
            /\ offset' + 1 .. offset' + cmemb' = {}
        BY <1>1, <1>2, <3>1, SMT
      <3>5. QED
        BY <2>2, <3>3, <3>4
    <2>3. QED
      BY <2>1, <2>2
  <1>5. ASSUME NEW o \in offset' + 1 .. memtblsize - 1 PROVE ~Free(memmap, o, n)
    <2>1. o = offset \/ o \in offset + 1 .. memtblsize - 1
      BY <1>1, <1>2, SMT
    <2>2. QED
      BY <1>3, <1>4, <2>1
  <1>6. nmemb(want.size)' = n /\ Pointers' = Pointers
    BY <1>1 DEF Pointers, n
  <1>7. \A o \in offset' + 1 .. memtblsize - 1 : ~Free(memmap', o, nmemb(want'.size))
    BY <1>1, <1>5 DEF n
  <1>8. /\ offset' \in -1 .. memtblsize - 1 /\ cmemb' \in 0 .. nmemb(want'.size) - 1
        /\ offset' + cmemb' < memtblsize
        /\ \A c \in offset' + 1 .. offset' + cmemb' : memmap'[c] = 0
        /\ offset' + cmemb' + 1 < memtblsize => memmap'[offset' + cmemb' + 1] # 0
    BY <1>1, <1>4 DEF n
  <1>9. /\ label' = "92" /\ want'.size \in Sizes /\ want'.size # 0 /\ want'.old \in Pointers'
        /\ memrdy'
    BY <1>1, <1>2, <1>6
  <1>10. QED
    BY <1>7, <1>8, <1>9, Zenon DEF SearchInv

\* Every step of a search, and every call between two searches, keeps what it knows.
LEMMA ScanStep ==
  ASSUME ScanInv, ScanNext
  PROVE  SearchInv'
  <1>1. CASE Return
    BY <1>1 DEF Return, Idle, SearchInv
  <1>2. CASE Call
    <2>1. /\ label' = "88" /\ want'.size \in Sizes /\ want'.old \in Pointers
          /\ Pointers' = Pointers
      BY <1>2 DEF Call, vars, Pointers
    <2>2. QED
      BY <2>1 DEF SearchInv
  <1>3. CASE MakeReady
    <2>1. label = "88" /\ label' = "89" /\ want' = want /\ memrdy' /\ Pointers' = Pointers
      BY <1>3 DEF MakeReady, my_mem_init, vars, Pointers
    <2>2. QED
      BY <2>1 DEF ScanInv, SearchInv
  <1>4. CASE Begin
    <2>1. /\ label = "89" /\ label' = "92" /\ want' = want /\ memrdy' = memrdy /\ held' = held
          /\ want.size # 0 /\ offset' = memtblsize - 1 /\ cmemb' = 0
      BY <1>4 DEF Begin, vars
    <2>2. memrdy' /\ want'.size \in Sizes /\ want'.size # 0 /\ want'.old \in Pointers'
      BY <2>1 DEF ScanInv, SearchInv, Pointers
    <2>3. nmemb(want'.size) \in Nat \ {0}
      BY <2>2, CellsSuffice, SizeAssumption
    <2>4. /\ offset' \in -1 .. memtblsize - 1 /\ cmemb' \in 0 .. nmemb(want'.size) - 1
          /\ offset' + cmemb' < memtblsize
          /\ offset' + 1 .. offset' + cmemb' = {}
          /\ ~(offset' + cmemb' + 1 < memtblsize)
          /\ offset' + 1 .. memtblsize - 1 = {}
      BY <2>1, <2>3, PoolAssumption, SMT
    <2>5. QED
      BY <2>1, <2>2, <2>4, Zenon DEF SearchInv
  <1>5. CASE Continue
    BY <1>5, ContinueStep
  <1>6. CASE Between
    BY <1>6 DEF Between, search, SearchInv
  <1>7. QED
    BY <1>1, <1>2, <1>3, <1>4, <1>5, <1>6 DEF ScanNext, Nothing, Found, NotFound

\* The invariant of the search holds in every reachable state.
LEMMA ScanInvHolds == ScanSpec => []ScanInv
  <1>1. ScanInit => ScanInv
    BY ScanInitHolds
  <1>2. ScanInv /\ [ScanNext]_<<vars, search>> => ScanInv'
    <2>1. ASSUME ScanInv, ScanNext PROVE ScanInv'
      <3>1. MInv'
        BY <2>1, ScanStepIsMallocStep, NextStep DEF ScanInv
      <3>2. QED
        BY <2>1, <3>1, ScanStep DEF ScanInv
    <2>2. ASSUME ScanInv, UNCHANGED <<vars, search>> PROVE ScanInv'
      <3>1. MInv'
        BY <2>2, NextStep DEF ScanInv
      <3>2. SearchInv'
        BY <2>2 DEF ScanInv, SearchInv, search, vars, Pointers, Free
      <3>3. QED
        BY <3>1, <3>2 DEF ScanInv
    <2>3. QED
      BY <2>1, <2>2
  <1>3. QED
    BY <1>1, <1>2, PTL DEF ScanSpec

\* What the search of my_mem_malloc knows at each cell holds for every map and every
\* request (malloc.c:88-105).
THEOREM SearchIsRight == ScanSpec => []SearchInv
  <1>1. ScanInv => SearchInv
    BY DEF ScanInv
  <1>2. QED
    BY <1>1, ScanInvHolds, PTL

\* The search finds the uppermost run of free cells that is long enough, and fails only
\* when there is none: mymalloc and myrealloc with it are those of Malloc
\* (malloc.c:82-106).
THEOREM ScanImplementsMalloc == ScanSpec => ImplementsMalloc
  <1>1. ScanInit => Init
    BY DEF ScanInit
  <1>2. ScanInv /\ [ScanNext]_<<vars, search>> => [Next]_vars
    BY ScanStepIsMallocStep
  <1>3. QED
    BY <1>1, <1>2, ScanInvHolds, PTL DEF ScanSpec, ImplementsMalloc, Spec
=============================================================================
