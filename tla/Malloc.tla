------------------------------- MODULE Malloc -------------------------------
(***************************************************************************)
(* One pool of the memory manager (MALLOC/malloc.c): a map with one entry  *)
(* per cell of memblksize bytes, 0 for a free cell and the length of its   *)
(* block, in cells, for any other.  The three pools share only code.       *)
(*                                                                         *)
(* The manager is called from the main program only, so each call is one   *)
(* step; MallocScan splits the search of my_mem_malloc.  Its callers free  *)
(* what they were given, once, and write to what they hold.                *)
(*                                                                         *)
(* A pointer is an offset from membase; NULL is none of them.              *)
(***************************************************************************)
EXTENDS Integers, Sequences, FiniteSets

CONSTANTS
  memtblsize,   \* number of cells
  memblksize,   \* bytes in a cell
  Sizes,        \* the sizes asked for
  Byte,         \* the values of a byte
  Junk,         \* what an entry of the map may hold before the map is cleared
  NULL

ASSUME PoolAssumption == memtblsize \in Nat \ {0} /\ memblksize \in Nat \ {0}
ASSUME SizeAssumption == Sizes \subseteq Nat
ASSUME JunkAssumption == Junk \subseteq Nat
ASSUME NullAssumption == NULL \notin Int

VARIABLES
  memrdy,    \* mallco_dev.memrdy
  memmap,    \* mallco_dev.memmap
  mem,       \* the bytes of the pool
  held,      \* the callers: the bytes each live pointer stands for
  call       \* the request just made: its size and the pointer returned

vars == <<memrdy, memmap, mem, held, call>>

Cells   == 0 .. memtblsize - 1
memsize == memtblsize * memblksize
Pool    == 0 .. memsize - 1

\* The cells that `size' bytes take.
nmemb(size) == size \div memblksize + (IF size % memblksize # 0 THEN 1 ELSE 0)

\* A run of n free cells.
Free(map, o, n) == o + n <= memtblsize /\ \A c \in o .. o + n - 1 : map[c] = 0

\* Faults: the cells marked begin one too high, or the last one is left out; only the
\* first cell is freed, or one too many.
Mark_TooHigh(map, o, n) ==
  [c \in Cells \cup o + 1 .. o + n |-> IF c \in o + 1 .. o + n THEN n ELSE map[c]]
Mark_Short(map, o, n)   == [c \in Cells |-> IF c \in o .. o + n - 2 THEN n ELSE map[c]]
Unmark_First(map, o)    == [map EXCEPT ![o] = 0]
Unmark_OneMore(map, o)  == [c \in Cells |-> IF c \in o .. o + map[o] THEN 0 ELSE map[c]]

Mark(map, o, n) == [c \in Cells |-> IF c \in o .. o + n - 1 THEN n ELSE map[c]]
Unmark(map, o)  == [c \in Cells |-> IF c \in o .. o + map[o] - 1 THEN 0 ELSE map[c]]

-----------------------------------------------------------------------------
NoCall == [size |-> 0, ptr |-> NULL]

\* The map of the pools in SDRAM and CCM is not initialised at start-up.
Init ==
  /\ memrdy = FALSE
  /\ memmap \in [Cells -> Junk]
  /\ \E v \in Byte : mem = [b \in Pool |-> v]
  /\ held = [p \in {} |-> <<>>]
  /\ call = NoCall

\* Called by main for the internal pool, by the first request for the others.
my_mem_init ==
  /\ ~memrdy
  /\ memrdy' = TRUE
  /\ memmap' = [c \in Cells |-> 0]
  /\ call' = NoCall
  /\ UNCHANGED <<mem, held>>

\* my_mem_malloc finds no room, and returns 0XFFFFFFFF.
NoRoom(size) ==
  /\ memrdy /\ size \in Sizes
  /\ size = 0 \/ \A o \in Cells : ~Free(memmap, o, nmemb(size))

Refuse(size) ==
  /\ call' = [size |-> size, ptr |-> NULL]
  /\ UNCHANGED <<memrdy, memmap, mem, held>>

\* my_mem_malloc takes the uppermost run that is long enough.
Highest(o, size) ==
  /\ memrdy /\ size \in Sizes \ {0}
  /\ Free(memmap, o, nmemb(size))
  /\ \A p \in Cells : Free(memmap, p, nmemb(size)) => p <= o

\* mymalloc of the run at cell o.
Allocate(o, size) ==
  LET ptr == o * memblksize
  IN  /\ memmap' = Mark(memmap, o, nmemb(size))
      /\ held' = [p \in DOMAIN held \cup {ptr} |->
                    IF p = ptr THEN [i \in 1 .. size |-> mem[ptr + i - 1]] ELSE held[p]]
      /\ call' = [size |-> size, ptr |-> ptr]
      /\ UNCHANGED <<memrdy, mem>>

mymalloc ==
  \E size \in Sizes :
    \/ NoRoom(size) /\ Refuse(size)
    \/ \E o \in Cells : Highest(o, size) /\ Allocate(o, size)

\* myfree; with NULL it does nothing.
myfree ==
  \E p \in DOMAIN held :
    /\ memrdy
    /\ memmap' = Unmark(memmap, p \div memblksize)
    /\ held' = [q \in DOMAIN held \ {p} |-> held[q]]
    /\ call' = NoCall
    /\ UNCHANGED <<memrdy, mem>>

\* Where mymemcpy reads byte k of its copy: it goes upwards, so that behind the start of
\* its destination it reads what it has written itself.
Source(to, old, k) == IF to > old THEN old + (k % (to - old)) ELSE old + k

\* The pool after mymemcpy of `size' bytes from pointer `old': what lies behind the old
\* block is copied as well, and any byte where that is behind the pool or at NULL.
Copied(to, old, size, any) ==
  [b \in Pool |->
     IF b \notin to .. to + size - 1 THEN mem[b]
     ELSE IF old = NULL THEN any
     ELSE IF Source(to, old, b - to) \notin Pool THEN any
     ELSE mem[Source(to, old, b - to)]]

\* myrealloc to the run at cell o; the old pointer may be NULL.
Move(o, size, old, any) ==
  LET ptr == o * memblksize
      map == Mark(memmap, o, nmemb(size))
  IN  /\ mem' = Copied(ptr, old, size, any)
      /\ memmap' = IF old = NULL THEN map ELSE Unmark(map, old \div memblksize)
      /\ held' = [p \in (DOMAIN held \ {old}) \cup {ptr} |->
                    IF p # ptr THEN held[p]
                    ELSE [i \in 1 .. size |->
                            IF old # NULL /\ i \in 1 .. Len(held[old]) THEN held[old][i]
                            ELSE mem'[ptr + i - 1]]]
      /\ call' = [size |-> size, ptr |-> ptr]
      /\ UNCHANGED memrdy

Pointers == DOMAIN held \cup {NULL}

myrealloc ==
  \E size \in Sizes :
    \/ NoRoom(size) /\ Refuse(size)
    \/ \E o \in Cells, old \in Pointers, any \in Byte :
         Highest(o, size) /\ Move(o, size, old, any)

\* A caller writes to all it holds.
Write ==
  \E p \in DOMAIN held, v \in Byte :
    /\ mem' = [b \in Pool |-> IF b \in p .. p + Len(held[p]) - 1 THEN v ELSE mem[b]]
    /\ held' = [held EXCEPT ![p] = [i \in 1 .. Len(held[p]) |-> v]]
    /\ call' = NoCall
    /\ UNCHANGED <<memrdy, memmap>>

Next == my_mem_init \/ mymalloc \/ myfree \/ myrealloc \/ Write

Spec == Init /\ [][Next]_vars

\* my_mem_perused, in tenths of a percent.
my_mem_perused == (Cardinality({c \in Cells : memmap[c] # 0}) * 1000) \div memtblsize
-----------------------------------------------------------------------------
(***************************************************************************)
(* Properties.                                                             *)
(***************************************************************************)

\* The first cell of a live pointer, their number, and all of them.
First(p)   == p \div memblksize
Count(p)   == nmemb(Len(held[p]))
CellsOf(p) == First(p) .. First(p) + Count(p) - 1

\* Every variable has its type.
TypeOK ==
  /\ memrdy \in BOOLEAN
  /\ memmap \in [Cells -> Nat]
  /\ memrdy => memmap \in [Cells -> 0 .. memtblsize]
  /\ mem \in [Pool -> Byte]
  /\ DOMAIN held \subseteq Pool
  /\ \A p \in DOMAIN held : held[p] \in Seq(Byte) /\ Len(held[p]) \in Sizes \ {0}
  /\ call.size \in Sizes \cup {0} /\ call.ptr \in Pool \cup {NULL}

\* The map and the live pointers agree, whatever was allocated, moved and freed: a
\* pointer is the start of a cell, its cells lie in the pool and all carry their number,
\* no two pointers share a cell, and every other cell is free (malloc.c:92-104, 121-126).
MapMatches ==
  /\ ~memrdy => DOMAIN held = {}
  /\ memrdy =>
       /\ \A p \in DOMAIN held :
            /\ p % memblksize = 0
            /\ First(p) + Count(p) <= memtblsize
            /\ \A c \in CellsOf(p) : memmap[c] = Count(p)
       /\ \A p, q \in DOMAIN held :
            p # q => First(p) + Count(p) <= First(q) \/ First(q) + Count(q) <= First(p)
       /\ \A c \in Cells : memmap[c] # 0 => \E p \in DOMAIN held : c \in CellsOf(p)

\* What a caller has written stays as it is until the caller writes it again or frees
\* it, whatever others do, and follows the block through myrealloc (malloc.c:156-167).
ContentsKept ==
  \A p \in DOMAIN held : \A i \in 1 .. Len(held[p]) :
    p + i - 1 \in Pool /\ mem[p + i - 1] = held[p][i]

\* The inductive invariant of the manager.
MInv == TypeOK /\ MapMatches /\ ContentsKept

\* The usage my_mem_perused reports is that of the live blocks.
UsageRight ==
  memrdy => my_mem_perused =
    (Cardinality(UNION {CellsOf(p) : p \in DOMAIN held}) * 1000) \div memtblsize

\* The manager keeps the promise of Heap.
HeapBlock(p) == [at |-> First(p), n |-> Count(p)]
Promise == INSTANCE Heap WITH
  Cells  <- memtblsize,
  Lengths <- {nmemb(size) : size \in Sizes},
  blocks <- {HeapBlock(p) : p \in DOMAIN held},
  answer <- [at |-> IF call.ptr = NULL THEN NULL ELSE call.ptr \div memblksize,
             n  |-> nmemb(call.size)]
ImplementsHeap == Promise!Spec
=============================================================================
