-------------------------------- MODULE Heap --------------------------------
(***************************************************************************)
(* What the memory manager of MALLOC/malloc.c promises for one pool: the   *)
(* blocks it hands out are runs of cells of the pool that never overlap,   *)
(* and it refuses a request only when no run of free cells is long enough. *)
(***************************************************************************)
EXTENDS Integers

CONSTANTS
  Cells,    \* number of cells of the pool
  Lengths,  \* numbers of cells asked for
  NULL      \* the answer to a request that is refused

VARIABLES
  blocks,   \* the blocks handed out: first cell and number of cells
  answer    \* the request just made and its answer

Room(at, n) ==
  /\ at >= 0 /\ at + n <= Cells
  /\ \A b \in blocks : at + n <= b.at \/ b.at + b.n <= at

Block(at, n) == [at |-> at, n |-> n]

-----------------------------------------------------------------------------
Init == blocks = {} /\ answer = Block(NULL, 0)

\* A block of n cells, moved from block `old' when there is one.
Take(n, old) ==
  /\ n > 0
  /\ \E at \in 0 .. Cells - 1 :
       /\ Room(at, n)
       /\ blocks' = (blocks \ old) \cup {Block(at, n)}
       /\ answer' = Block(at, n)

Refuse(n) ==
  /\ n = 0 \/ \A at \in 0 .. Cells - 1 : ~Room(at, n)
  /\ answer' = Block(NULL, n)
  /\ UNCHANGED blocks

Release(b) == blocks' = blocks \ {b} /\ answer' = Block(NULL, 0)

\* The pool or its blocks are used: the last answer is history.
Use == answer' = Block(NULL, 0) /\ UNCHANGED blocks

Next ==
  \/ \E n \in Lengths : Refuse(n) \/ Take(n, {}) \/ \E b \in blocks : Take(n, {b})
  \/ \E b \in blocks : Release(b)
  \/ Use

Spec == Init /\ [][Next]_<<blocks, answer>>
=============================================================================
