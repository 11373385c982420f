----------------------------- MODULE MallocScan -----------------------------
(***************************************************************************)
(* my_mem_malloc (malloc.c:82-106) with its search of the map, one cell at *)
(* a time from the top, as part of mymalloc and of myrealloc.  Malloc says *)
(* what the search finds; this module shows that it does.                  *)
(***************************************************************************)
EXTENDS Malloc

VARIABLES
  label,    \* "idle", or the line of my_mem_malloc that comes next
  want,     \* the request: its size, whether it is myrealloc's, and the old pointer
  offset,   \* the cell looked at
  cmemb     \* free cells seen in a row

search == <<label, want, offset, cmemb>>

\* Nothing is under way: the local variables are gone.
Idle(l, w, o, c) ==
  l = "idle" /\ w = [size |-> 0, moves |-> FALSE, old |-> NULL] /\ o = 0 /\ c = 0

ScanInit == Init /\ Idle(label, want, offset, cmemb)

Return == Idle(label', want', offset', cmemb')

-----------------------------------------------------------------------------
\* mymalloc or myrealloc is called.
Call ==
  /\ label = "idle" /\ label' = "88"
  /\ \E size \in Sizes :
       \/ want' = [size |-> size, moves |-> FALSE, old |-> NULL]
       \/ \E old \in Pointers : want' = [size |-> size, moves |-> TRUE, old |-> old]
  /\ UNCHANGED <<vars, offset, cmemb>>

\* Line 88: the first request clears the map.
MakeReady ==
  /\ label = "88" /\ label' = "89"
  /\ IF memrdy THEN UNCHANGED vars ELSE my_mem_init
  /\ UNCHANGED <<want, offset, cmemb>>

\* Line 89: nothing is asked for.
Nothing ==
  /\ label = "89" /\ want.size = 0
  /\ Refuse(0) /\ Return

\* Fault: the search leaves out the top cell.
Begin_BelowTop ==
  /\ label = "89" /\ label' = "92"
  /\ want.size # 0
  /\ offset' = memtblsize - 2 /\ cmemb' = 0
  /\ UNCHANGED <<vars, want>>

\* Lines 90 to 92.
Begin ==
  /\ label = "89" /\ label' = "92"
  /\ want.size # 0
  /\ offset' = memtblsize - 1 /\ cmemb' = 0
  /\ UNCHANGED <<vars, want>>

\* Fault: a cell in use does not end the run.
InARow_Kept == IF memmap[offset] = 0 THEN cmemb + 1 ELSE cmemb

\* Lines 94 and 95: the free cells in a row, with this one.
InARow == IF memmap[offset] = 0 THEN cmemb + 1 ELSE 0

\* The run is not long enough yet.
Continue ==
  /\ label = "92" /\ offset >= 0
  /\ InARow # nmemb(want.size)
  /\ cmemb' = InARow /\ offset' = offset - 1
  /\ UNCHANGED <<vars, label, want>>

\* Lines 96 to 102, and what the caller of my_mem_malloc does with the run.
Found ==
  /\ label = "92" /\ offset >= 0
  /\ InARow = nmemb(want.size)
  /\ \/ ~want.moves /\ Allocate(offset, want.size)
     \/ want.moves /\ \E any \in Byte : Move(offset, want.size, want.old, any)
  /\ Return

\* Line 105.
NotFound ==
  /\ label = "92" /\ offset < 0
  /\ Refuse(want.size) /\ Return

\* What the callers do between two requests.
Between == label = "idle" /\ (my_mem_init \/ myfree \/ Write) /\ UNCHANGED search

ScanNext ==
  \/ Call \/ MakeReady \/ Nothing \/ Begin \/ Continue \/ Found \/ NotFound
  \/ Between

ScanSpec == ScanInit /\ [][ScanNext]_<<vars, search>>

-----------------------------------------------------------------------------
(***************************************************************************)
(* Properties.                                                             *)
(***************************************************************************)

\* While the search runs, its request is still a proper one, the last cmemb cells are
\* free, the run cannot be extended upwards, and no run above holds the request: what
\* makes the first run found the uppermost one, and an end without one a proof that there
\* is none (malloc.c:88-105).
SearchInv ==
  /\ label \in {"idle", "88", "89", "92"}
  /\ label # "idle" => want.size \in Sizes /\ want.old \in Pointers
  /\ label \in {"89", "92"} => memrdy
  /\ label = "92" =>
       /\ want.size # 0
       /\ offset \in -1 .. memtblsize - 1
       /\ cmemb \in 0 .. nmemb(want.size) - 1
       /\ offset + cmemb < memtblsize
       /\ \A c \in offset + 1 .. offset + cmemb : memmap[c] = 0
       /\ offset + cmemb + 1 < memtblsize => memmap[offset + cmemb + 1] # 0
       /\ \A o \in offset + 1 .. memtblsize - 1 : ~Free(memmap, o, nmemb(want.size))

\* The search is what Malloc takes it for: each request is one of its steps.
ImplementsMalloc == Spec
=============================================================================
