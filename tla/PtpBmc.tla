------------------------------- MODULE PtpBmc -------------------------------
(***************************************************************************)
(* The choice of a master (PTPv2/src/bmc.c): comparison of data sets, the  *)
(* table of foreign masters and the recommended state.                     *)
(*                                                                         *)
(* A data set is what an Announce says: its sender `src', and the grand-   *)
(* master `gm' with its quality `prio' and its distance `steps'.  `prio'   *)
(* stands for the five fields that are compared in turn (priority1, class, *)
(* accuracy, variance, priority2); less is better.  Identities are numbers *)
(* in the order memcmp puts them.  The port number is 1 for every sender.  *)
(***************************************************************************)
EXTENDS Integers

CONSTANTS
  Own,        \* the data set of this clock (copyD0)
  Announces,  \* the data sets that other clocks announce
  Capacity    \* records of the table (DEFAULT_MAX_FOREIGN_RECORDS is 5)

DataSet == [src : Nat, gm : Nat, prio : Nat, steps : Nat]
Masters == {a.src : a \in Announces}

ASSUME DataSetAssumption  == /\ Own \in DataSet /\ Announces \subseteq DataSet
                             /\ Own.src \notin Masters \cup {0} /\ 0 \notin Masters
ASSUME CapacityAssumption == Capacity \in Nat \ {0}

\* clockClass < 128, in 128 .. 254, and 255, which goes with slaveOnly.
Classes == {"below128", "ordinary", "slaveOnly"}

Entries == 0 .. Capacity - 1

\* A record never written (static memory).
Blank == [src |-> 0, gm |-> 0, prio |-> 0, steps |-> 0]

\* foreignMasterDS.
ForeignType == [records : [Entries -> Announces \cup {Blank}], count : 0 .. Capacity,
                i : Entries, best : Entries]

-----------------------------------------------------------------------------
\* memcmp.
Compare(x, y) == IF x > y THEN -1 ELSE IF x < y THEN 1 ELSE 0

\* bmcDataSetComparison, figure 28: one grandmaster seen along two ways.
CompareWays(A, B) ==
  CASE A.steps > B.steps + 1 -> -1
    [] B.steps > A.steps + 1 -> 1
    [] A.steps > B.steps     -> IF A.src = Own.src THEN 0 ELSE -1
    [] A.steps < B.steps     -> IF B.src = Own.src THEN 0 ELSE 1
    [] OTHER                 -> Compare(A.src, B.src)

\* bmcDataSetComparison: 1 when A is better, -1 when B is.
bmcDataSetComparison(A, B) ==
  IF A.gm = B.gm THEN CompareWays(A, B)
  ELSE IF A.prio # B.prio THEN Compare(A.prio, B.prio)
  ELSE Compare(A.gm, B.gm)

-----------------------------------------------------------------------------
\* addForeign: the entries it looks at, from `best' on.  `best' is not reset with
\* `count', so the first one may be out of use.
Looked(fm, k) == IF k = 0 THEN fm.best ELSE (fm.best + k) % fm.count
Known(fm, src) == {k \in 0 .. fm.count - 1 : fm.records[Looked(fm, k)].src = src}

\* Fault: the table is never full.
addForeign_Overflows(fm, ds) ==
  IF \E k \in Known(fm, ds.src) : TRUE
  THEN LET k == CHOOSE k \in Known(fm, ds.src) : \A l \in Known(fm, ds.src) : k <= l
       IN  [fm EXCEPT !.records[Looked(fm, k)] = ds]
  ELSE [fm EXCEPT !.records[fm.i] = ds,
                  !.count = @ + 1,
                  !.i = (@ + 1) % Capacity]

\* addForeign: refresh the record of a known sender, or take the next entry.
addForeign(fm, ds) ==
  IF \E k \in Known(fm, ds.src) : TRUE
  THEN LET k == CHOOSE k \in Known(fm, ds.src) : \A l \in Known(fm, ds.src) : k <= l
       IN  [fm EXCEPT !.records[Looked(fm, k)] = ds]
  ELSE [fm EXCEPT !.records[fm.i] = ds,
                  !.count = IF @ < Capacity THEN @ + 1 ELSE @,
                  !.i = (@ + 1) % Capacity]

\* bmc: the search for the best record keeps the one that compares as less.
bestUpTo(fm) ==
  LET best[k \in Entries] ==
        IF k = 0 THEN 0
        ELSE IF bmcDataSetComparison(fm.records[k], fm.records[best[k - 1]]) < 0
             THEN k ELSE best[k - 1]
  IN  best[IF fm.count > 1 THEN fm.count - 1 ELSE 0]

\* bmc, with the state it returns: bmcStateDecision.
stateDecision(class, portState, fm, ds) ==
  CASE fm.count = 0 /\ portState = "LISTENING" -> "LISTENING"
    [] OTHER -> IF bmcDataSetComparison(Own, ds) = 1 THEN "MASTER"
                ELSE IF class = "below128" THEN "PASSIVE" ELSE "SLAVE"

\* doState: a slave-only clock listens instead.
recommend(class, state) ==
  IF class = "slaveOnly" /\ state \in {"MASTER", "PASSIVE"} THEN "LISTENING" ELSE state
=============================================================================
