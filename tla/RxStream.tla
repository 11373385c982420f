------------------------------ MODULE RxStream ------------------------------
(***************************************************************************)
(* What a receive path promises: the bytes of the line reach the callback  *)
(* in order, each once, in chunks no larger than a buffer, as long as no   *)
(* byte has been lost.  After a loss the contents of a chunk are open; its *)
(* size is not.                                                            *)
(***************************************************************************)
EXTENDS Integers, Sequences

CONSTANT ChunkMax

VARIABLES received, delivered, lost

streamVars == <<received, delivered, lost>>

Init == received = 0 /\ delivered = <<>> /\ lost = FALSE

\* The next byte comes; there may be no room for it.
Arrive ==
  /\ received' = received + 1
  /\ lost' \in {lost, TRUE}
  /\ UNCHANGED delivered

\* Unread bytes are overwritten.
Lose == lost' = TRUE /\ UNCHANGED <<received, delivered>>

\* The callback gets the next bytes.
Deliver ==
  /\ Len(delivered') \in Len(delivered) + 1 .. Len(delivered) + ChunkMax
  /\ \A i \in 1 .. Len(delivered) : delivered'[i] = delivered[i]
  /\ ~lost => /\ Len(delivered') <= received
              /\ \A i \in Len(delivered) + 1 .. Len(delivered') : delivered'[i] = i
  /\ UNCHANGED <<received, lost>>

Next == Arrive \/ Lose \/ Deliver

Spec == Init /\ [][Next]_streamVars
=============================================================================
