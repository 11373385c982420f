------------------------- MODULE UsartRxStepsProofs -------------------------
(***************************************************************************)
(* receive_str_manage, one statement at a time: when no handler comes in   *)
(* the middle of a piece it is the main loop of UsartRx, and a handler     *)
(* before line 99, 100 or 103 does no harm either, for every buffer size,  *)
(* every number of bytes and either interrupt order.                       *)
(***************************************************************************)
EXTENDS UsartRxSteps, UsartRxProofs

\* The labels at which a handler does no harm.
Safe == Rest \cup {"99", "100", "103"}

-----------------------------------------------------------------------------
(* The invariant, by the piece that is under way. *)

\* In the exchange: what is left of the state at line 70, field by field, and what
\* the tests of lines 70 and 72 have found there.
Exchange ==
  LET c == before.com
      h == before.huart
  IN  /\ before.pc = "poll"
      /\ ComOK(c) /\ HandleOK(h) /\ ~UsartPending(h) /\ ~DmaPending(h)
      /\ {PROCESSED, PENDING} \subseteq c.USART_State
      /\ PROCESSING \notin c.USART_State /\ FULL \notin c.USART_State
      /\ c.receive_count = 0
      /\ label # "72" => c.DMA_Receive_Size = h.NDTR
      /\ huart = IF label \in {"72", "81"} THEN h ELSE HAL_UART_DMAStop(h)
      /\ label \in {"84", "85"} => temp = c.DMA_buff
      /\ com.DMA_buff = IF label \in {"72", "81", "83", "84"} THEN c.DMA_buff ELSE c.buff
      /\ com.buff = IF label \in {"72", "81", "83", "84", "85"} THEN c.buff ELSE c.DMA_buff
      /\ com.DMA_Receive_Size =
           IF label \in {"72", "81", "83", "84", "85", "88"} THEN c.DMA_Receive_Size
                                                            ELSE USART_RECEIVE_MAX
      /\ com.USART_State = c.USART_State \
           CASE label = "94"                       -> {PROCESSED, PENDING}
             [] label \in {"91", "92", "93", "93="} -> {PROCESSED}
             [] OTHER                              -> {}
      /\ com.receive_count = IF label \in {"92", "93", "93=", "94"} THEN c.DMA_Receive_Count
                                                                   ELSE c.receive_count
      /\ com.DMA_Receive_Count = IF label \in {"93", "93=", "94"} THEN 0
                                                                 ELSE c.DMA_Receive_Count

\* After the callback: what is left of Handshake while the flags are changed.
Ending ==
  /\ DmaStaysInBuffer /\ Bookkeeping
  /\ com.DMA_Receive_Count > 0 => PENDING \in com.USART_State
  /\ PROCESSED \in com.USART_State => com.receive_count = 0
  /\ FULL \notin com.USART_State
  /\ label \in {"108", "108="} => com.receive_count = 0

\* A register that has been loaded is still what USART_State is.
Loaded == label \in {"90=", "93=", "99=", "103=", "108=", "110="} => reg = com.USART_State

StepsInv ==
  /\ TypeOK /\ pc = Stage(label) /\ label \in Labels /\ Loaded
  /\ label \in Rest => IInv /\ before = [com |-> com, huart |-> huart, pc |-> pc]
  /\ label \in Swap => Exchange
  /\ label = "72" => IInv
  /\ label \in {"99", "99="} => IInv /\ com.receive_count # 0
  /\ label = "100" => Kept
  /\ label \in {"103", "103="} => IInv /\ FULL \in com.USART_State
  /\ label = "107" => IInv /\ FULL \notin com.USART_State
  /\ label \in {"108", "108=", "110", "110="} => Ending

\* The bytes: in the exchange they are where they were at line 70.
BytesInv ==
  /\ label \notin Swap \ {"72"} => RestartsSucceed /\ StreamIntact
  /\ label \in Swap /\ ~lost =>
       LET n == before.com.DMA_Receive_Count + before.com.DMA_Receive_Size - before.huart.NDTR
       IN  /\ received = Len(delivered) + n
           /\ \A i \in 1 .. Len(delivered) : delivered[i] = i
           /\ \A i \in 0 .. n - 1 : mem[before.com.DMA_buff][i] = Len(delivered) + 1 + i

\* When no handler comes in the middle of a piece: what is left of the state at its
\* beginning.
PieceInv ==
  LET c == before.com
      h == before.huart
  IN  /\ label \in Call \cup Finish =>
           /\ c \in ComType /\ ~UsartPending(h) /\ ~DmaPending(h) /\ huart = h
           /\ com.buff = c.buff /\ com.DMA_buff = c.DMA_buff
           /\ com.DMA_Receive_Count = c.DMA_Receive_Count
           /\ com.DMA_Receive_Size = c.DMA_Receive_Size
      /\ label \in Call =>
           /\ before.pc = "test" /\ c.receive_count # 0 /\ com.receive_count = c.receive_count
           /\ com.USART_State = IF label = "100" THEN c.USART_State \cup {PROCESSING}
                                                 ELSE c.USART_State
      /\ label \in Finish =>
           /\ before.pc = "return"
           /\ label \in {"103", "103="} => FULL \in c.USART_State
           /\ label \in {"107", "108", "108="} => FULL \notin c.USART_State
           /\ com.receive_count =
                IF FULL \in c.USART_State \/ label = "107" THEN c.receive_count ELSE 0
           /\ com.USART_State =
                CASE label \notin {"110", "110="} -> c.USART_State
                  [] label \in {"110", "110="} /\ FULL \in c.USART_State ->
                       c.USART_State \ {FULL}
                  [] OTHER -> c.USART_State \cup {PROCESSED}

-----------------------------------------------------------------------------
(* Lemmas. *)

\* A STUsart is what its fields are.
LEMMA SameCom ==
  \A c, d \in ComType :
    /\ c.buff = d.buff /\ c.DMA_buff = d.DMA_buff /\ c.receive_count = d.receive_count
    /\ c.DMA_Receive_Count = d.DMA_Receive_Count /\ c.DMA_Receive_Size = d.DMA_Receive_Size
    /\ c.USART_State = d.USART_State
    => c = d
  BY SMT DEF ComType

\* Where the main loop is at each label.
LEMMA Stages ==
  /\ \A l \in Swap \cup {"70", "110", "110="} : Stage(l) = "poll"
  /\ \A l \in {"97", "99", "99="} : Stage(l) = "test"
  /\ \A l \in {"100", "callback"} : Stage(l) = "call"
  /\ \A l \in {"101", "103", "103=", "107", "108", "108="} : Stage(l) = "return"
  BY SMT DEF Stage, Swap, Call, Finish

\* Setting and clearing bits of USART_State changes nothing else.
LEMMA SetBits ==
  ASSUME NEW c \in ComType, NEW S \in SUBSET StateBits
  PROVE  LET d == [c EXCEPT !.USART_State = S]
         IN  /\ d \in ComType /\ d.USART_State = S
             /\ d.buff = c.buff /\ d.DMA_buff = c.DMA_buff
             /\ d.receive_count = c.receive_count
             /\ d.DMA_Receive_Count = c.DMA_Receive_Count
             /\ d.DMA_Receive_Size = c.DMA_Receive_Size
  <1>1. [c EXCEPT !.USART_State = S] \in ComType
    BY SetState
  <1>2. QED
    BY <1>1, SMT DEF ComType

\* What has to be shown when a label of each kind is reached.
LEMMA AtRest ==
  ASSUME label' \in Rest, pc' = Stage(label'), IInv',
         before' = [com |-> com', huart |-> huart', pc |-> pc']
  PROVE  StepsInv'
  <1>1. /\ label' \in Labels /\ label' \notin Swap /\ label' \notin {"99", "99=", "100"}
        /\ label' \notin {"103", "103=", "107", "108", "108=", "110", "110=", "72", "90=", "93="}
    BY SMT DEF Labels, Rest, Swap, Call, Finish
  <1>2. TypeOK'
    BY DEF IInv, Kept
  <1>3. QED
    BY <1>1, <1>2, Zenon DEF StepsInv, Loaded

\* A step into the exchange.
LEMMA InExchange ==
  ASSUME label' \in Swap, pc' = Stage(label'), TypeOK', Loaded', Exchange',
         label' = "72" => IInv'
  PROVE  StepsInv'
  <1>1. /\ label' \in Labels /\ label' \notin Rest /\ label' \notin {"99", "99=", "100"}
        /\ label' \notin {"103", "103=", "107", "108", "108=", "110", "110="}
    BY SMT DEF Labels, Rest, Swap, Call, Finish
  <1>2. QED
    BY <1>1, Zenon DEF StepsInv

\* A step to the mark that the callback is running.
LEMMA BeforeCall ==
  ASSUME label' \in {"99", "99="}, pc' = Stage(label'), IInv', com'.receive_count # 0, Loaded'
  PROVE  StepsInv'
  <1>1. /\ label' \in Labels /\ label' \notin Rest /\ label' \notin Swap
        /\ label' \notin {"100", "103", "103=", "107", "108", "108=", "110", "110=", "72"}
    BY SMT DEF Labels, Rest, Swap, Call, Finish
  <1>2. TypeOK'
    BY DEF IInv, Kept
  <1>3. QED
    BY <1>1, <1>2, Zenon DEF StepsInv

\* A step to the call itself; a handler may have taken buff over before.
LEMMA AtCall ==
  ASSUME label' = "100", pc' = Stage(label'), Kept'
  PROVE  StepsInv'
  <1>1. /\ label' \in Labels /\ label' \notin Rest /\ label' \notin Swap
        /\ label' \notin {"99", "99=", "103", "103=", "107", "108", "108=", "110", "110=", "72"}
        /\ label' \notin {"90=", "93=", "99=", "103=", "108=", "110="}
    BY SMT DEF Labels, Rest, Swap, Call, Finish
  <1>2. TypeOK'
    BY DEF Kept
  <1>3. QED
    BY <1>1, <1>2, Zenon DEF StepsInv, Loaded

\* A step to the first line after the callback.
LEMMA BeforeEnd ==
  ASSUME label' \in {"103", "103=", "107"}, pc' = Stage(label'), IInv', Loaded',
         label' = "107" <=> FULL \notin com'.USART_State
  PROVE  StepsInv'
  <1>1. /\ label' \in Labels /\ label' \notin Rest /\ label' \notin Swap
        /\ label' \notin {"99", "99=", "100", "108", "108=", "110", "110=", "72"}
        /\ label' \in {"103", "103="} <=> label' # "107"
    BY SMT DEF Labels, Rest, Swap, Call, Finish
  <1>2. TypeOK'
    BY DEF IInv, Kept
  <1>3. QED
    BY <1>1, <1>2, Zenon DEF StepsInv

\* A step to the last lines.
LEMMA InEnding ==
  ASSUME label' \in {"108", "108=", "110", "110="}, pc' = Stage(label'), TypeOK', Loaded', Ending'
  PROVE  StepsInv'
  <1>1. /\ label' \in Labels /\ label' \notin Rest /\ label' \notin Swap
        /\ label' \notin {"99", "99=", "100", "103", "103=", "107", "72"}
    BY SMT DEF Labels, Rest, Swap, Call, Finish
  <1>2. QED
    BY <1>1, Zenon DEF StepsInv

-----------------------------------------------------------------------------
(* The line and the handlers. *)

Handler ==
  \/ \E noisy \in BOOLEAN : ByteArrives(noisy)
  \/ LineIdle \/ USART_IRQHandler \/ DMA_IRQHandler

\* A handler leaves the main loop where it is, and takes back neither bytes that
\* wait for the callback nor the mark of a buffer that got full.
LEMMA HandlerKeeps ==
  ASSUME Kept, Handler
  PROVE  /\ pc' = pc
         /\ com.receive_count # 0 =>
              /\ com'.receive_count # 0
              /\ FULL \in com.USART_State => FULL \in com'.USART_State
  <1>1. /\ ComOK(com) /\ com \in ComType /\ com.buff # com.DMA_buff
        /\ InDmaBuff \in 0 .. USART_RECEIVE_MAX
    <2>1. ComOK(com) /\ InDmaBuff \in com.DMA_Receive_Count .. USART_RECEIVE_MAX
      BY KeptRecords
    <2>2. QED
      BY <2>1, SMT DEF ComOK, ComType
  <1>2. CASE (\E noisy \in BOOLEAN : ByteArrives(noisy)) \/ LineIdle
    BY <1>2 DEF ByteArrives, LineIdle
  <1>3. CASE USART_IRQHandler
    <2> DEFINE counted == [com EXCEPT !.DMA_Receive_Count = U16(InDmaBuff)]
    <2>1. /\ pc' = pc
          /\ \/ com' = com
             \/ PROCESSED \in com.USART_State
             \/ com' = Hold(counted)
      BY <1>3 DEF USART_IRQHandler
    <2>2. /\ counted \in ComType /\ counted.buff # counted.DMA_buff
          /\ counted.receive_count = com.receive_count
          /\ counted.USART_State = com.USART_State
      <3>1. U16(InDmaBuff) = InDmaBuff
        BY <1>1, NoWrap
      <3>2. counted \in ComType
        BY <1>1, <3>1, SetDMACount, Zenon
      <3>3. QED
        BY <1>1, <3>2, SMT DEF ComType
    <2> HIDE DEF counted
    <2>3. CASE PROCESSED \in com.USART_State
      <3>1. com.receive_count = 0
        BY <2>3 DEF Kept, Handshake
      <3>2. QED
        BY <2>1, <3>1
    <2>4. CASE com' = Hold(counted)
      <3>1. com'.receive_count = com.receive_count
            /\ com'.USART_State = com.USART_State \cup {PENDING}
        BY <2>2, <2>4, HoldLemma
      <3>2. QED
        BY <2>1, <3>1
    <2>5. QED
      BY <2>1, <2>3, <2>4
  <1>4. CASE DMA_IRQHandler
    <2>1. pc' = pc /\ (com' = com \/ com' = TakeFull(com))
      BY <1>4 DEF DMA_IRQHandler
    <2>2. CASE com' = TakeFull(com)
      <3>1. /\ com'.receive_count = USART_RECEIVE_MAX
            /\ com'.USART_State = (IF PROCESSING \in com.USART_State
                                   THEN com.USART_State \cup {FULL} ELSE com.USART_State)
                                    \ {PROCESSED}
        BY <1>1, <2>2, TakeFullLemma
      <3>2. FULL \in com.USART_State => FULL \in com'.USART_State
        BY <3>1, SMT DEF FULL, PROCESSED
      <3>3. QED
        BY <2>1, <3>1, <3>2, MaxAssumption, SMT
    <2>3. QED
      BY <2>1, <2>2
  <1>5. QED
    BY <1>2, <1>3, <1>4 DEF Handler

\* A handler before a label of Safe.
LEMMA PreemptStep ==
  ASSUME Open \subseteq Safe, StepsInv, StepsNext, Preempt
  PROVE  StepsInv'
  <1>1. /\ label \in Rest \cup {"99", "100", "103"} /\ label' = label
        /\ pc = Stage(label) /\ Handler
    BY DEF Preempt, Safe, StepsInv, Handler
  <1>2. label' \in Rest => before' = [com |-> com', huart |-> huart', pc |-> pc']
    BY DEF StepsNext
  <1>3. [Next]_vars
    BY <1>1 DEF Handler, Next
  <1>4. CASE label \in Rest
    <2>1. IInv
      BY <1>4 DEF StepsInv
    <2>2. IInv' /\ pc' = pc
      BY <1>1, <1>3, <2>1, NextStep, HandlerKeeps DEF IInv
    <2>3. QED
      BY <1>1, <1>2, <1>4, <2>2, AtRest
  <1>5. CASE label = "99"
    <2>1. IInv /\ com.receive_count # 0
      BY <1>5 DEF StepsInv
    <2>2. IInv' /\ pc' = pc /\ com'.receive_count # 0
      BY <1>1, <1>3, <2>1, NextStep, HandlerKeeps DEF IInv
    <2>3. Loaded'
      BY <1>1, <1>5, SMT DEF Loaded
    <2>4. QED
      BY <1>1, <1>5, <2>2, <2>3, BeforeCall
  <1>6. CASE label = "100"
    <2>1. Kept
      BY <1>6 DEF StepsInv
    <2>2. Kept' /\ pc' = pc
      BY <1>1, <1>3, <2>1, KeptStep, HandlerKeeps
    <2>3. QED
      BY <1>1, <1>6, <2>2, AtCall
  <1>7. CASE label = "103"
    <2>1. IInv /\ FULL \in com.USART_State
      BY <1>7 DEF StepsInv
    <2>2. com.receive_count # 0
      BY <2>1, MaxAssumption, SMT DEF IInv, Kept, Handshake
    <2>3. IInv' /\ pc' = pc /\ FULL \in com'.USART_State
      BY <1>1, <1>3, <2>1, <2>2, NextStep, HandlerKeeps DEF IInv
    <2>4. Loaded'
      BY <1>1, <1>7, SMT DEF Loaded
    <2>5. QED
      BY <1>1, <1>7, <2>3, <2>4, BeforeEnd
  <1>8. QED
    BY <1>1, <1>4, <1>5, <1>6, <1>7

-----------------------------------------------------------------------------
(* The steps of receive_str_manage, piece by piece. *)

\* The exchange of the buffers, up to the restart.
LEMMA ExchangeBegins ==
  ASSUME StepsInv, StepsNext, Test("70", IF Swappable THEN "72" ELSE "97")
  PROVE  StepsInv'
  <1>1. label = "70" /\ pc = "poll" /\ IInv /\ before = [com |-> com, huart |-> huart, pc |-> pc]
    BY Stages, SMT DEF Test, From, StepsInv, Rest
  <1>2. NoIrq /\ UNCHANGED <<com, huart, line, mem, arg, received, delivered, lost, temp, reg>>
    BY <1>1, OpenAssumption, SMT DEF Test, From, Rest
  <1>3. CASE Swappable
    <2>1. label' = "72" /\ pc' = pc /\ before' = before
      BY <1>1, <1>3, Stages, SMT DEF Test, From, StepsNext, Rest, Swap
    <2>2. IInv'
      BY <1>1, <1>2, <2>1, NextStep DEF vars
    <2>3. /\ ComOK(com) /\ HandleOK(huart) /\ com.receive_count = 0
          /\ PROCESSING \notin com.USART_State /\ FULL \notin com.USART_State
      <3>1. PROCESSED \in com.USART_State
        BY <1>3 DEF Swappable
      <3>2. QED
        BY <1>1, <3>1, KeptRecords, SMT DEF IInv, Kept, Handshake
    <2>4. Exchange'
      BY <1>1, <1>2, <1>3, <2>1, <2>3, SMT DEF Exchange, NoIrq, Swappable
    <2>5. QED
      BY <1>1, <2>1, <2>2, <2>4, InExchange, Stages, SMT DEF Swap, Loaded, IInv, Kept
  <1>4. CASE ~Swappable
    <2>1. label' = "97" /\ pc' = "test"
      BY <1>4, Stages, SMT DEF Test, From
    <2>2. ManageSwap
      BY <1>1, <1>2, <1>4, <2>1, Zenon DEF ManageSwap, Swappable
    <2>3. IInv'
      BY <1>1, <2>2, NextStep DEF Next, Manage
    <2>4. QED
      BY <2>1, <2>3, AtRest, Stages, Zenon DEF Rest, StepsNext
  <1>5. QED
    BY <1>3, <1>4

\* The test of NDTR.
LEMMA ExchangeTests ==
  ASSUME Open \subseteq Safe, StepsInv, StepsNext, Test("72", IF Unmoved THEN "81" ELSE "97")
  PROVE  StepsInv'
  <1>1. label = "72" /\ pc = "poll" /\ IInv /\ Exchange
    BY Stages, SMT DEF Test, From, StepsInv, Swap
  <1>2. UNCHANGED <<com, huart, line, mem, arg, received, delivered, lost, temp, reg>>
    BY DEF Test, From
  <1>3. CASE Unmoved
    <2>1. label' = "81" /\ pc' = pc /\ before' = before
      BY <1>1, <1>3, Stages, SMT DEF Test, From, StepsNext, Rest, Swap
    <2>2. Exchange'
      <3>1. com.DMA_Receive_Size = huart.NDTR
        BY <1>3 DEF Unmoved
      <3>2. QED
        BY <1>1, <1>2, <2>1, <3>1, SMT DEF Exchange
    <2>3. TypeOK'
      BY <1>1, <1>2, <2>1, Zenon DEF IInv, Kept, TypeOK
    <2>4. QED
      BY <1>1, <2>1, <2>2, <2>3, InExchange, Stages, SMT DEF Swap, Loaded
  <1>4. CASE ~Unmoved
    <2>1. label' = "97" /\ pc' = "test"
      BY <1>4, Stages, SMT DEF Test, From
    <2>2. NoIrq
      BY <1>1, SMT DEF Exchange, NoIrq
    <2>3. ManageSwap
      BY <1>1, <1>2, <1>4, <2>1, <2>2, Zenon DEF ManageSwap, Unmoved
    <2>4. IInv'
      BY <1>1, <2>3, NextStep DEF Next, Manage
    <2>5. QED
      BY <2>1, <2>4, AtRest, Stages, Zenon DEF Rest, StepsNext
  <1>5. QED
    BY <1>3, <1>4

\* A statement of the exchange moves neither bytes nor what the tests have found.
LEMMA ExchangeMoves ==
  ASSUME StepsInv, StepsNext, NEW l \in Swap, NEW m \in Swap, m # "72", From(l, m), Loaded',
         com' \in ComType, huart' \in HandleType, UNCHANGED <<arg, delivered>>,
         Exchange /\ before' = before /\ label = l /\ label' = m => Exchange'
  PROVE  StepsInv'
  <1>1. /\ label = l /\ label' = m /\ pc' = Stage(m) /\ pc' = "poll" /\ Exchange /\ TypeOK
        /\ UNCHANGED <<line, mem, received, lost>>
    BY Stages DEF From, StepsInv
  <1>2. before' = before
    BY <1>1, SMT DEF StepsNext, Rest, Swap
  <1>3. TypeOK'
    BY <1>1, Zenon DEF TypeOK
  <1>4. QED
    BY <1>1, <1>2, <1>3, InExchange

\* Lines 81 to 94: the stream is stopped, and the fields change one by one.
LEMMA ExchangeSteps ==
  ASSUME StepsInv, StepsNext,
         \/ From("81", "83") /\ huart' = HAL_UART_DMAStop(huart)
              /\ UNCHANGED <<com, arg, delivered, temp, reg>>
         \/ From("83", "84") /\ temp' = com.DMA_buff
              /\ UNCHANGED <<com, huart, arg, delivered, reg>>
         \/ Assign("84", "85", [com EXCEPT !.DMA_buff = com.buff])
         \/ Assign("85", "88", [com EXCEPT !.buff = temp])
         \/ Assign("88", "90", [com EXCEPT !.DMA_Receive_Size = USART_RECEIVE_MAX])
         \/ Modify("90", "90=", "91", {}, {PROCESSED})
         \/ Assign("91", "92", [com EXCEPT !.receive_count = com.DMA_Receive_Count])
         \/ Assign("92", "93", [com EXCEPT !.DMA_Receive_Count = 0])
         \/ Modify("93", "93=", "94", {}, {PENDING})
  PROVE  StepsInv'
  <1>1. /\ com \in ComType /\ huart \in HandleType /\ Loaded
        /\ label \in Swap => Exchange
    BY DEF StepsInv, TypeOK
  <1>2. /\ com.buff \in Buffers /\ com.DMA_buff \in Buffers
        /\ com.DMA_Receive_Count \in 0 .. USART_RECEIVE_MAX
        /\ USART_RECEIVE_MAX \in 0 .. USART_RECEIVE_MAX /\ 0 \in 0 .. USART_RECEIVE_MAX
        /\ com.USART_State \in SUBSET StateBits
    BY <1>1, MaxAssumption, SMT DEF ComType
  <1>3. \A S \in SUBSET StateBits : (com.USART_State \cup {}) \ S \in SUBSET StateBits
    BY <1>2
  <1>4. /\ \A l \in {"81", "83", "84", "85", "88", "90", "90=", "91", "92", "93", "93=", "94"} :
             l \in Swap /\ l # "72"
    BY SMT DEF Swap
  <1>5. CASE From("81", "83") /\ huart' = HAL_UART_DMAStop(huart)
              /\ UNCHANGED <<com, arg, delivered, temp, reg>>
    <2>1. label = "81" /\ label' = "83" /\ Exchange
      BY <1>1, <1>4, <1>5 DEF From
    <2>2. huart' \in HandleType
      <3>1. HandleOK(huart)
        BY <2>1, SMT DEF Exchange
      <3>2. QED
        BY <1>5, <3>1, StopLemma DEF HandleOK
    <2>3. Exchange /\ before' = before => Exchange'
      BY <1>5, <2>1, SMT DEF Exchange
    <2>4. Loaded'
      BY <2>1, SMT DEF Loaded
    <2>5. QED
      BY <1>1, <1>4, <1>5, <2>2, <2>3, <2>4, ExchangeMoves
  <1>6. CASE From("83", "84") /\ temp' = com.DMA_buff
              /\ UNCHANGED <<com, huart, arg, delivered, reg>>
    <2>1. label = "83" /\ label' = "84"
      BY <1>6 DEF From
    <2>2. Exchange /\ before' = before => Exchange'
      BY <1>6, <2>1, SMT DEF Exchange
    <2>3. Loaded'
      BY <2>1, SMT DEF Loaded
    <2>4. QED
      BY <1>1, <1>4, <1>6, <2>2, <2>3, ExchangeMoves
  <1>7. CASE Assign("84", "85", [com EXCEPT !.DMA_buff = com.buff])
    <2>1. /\ label = "84" /\ label' = "85" /\ com' = [com EXCEPT !.DMA_buff = com.buff]
          /\ UNCHANGED <<huart, arg, delivered, temp, reg>> /\ From("84", "85")
      BY <1>7 DEF Assign, From
    <2>2. com' \in ComType
      BY <1>1, <1>2, <2>1, SetDMABuff, Zenon
    <2>3. Exchange /\ before' = before => Exchange'
      BY <1>1, <2>1, SMT DEF Exchange, ComType
    <2>4. Loaded'
      BY <2>1, SMT DEF Loaded
    <2>5. QED
      BY <1>1, <1>4, <2>1, <2>2, <2>3, <2>4, ExchangeMoves
  <1>8. CASE Assign("85", "88", [com EXCEPT !.buff = temp])
    <2>1. /\ label = "85" /\ label' = "88" /\ com' = [com EXCEPT !.buff = temp]
          /\ UNCHANGED <<huart, arg, delivered, temp, reg>> /\ From("85", "88")
      BY <1>8 DEF Assign, From
    <2>2. Exchange
      BY <1>1, <1>4, <2>1
    <2>3. temp = before.com.DMA_buff /\ before.com.DMA_buff \in Buffers
      BY <2>1, <2>2, SMT DEF Exchange, ComOK, ComType
    <2>4. com' \in ComType
      BY <1>1, <2>1, <2>3, SetBuff, Zenon
    <2>5. Exchange /\ before' = before => Exchange'
      BY <1>1, <2>1, <2>3, SMT DEF Exchange, ComType
    <2>6. Loaded'
      BY <2>1, SMT DEF Loaded
    <2>7. QED
      BY <1>1, <1>4, <2>1, <2>4, <2>5, <2>6, ExchangeMoves
  <1>9. CASE Assign("88", "90", [com EXCEPT !.DMA_Receive_Size = USART_RECEIVE_MAX])
    <2>1. /\ label = "88" /\ label' = "90"
          /\ com' = [com EXCEPT !.DMA_Receive_Size = USART_RECEIVE_MAX]
          /\ UNCHANGED <<huart, arg, delivered, temp, reg>> /\ From("88", "90")
      BY <1>9 DEF Assign, From
    <2>2. com' \in ComType
      BY <1>1, <1>2, <2>1, SetDMASize, Zenon
    <2>3. Exchange /\ before' = before => Exchange'
      BY <1>1, <2>1, SMT DEF Exchange, ComType
    <2>4. Loaded'
      BY <2>1, SMT DEF Loaded
    <2>5. QED
      BY <1>1, <1>4, <2>1, <2>2, <2>3, <2>4, ExchangeMoves
  <1>10. CASE Assign("91", "92", [com EXCEPT !.receive_count = com.DMA_Receive_Count])
    <2>1. /\ label = "91" /\ label' = "92"
          /\ com' = [com EXCEPT !.receive_count = com.DMA_Receive_Count]
          /\ UNCHANGED <<huart, arg, delivered, temp, reg>> /\ From("91", "92")
      BY <1>10 DEF Assign, From
    <2>2. com' \in ComType
      BY <1>1, <1>2, <2>1, SetReceiveCount, Zenon
    <2>3. Exchange /\ before' = before => Exchange'
      BY <1>1, <2>1, SMT DEF Exchange, ComType
    <2>4. Loaded'
      BY <2>1, SMT DEF Loaded
    <2>5. QED
      BY <1>1, <1>4, <2>1, <2>2, <2>3, <2>4, ExchangeMoves
  <1>11. CASE Assign("92", "93", [com EXCEPT !.DMA_Receive_Count = 0])
    <2>1. /\ label = "92" /\ label' = "93" /\ com' = [com EXCEPT !.DMA_Receive_Count = 0]
          /\ UNCHANGED <<huart, arg, delivered, temp, reg>> /\ From("92", "93")
      BY <1>11 DEF Assign, From
    <2>2. com' \in ComType
      BY <1>1, <1>2, <2>1, SetDMACount, Zenon
    <2>3. Exchange /\ before' = before => Exchange'
      BY <1>1, <2>1, SMT DEF Exchange, ComType
    <2>4. Loaded'
      BY <2>1, SMT DEF Loaded
    <2>5. QED
      BY <1>1, <1>4, <2>1, <2>2, <2>3, <2>4, ExchangeMoves
  <1>12. CASE Modify("90", "90=", "91", {}, {PROCESSED})
    <2>1. CASE From("90", "90=") /\ reg' = com.USART_State
                 /\ UNCHANGED <<com, huart, arg, delivered, temp>>
      <3>1. label = "90" /\ label' = "90="
        BY <2>1 DEF From
      <3>2. Exchange /\ before' = before => Exchange'
        BY <2>1, <3>1, SMT DEF Exchange
      <3>3. Loaded'
        BY <2>1 DEF Loaded
      <3>4. QED
        BY <1>1, <1>4, <2>1, <3>2, <3>3, ExchangeMoves
    <2>2. CASE Assign("90=", "91", [com EXCEPT !.USART_State = (reg \cup {}) \ {PROCESSED}])
      <3>1. /\ label = "90=" /\ label' = "91"
            /\ UNCHANGED <<huart, arg, delivered, temp, reg>> /\ From("90=", "91")
        BY <2>2 DEF Assign, From
      <3>2. reg = com.USART_State
        BY <1>1, <3>1, SMT DEF Loaded
      <3>3. /\ com' = [com EXCEPT !.USART_State = (com.USART_State \cup {}) \ {PROCESSED}]
            /\ (com.USART_State \cup {}) \ {PROCESSED} \in SUBSET StateBits
        BY <1>2, <2>2, <3>2 DEF Assign
      <3>4. /\ com' \in ComType
            /\ com'.USART_State = (com.USART_State \cup {}) \ {PROCESSED}
            /\ com'.buff = com.buff /\ com'.DMA_buff = com.DMA_buff
            /\ com'.receive_count = com.receive_count
            /\ com'.DMA_Receive_Count = com.DMA_Receive_Count
            /\ com'.DMA_Receive_Size = com.DMA_Receive_Size
        BY <1>1, <3>3, SetBits
      <3>5. Exchange /\ before' = before => Exchange'
        BY <3>1, <3>4, SMT DEF Exchange
      <3>6. Loaded'
        BY <3>1, SMT DEF Loaded
      <3>7. QED
        BY <1>1, <1>4, <3>1, <3>4, <3>5, <3>6, ExchangeMoves
    <2>3. QED
      BY <1>12, <2>1, <2>2 DEF Modify
  <1>13. CASE Modify("93", "93=", "94", {}, {PENDING})
    <2>1. CASE From("93", "93=") /\ reg' = com.USART_State
                 /\ UNCHANGED <<com, huart, arg, delivered, temp>>
      <3>1. label = "93" /\ label' = "93="
        BY <2>1 DEF From
      <3>2. Exchange /\ before' = before => Exchange'
        BY <2>1, <3>1, SMT DEF Exchange
      <3>3. Loaded'
        BY <2>1 DEF Loaded
      <3>4. QED
        BY <1>1, <1>4, <2>1, <3>2, <3>3, ExchangeMoves
    <2>2. CASE Assign("93=", "94", [com EXCEPT !.USART_State = (reg \cup {}) \ {PENDING}])
      <3>1. /\ label = "93=" /\ label' = "94"
            /\ UNCHANGED <<huart, arg, delivered, temp, reg>> /\ From("93=", "94")
        BY <2>2 DEF Assign, From
      <3>2. reg = com.USART_State
        BY <1>1, <3>1, SMT DEF Loaded
      <3>3. /\ com' = [com EXCEPT !.USART_State = (com.USART_State \cup {}) \ {PENDING}]
            /\ (com.USART_State \cup {}) \ {PENDING} \in SUBSET StateBits
        BY <1>2, <2>2, <3>2 DEF Assign
      <3>4. /\ com' \in ComType
            /\ com'.USART_State = (com.USART_State \cup {}) \ {PENDING}
            /\ com'.buff = com.buff /\ com'.DMA_buff = com.DMA_buff
            /\ com'.receive_count = com.receive_count
            /\ com'.DMA_Receive_Count = com.DMA_Receive_Count
            /\ com'.DMA_Receive_Size = com.DMA_Receive_Size
        BY <1>1, <3>3, SetBits
      <3>5. Exchange /\ before' = before => Exchange'
        BY <3>1, <3>4, SMT DEF Exchange
      <3>6. Loaded'
        BY <3>1, SMT DEF Loaded
      <3>7. QED
        BY <1>1, <1>4, <3>1, <3>4, <3>5, <3>6, ExchangeMoves
    <2>3. QED
      BY <1>13, <2>1, <2>2 DEF Modify
  <1>14. QED
    BY <1>5, <1>6, <1>7, <1>8, <1>9, <1>10, <1>11, <1>12, <1>13

Restart ==
  /\ From("94", "97")
  /\ huart' = HAL_UART_Receive_DMA(huart, com.DMA_buff, 0, com.DMA_Receive_Size)
  /\ UNCHANGED <<com, arg, delivered, temp, reg>>

\* Line 94 restarts the reception on the buffer that the callback is done with.
LEMMA RestartDone ==
  ASSUME StepsInv, Restart
  PROVE  LET c == before.com
             h == before.huart
         IN  /\ com' = com /\ com = HandOver(c) /\ huart = HAL_UART_DMAStop(h) /\ ComOK(com)
             /\ com.buff = c.DMA_buff /\ com.DMA_buff = c.buff
             /\ com.receive_count = c.DMA_Receive_Count
             /\ com.DMA_Receive_Count = 0 /\ com.DMA_Receive_Size = USART_RECEIVE_MAX
             /\ com.USART_State = c.USART_State \ {PROCESSED, PENDING}
             /\ HandleOK(huart') /\ ~huart'.IDLE
             /\ huart'.RxState = "BUSY_RX" /\ huart'.DMAState = "BUSY"
             /\ huart'.M0AR = com.DMA_buff /\ huart'.at = 0 /\ huart'.NDTR = USART_RECEIVE_MAX
  <1> DEFINE c == before.com
             h == before.huart
  <1>1. label = "94" /\ Exchange /\ com \in ComType
    BY SMT DEF Restart, From, StepsInv, Swap, TypeOK
  <1>2. /\ ComOK(c) /\ HandleOK(h) /\ ~UsartPending(h) /\ ~DmaPending(h)
        /\ huart = HAL_UART_DMAStop(h)
        /\ com.buff = c.DMA_buff /\ com.DMA_buff = c.buff
        /\ com.receive_count = c.DMA_Receive_Count
        /\ com.DMA_Receive_Count = 0 /\ com.DMA_Receive_Size = USART_RECEIVE_MAX
        /\ com.USART_State = c.USART_State \ {PROCESSED, PENDING}
    BY <1>1, SMT DEF Exchange
  <1>3. ComOK(HandOver(c)) /\ com = HandOver(c)
    <2>1. c \in ComType /\ c.buff # c.DMA_buff
      BY <1>2 DEF ComOK
    <2>2. LET r == HandOver(c)
          IN  /\ ComOK(r)
              /\ r.buff = c.DMA_buff /\ r.DMA_buff = c.buff
              /\ r.receive_count = c.DMA_Receive_Count
              /\ r.DMA_Receive_Size = USART_RECEIVE_MAX /\ r.DMA_Receive_Count = 0
              /\ r.USART_State = c.USART_State \ {PROCESSED, PENDING}
      BY <2>1, HandOverLemma
    <2>3. HandOver(c) \in ComType
      BY <2>2 DEF ComOK
    <2>4. QED
      BY <1>1, <1>2, <2>2, <2>3, SameCom
  <1>4. h.DMAState # "ABORT" /\ ~h.IDLE
    BY <1>2 DEF UsartPending, DmaPending
  <1>5. HandleOK(huart) /\ huart.RxState = "READY" /\ huart.DMAState = "READY" /\ ~huart.IDLE
    BY <1>2, <1>4, StopLemma
  <1>6. /\ com.DMA_buff \in Buffers
        /\ 0 \in 0 .. USART_RECEIVE_MAX /\ USART_RECEIVE_MAX \in 0 .. USART_RECEIVE_MAX
        /\ USART_RECEIVE_MAX # 0
    BY <1>1, MaxAssumption, SMT DEF ComType
  <1>7. huart' = HAL_UART_Receive_DMA(huart, com.DMA_buff, 0, USART_RECEIVE_MAX) /\ com' = com
    BY <1>2 DEF Restart
  <1>8. /\ HandleOK(huart') /\ ~huart'.IDLE
        /\ huart'.RxState = "BUSY_RX" /\ huart'.DMAState = "BUSY"
        /\ huart'.M0AR = com.DMA_buff /\ huart'.at = 0 /\ huart'.NDTR = USART_RECEIVE_MAX
    BY <1>5, <1>6, <1>7, ReceiveLemma
  <1>9. QED
    BY <1>2, <1>3, <1>7, <1>8

\* The restart of the reception at line 94 ends the exchange.
LEMMA ExchangeEnds ==
  ASSUME StepsInv, StepsNext, Restart
  PROVE  StepsInv'
  <1>1. /\ com' = com /\ ComOK(com)
        /\ com.DMA_Receive_Count = 0 /\ com.DMA_Receive_Size = USART_RECEIVE_MAX
        /\ com.USART_State = before.com.USART_State \ {PROCESSED, PENDING}
        /\ HandleOK(huart')
        /\ huart'.RxState = "BUSY_RX" /\ huart'.DMAState = "BUSY"
        /\ huart'.M0AR = com.DMA_buff /\ huart'.at = 0 /\ huart'.NDTR = USART_RECEIVE_MAX
    BY RestartDone
  <1>2. /\ label' = "97" /\ pc' = "test" /\ TypeOK
        /\ UNCHANGED <<line, mem, arg, received, delivered, lost>>
        /\ PROCESSING \notin before.com.USART_State /\ FULL \notin before.com.USART_State
    BY Stages, SMT DEF Restart, From, StepsInv, Exchange, Swap
  <1>3. TypeOK'
    BY <1>1, <1>2, Zenon DEF TypeOK, ComOK, HandleOK
  <1>4. DmaStaysInBuffer'
    BY <1>1, MaxAssumption, SMT DEF DmaStaysInBuffer, InDmaBuff, ComOK
  <1>5. /\ PROCESSING \notin com'.USART_State /\ FULL \notin com'.USART_State
        /\ PROCESSED \notin com'.USART_State /\ ~(com'.DMA_Receive_Count > 0)
    BY <1>1, <1>2, SMT
  <1>6. Handshake' /\ Argument'
    BY <1>2, <1>5, Zenon DEF Handshake, Argument
  <1>7. Bookkeeping'
    BY <1>1, MaxAssumption, SMT DEF Bookkeeping
  <1>8. IInv'
    BY <1>3, <1>4, <1>6, <1>7 DEF IInv, Kept
  <1>9. QED
    BY <1>2, <1>8, AtRest, Stages, Zenon DEF Rest, StepsNext

\* The tests and the call of the callback.
LEMMA CallTests ==
  ASSUME StepsInv, StepsNext, Test("97", IF com.receive_count # 0 THEN "99" ELSE "70")
  PROVE  StepsInv'
  <1>1. label = "97" /\ pc = "test" /\ IInv /\ NoIrq
        /\ UNCHANGED <<com, huart, line, mem, arg, received, delivered, lost, reg>>
    BY Stages, OpenAssumption, SMT DEF Test, From, StepsInv, Rest
  <1>2. CASE com.receive_count # 0
    <2>1. label' = "99" /\ pc' = pc
      BY <1>1, <1>2, Stages, SMT DEF Test, From
    <2>2. IInv'
      BY <1>1, <2>1, NextStep DEF vars
    <2>3. QED
      BY <1>1, <1>2, <2>1, <2>2, BeforeCall, Stages, SMT DEF Loaded
  <1>3. CASE com.receive_count = 0
    <2>1. label' = "70" /\ pc' = "poll"
      BY <1>3, Stages, SMT DEF Test, From
    <2>2. ManageCall
      BY <1>1, <1>3, <2>1, Zenon DEF ManageCall
    <2>3. IInv'
      BY <1>1, <2>2, NextStep DEF Next, Manage
    <2>4. QED
      BY <2>1, <2>3, AtRest, Stages, Zenon DEF Rest, StepsNext
  <1>4. QED
    BY <1>2, <1>3

\* The store of line 99: the callback is marked as running.
LEMMA CallMarks ==
  ASSUME StepsInv, StepsNext,
         Assign("99=", "100", [com EXCEPT !.USART_State = (reg \cup {PROCESSING}) \ {}])
  PROVE  StepsInv' /\ UNCHANGED <<huart, line, mem, arg, received, delivered, lost>>
         /\ label = "99=" /\ label' = "100" /\ pc = "test" /\ pc' = "call"
         /\ com'.buff = com.buff /\ com'.DMA_buff = com.DMA_buff
         /\ com'.receive_count = com.receive_count
         /\ com'.DMA_Receive_Count = com.DMA_Receive_Count
         /\ com'.DMA_Receive_Size = com.DMA_Receive_Size
         /\ com'.USART_State = com.USART_State \cup {PROCESSING}
         /\ FULL \notin com'.USART_State
  <1>1. /\ label = "99=" /\ label' = "100" /\ pc = "test" /\ pc' = "call" /\ pc' = Stage(label')
        /\ IInv /\ com.receive_count # 0 /\ reg = com.USART_State
        /\ UNCHANGED <<huart, line, mem, arg, received, delivered, lost>>
    BY Stages, SMT DEF Assign, From, StepsInv, Loaded
  <1>2. /\ com \in ComType /\ PROCESSING \notin com.USART_State /\ FULL \notin com.USART_State
    BY <1>1, SMT DEF IInv, Kept, TypeOK, Handshake
  <1>3. com' = [com EXCEPT !.USART_State = com.USART_State \cup {PROCESSING}]
    <2>1. (reg \cup {PROCESSING}) \ {} = com.USART_State \cup {PROCESSING}
      BY <1>1
    <2>2. QED
      BY <2>1 DEF Assign
  <1>4. com.USART_State \cup {PROCESSING} \in SUBSET StateBits
    BY <1>2, SMT DEF ComType, StateBits
  <1>5. /\ com' \in ComType /\ com'.USART_State = com.USART_State \cup {PROCESSING}
        /\ com'.buff = com.buff /\ com'.DMA_buff = com.DMA_buff
        /\ com'.receive_count = com.receive_count
        /\ com'.DMA_Receive_Count = com.DMA_Receive_Count
        /\ com'.DMA_Receive_Size = com.DMA_Receive_Size
    BY <1>2, <1>3, <1>4, SetBits
  <1>6. TypeOK'
    BY <1>1, <1>5, Zenon DEF IInv, Kept, TypeOK
  <1>7. DmaStaysInBuffer' /\ Bookkeeping'
    BY <1>1, <1>5, SMT DEF IInv, Kept, DmaStaysInBuffer, Bookkeeping, Running, InDmaBuff
  <1>8. /\ PROCESSING \in com'.USART_State
        /\ \A x \in {PROCESSED, FULL} : x \in com'.USART_State <=> x \in com.USART_State
    BY <1>5, SMT DEF PROCESSING, FULL, PROCESSED
  <1>9. Handshake'
    BY <1>1, <1>2, <1>5, <1>8, Zenon DEF IInv, Kept, Handshake
  <1>10. StepsInv'
    BY <1>1, <1>6, <1>7, <1>9, AtCall DEF Kept
  <1>11. QED
    BY <1>1, <1>2, <1>5, <1>8, <1>10

\* Line 99, the load.
LEMMA CallLoads ==
  ASSUME StepsInv, StepsNext, From("99", "99="), reg' = com.USART_State,
         UNCHANGED <<com, huart, arg, delivered, temp>>
  PROVE  StepsInv' /\ UNCHANGED vars
  <1>1. /\ label' = "99=" /\ pc' = pc /\ IInv /\ com.receive_count # 0
        /\ UNCHANGED <<line, mem, received, lost>>
    BY Stages, SMT DEF From, StepsInv
  <1>2. UNCHANGED vars
    BY <1>1 DEF vars
  <1>3. IInv'
    BY <1>1, <1>2, NextStep
  <1>4. Loaded'
    BY DEF Loaded
  <1>5. QED
    BY <1>1, <1>2, <1>3, <1>4, BeforeCall DEF From

\* A buffer that gets full before line 100 is given to the callback instead.
LEMMA CallStarts ==
  ASSUME StepsInv, StepsNext, From("100", "callback"),
         arg' = [buf |-> com.buff, len |-> com.receive_count],
         UNCHANGED <<com, huart, delivered, temp, reg>>
  PROVE  StepsInv' /\ label = "100" /\ pc = "call" /\ pc' = "call"
  <1>1. /\ label = "100" /\ label' = "callback" /\ pc = "call" /\ pc' = "call" /\ Kept
        /\ UNCHANGED <<line, mem, received, lost>>
    BY Stages, SMT DEF From, StepsInv
  <1>2. /\ com \in ComType /\ com.receive_count # 0
    BY <1>1, SMT DEF Kept, TypeOK, Handshake
  <1>3. arg' \in ArgType /\ arg'.len = com.receive_count
    BY <1>2, SMT DEF ComType, ArgType
  <1>4. TypeOK'
    BY <1>1, <1>3, Zenon DEF Kept, TypeOK
  <1>5. DmaStaysInBuffer' /\ Handshake' /\ Bookkeeping'
    BY <1>1, Zenon DEF Kept, DmaStaysInBuffer, Handshake, Bookkeeping, Running, InDmaBuff
  <1>6. Argument'
    BY <1>1, <1>2, <1>3, Zenon DEF Argument
  <1>7. IInv'
    BY <1>4, <1>5, <1>6 DEF IInv, Kept
  <1>8. QED
    BY <1>1, <1>7, AtRest, Stages, SMT DEF Rest, StepsNext

\* The callback is the Callback of UsartRx.
LEMMA CallbackRuns ==
  ASSUME StepsInv, StepsNext, From("callback", "101"),
         delivered' = delivered \o [i \in 1 .. arg.len |-> mem[arg.buf][i - 1]],
         UNCHANGED <<com, huart, arg, temp, reg>>
  PROVE  StepsInv' /\ Callback /\ IInv
  <1>1. /\ label' = "101" /\ pc = "call" /\ pc' = "return" /\ IInv /\ NoIrq
        /\ UNCHANGED <<line, mem, received, lost>>
    BY Stages, OpenAssumption, SMT DEF From, StepsInv, Rest
  <1>2. Callback
    BY <1>1, Zenon DEF Callback
  <1>3. IInv'
    BY <1>1, <1>2, NextStep DEF Next, Manage
  <1>4. QED
    BY <1>1, <1>2, <1>3, AtRest, Stages, SMT DEF Rest, StepsNext

\* After the callback.
LEMMA FinishTests ==
  ASSUME StepsInv, StepsNext, Test("101", IF FULL \in com.USART_State THEN "103" ELSE "107")
  PROVE  StepsInv' /\ UNCHANGED vars
  <1>1. /\ label = "101" /\ pc = "return" /\ IInv
        /\ UNCHANGED <<com, huart, line, mem, arg, received, delivered, lost>>
    BY Stages, SMT DEF Test, From, StepsInv, Rest
  <1>2. /\ label' \in {"103", "107"} /\ pc' = Stage(label') /\ pc' = pc
        /\ label' = "107" <=> FULL \notin com.USART_State
    BY <1>1, Stages, SMT DEF Test, From
  <1>3. UNCHANGED vars
    BY <1>1, <1>2 DEF vars
  <1>4. IInv'
    BY <1>1, <1>3, NextStep
  <1>5. Loaded'
    BY <1>2, SMT DEF Loaded
  <1>6. QED
    BY <1>1, <1>2, <1>3, <1>4, <1>5, BeforeEnd

\* Line 103, the load.
LEMMA FullLoads ==
  ASSUME StepsInv, StepsNext, From("103", "103="), reg' = com.USART_State,
         UNCHANGED <<com, huart, arg, delivered, temp>>
  PROVE  StepsInv' /\ UNCHANGED vars
  <1>1. /\ label' = "103=" /\ pc' = pc /\ IInv /\ FULL \in com.USART_State
        /\ UNCHANGED <<line, mem, received, lost>>
    BY Stages, SMT DEF From, StepsInv
  <1>2. UNCHANGED vars
    BY <1>1 DEF vars
  <1>3. IInv'
    BY <1>1, <1>2, NextStep
  <1>4. Loaded'
    BY DEF Loaded
  <1>5. QED
    BY <1>1, <1>2, <1>3, <1>4, BeforeEnd, SMT DEF From

\* What a change of the flags has to leave for Ending.
LEMMA EndingKept ==
  ASSUME DmaStaysInBuffer, Bookkeeping, UNCHANGED huart,
         com'.buff = com.buff, com'.DMA_buff = com.DMA_buff,
         com'.DMA_Receive_Count = com.DMA_Receive_Count,
         com'.DMA_Receive_Size = com.DMA_Receive_Size,
         com.DMA_Receive_Count > 0 => PENDING \in com'.USART_State,
         PROCESSED \in com'.USART_State => com'.receive_count = 0,
         FULL \notin com'.USART_State,
         label' \in {"108", "108="} => com'.receive_count = 0
  PROVE  Ending'
  <1>1. DmaStaysInBuffer'
    BY Zenon DEF DmaStaysInBuffer, Running, InDmaBuff
  <1>2. Bookkeeping'
    BY Zenon DEF Bookkeeping
  <1>3. QED
    BY <1>1, <1>2 DEF Ending

\* Line 103, the store: the mark of a full buffer goes, the rest stays.
LEMMA FullStores ==
  ASSUME StepsInv, StepsNext,
         Assign("103=", "110", [com EXCEPT !.USART_State = (reg \cup {}) \ {FULL}])
  PROVE  /\ StepsInv' /\ label = "103=" /\ label' = "110" /\ pc = "return" /\ pc' = "poll"
         /\ UNCHANGED <<huart, line, mem, arg, received, delivered, lost>>
         /\ FULL \in com.USART_State
         /\ com'.buff = com.buff /\ com'.DMA_buff = com.DMA_buff
         /\ com'.receive_count = com.receive_count
         /\ com'.DMA_Receive_Count = com.DMA_Receive_Count
         /\ com'.DMA_Receive_Size = com.DMA_Receive_Size
         /\ com'.USART_State = com.USART_State \ {FULL}
  <1>1. /\ label = "103=" /\ label' = "110" /\ pc = "return" /\ pc' = "poll" /\ pc' = Stage(label')
        /\ IInv /\ FULL \in com.USART_State /\ reg = com.USART_State
        /\ UNCHANGED <<huart, line, mem, arg, received, delivered, lost>>
    BY Stages, SMT DEF Assign, From, StepsInv, Loaded
  <1>2. com \in ComType /\ com.USART_State \ {FULL} \in SUBSET StateBits
    BY <1>1, SMT DEF IInv, Kept, TypeOK, ComType
  <1>3. com' = [com EXCEPT !.USART_State = com.USART_State \ {FULL}]
    <2>1. (reg \cup {}) \ {FULL} = com.USART_State \ {FULL}
      BY <1>1
    <2>2. QED
      BY <2>1 DEF Assign
  <1>4. /\ com' \in ComType /\ com'.USART_State = com.USART_State \ {FULL}
        /\ com'.buff = com.buff /\ com'.DMA_buff = com.DMA_buff
        /\ com'.receive_count = com.receive_count
        /\ com'.DMA_Receive_Count = com.DMA_Receive_Count
        /\ com'.DMA_Receive_Size = com.DMA_Receive_Size
    BY <1>2, <1>3, SetBits
  <1>5. TypeOK'
    BY <1>1, <1>4, Zenon DEF IInv, Kept, TypeOK
  <1>6. /\ com.DMA_Receive_Count > 0 => PENDING \in com'.USART_State
        /\ PROCESSED \in com'.USART_State => com'.receive_count = 0
        /\ FULL \notin com'.USART_State
    BY <1>1, <1>4, SMT DEF IInv, Kept, Handshake, FULL, PENDING, PROCESSED
  <1>7. Ending'
    BY <1>1, <1>4, <1>6, EndingKept, SMT DEF IInv, Kept
  <1>8. Loaded'
    BY <1>1, SMT DEF Loaded
  <1>9. QED
    BY <1>1, <1>4, <1>5, <1>7, <1>8, InEnding

\* Line 107: nothing in buff waits any more.
LEMMA CountClears ==
  ASSUME StepsInv, StepsNext, Assign("107", "108", [com EXCEPT !.receive_count = 0])
  PROVE  /\ StepsInv' /\ label = "107" /\ label' = "108" /\ pc = "return" /\ pc' = "return"
         /\ UNCHANGED <<huart, line, mem, arg, received, delivered, lost>>
         /\ FULL \notin com.USART_State
         /\ com'.buff = com.buff /\ com'.DMA_buff = com.DMA_buff
         /\ com'.receive_count = 0
         /\ com'.DMA_Receive_Count = com.DMA_Receive_Count
         /\ com'.DMA_Receive_Size = com.DMA_Receive_Size
         /\ com'.USART_State = com.USART_State
  <1>1. /\ label = "107" /\ label' = "108" /\ pc = "return" /\ pc' = "return"
        /\ pc' = Stage(label')
        /\ IInv /\ FULL \notin com.USART_State
        /\ UNCHANGED <<huart, line, mem, arg, received, delivered, lost>>
    BY Stages, SMT DEF Assign, From, StepsInv
  <1>2. com \in ComType /\ 0 \in 0 .. USART_RECEIVE_MAX
        /\ com' = [com EXCEPT !.receive_count = 0]
    <2>1. com \in ComType
      BY <1>1 DEF IInv, Kept, TypeOK
    <2>2. 0 \in 0 .. USART_RECEIVE_MAX
      BY MaxAssumption, SMT
    <2>3. QED
      BY <2>1, <2>2 DEF Assign
  <1>3. com' \in ComType
    BY <1>2, SetReceiveCount, Zenon
  <1>4. /\ com'.buff = com.buff /\ com'.DMA_buff = com.DMA_buff
        /\ com'.receive_count = 0
        /\ com'.DMA_Receive_Count = com.DMA_Receive_Count
        /\ com'.DMA_Receive_Size = com.DMA_Receive_Size
        /\ com'.USART_State = com.USART_State
    BY <1>2, SMT DEF ComType
  <1>5. TypeOK'
    BY <1>1, <1>3, Zenon DEF IInv, Kept, TypeOK
  <1>6. Ending'
    BY <1>1, <1>4, EndingKept, SMT DEF IInv, Kept, Handshake
  <1>7. Loaded'
    BY <1>1, SMT DEF Loaded
  <1>8. QED
    BY <1>1, <1>4, <1>5, <1>6, <1>7, InEnding

\* Lines 108 and 110, the load.
LEMMA EndLoads ==
  ASSUME StepsInv, StepsNext, reg' = com.USART_State,
         From("108", "108=") \/ From("110", "110="),
         UNCHANGED <<com, huart, arg, delivered, temp>>
  PROVE  StepsInv' /\ UNCHANGED vars
  <1>1. /\ label \in {"108", "110"} /\ label' \in {"108=", "110="} /\ pc' = pc /\ pc' = Stage(label')
        /\ label' \in {"108", "108="} => label \in {"108", "108="}
        /\ Ending /\ TypeOK
        /\ UNCHANGED <<line, mem, received, lost>>
    BY Stages, SMT DEF From, StepsInv
  <1>2. UNCHANGED vars
    BY <1>1 DEF vars
  <1>3. TypeOK'
    BY <1>1, <1>2, Zenon DEF TypeOK, vars
  <1>4. Ending'
    <2>1. DmaStaysInBuffer' /\ Bookkeeping'
      BY <1>1, Zenon DEF Ending, DmaStaysInBuffer, Bookkeeping, Running, InDmaBuff
    <2>2. QED
      BY <1>1, <2>1, Zenon DEF Ending
  <1>5. Loaded'
    BY DEF Loaded
  <1>6. QED
    BY <1>1, <1>2, <1>3, <1>4, <1>5, InEnding, SMT

\* Line 108, the store: the user is done with buff.
LEMMA EndMarks ==
  ASSUME StepsInv, StepsNext,
         Assign("108=", "110", [com EXCEPT !.USART_State = (reg \cup {PROCESSED}) \ {}])
  PROVE  /\ StepsInv' /\ label = "108=" /\ label' = "110" /\ pc = "return" /\ pc' = "poll"
         /\ UNCHANGED <<huart, line, mem, arg, received, delivered, lost>>
         /\ com'.buff = com.buff /\ com'.DMA_buff = com.DMA_buff
         /\ com.receive_count = 0 /\ com'.receive_count = 0 /\ FULL \notin com.USART_State
         /\ com'.DMA_Receive_Count = com.DMA_Receive_Count
         /\ com'.DMA_Receive_Size = com.DMA_Receive_Size
         /\ com'.USART_State = com.USART_State \cup {PROCESSED}
  <1>1. /\ label = "108=" /\ label' = "110" /\ pc = "return" /\ pc' = "poll" /\ pc' = Stage(label')
        /\ Ending /\ TypeOK /\ com.receive_count = 0 /\ reg = com.USART_State
        /\ UNCHANGED <<huart, line, mem, arg, received, delivered, lost>>
    BY Stages, SMT DEF Assign, From, StepsInv, Loaded, Ending
  <1>2. com \in ComType /\ com.USART_State \cup {PROCESSED} \in SUBSET StateBits
    BY <1>1, SMT DEF TypeOK, ComType, StateBits
  <1>3. com' = [com EXCEPT !.USART_State = com.USART_State \cup {PROCESSED}]
    <2>1. (reg \cup {PROCESSED}) \ {} = com.USART_State \cup {PROCESSED}
      BY <1>1
    <2>2. QED
      BY <2>1 DEF Assign
  <1>4. /\ com' \in ComType /\ com'.USART_State = com.USART_State \cup {PROCESSED}
        /\ com'.buff = com.buff /\ com'.DMA_buff = com.DMA_buff
        /\ com'.receive_count = com.receive_count
        /\ com'.DMA_Receive_Count = com.DMA_Receive_Count
        /\ com'.DMA_Receive_Size = com.DMA_Receive_Size
    BY <1>2, <1>3, SetBits
  <1>5. TypeOK'
    BY <1>1, <1>4, Zenon DEF TypeOK
  <1>6. /\ com.DMA_Receive_Count > 0 => PENDING \in com'.USART_State
        /\ FULL \notin com'.USART_State
    BY <1>1, <1>4, SMT DEF Ending, FULL, PENDING, PROCESSED
  <1>7. Ending'
    BY <1>1, <1>4, <1>6, EndingKept DEF Ending
  <1>8. Loaded'
    BY <1>1, SMT DEF Loaded
  <1>9. StepsInv'
    BY <1>1, <1>5, <1>7, <1>8, InEnding, SMT
  <1>10. QED
    BY <1>1, <1>4, <1>9 DEF Ending

\* Line 110, the store: the callback is over and the piece too.
LEMMA EndStores ==
  ASSUME StepsInv, StepsNext,
         Assign("110=", "70", [com EXCEPT !.USART_State = (reg \cup {}) \ {PROCESSING}])
  PROVE  /\ StepsInv' /\ label = "110=" /\ label' = "70" /\ pc = "poll" /\ pc' = "poll"
         /\ UNCHANGED <<huart, line, mem, arg, received, delivered, lost>>
         /\ com' \in ComType
         /\ com'.buff = com.buff /\ com'.DMA_buff = com.DMA_buff
         /\ com'.receive_count = com.receive_count
         /\ com'.DMA_Receive_Count = com.DMA_Receive_Count
         /\ com'.DMA_Receive_Size = com.DMA_Receive_Size
         /\ com'.USART_State = com.USART_State \ {PROCESSING}
  <1>1. /\ label = "110=" /\ label' = "70" /\ pc = "poll" /\ pc' = "poll" /\ pc' = Stage(label')
        /\ Ending /\ TypeOK /\ reg = com.USART_State
        /\ UNCHANGED <<huart, line, mem, arg, received, delivered, lost>>
    BY Stages, SMT DEF Assign, From, StepsInv, Loaded
  <1>2. com \in ComType /\ com.USART_State \ {PROCESSING} \in SUBSET StateBits
    BY <1>1, SMT DEF TypeOK, ComType
  <1>3. com' = [com EXCEPT !.USART_State = com.USART_State \ {PROCESSING}]
    <2>1. (reg \cup {}) \ {PROCESSING} = com.USART_State \ {PROCESSING}
      BY <1>1
    <2>2. QED
      BY <2>1 DEF Assign
  <1>4. /\ com' \in ComType /\ com'.USART_State = com.USART_State \ {PROCESSING}
        /\ com'.buff = com.buff /\ com'.DMA_buff = com.DMA_buff
        /\ com'.receive_count = com.receive_count
        /\ com'.DMA_Receive_Count = com.DMA_Receive_Count
        /\ com'.DMA_Receive_Size = com.DMA_Receive_Size
    BY <1>2, <1>3, SetBits
  <1>5. TypeOK'
    BY <1>1, <1>4, Zenon DEF TypeOK
  <1>6. DmaStaysInBuffer' /\ Bookkeeping'
    BY <1>1, <1>4, Zenon DEF Ending, DmaStaysInBuffer, Bookkeeping, Running, InDmaBuff
  <1>7. /\ PROCESSING \notin com'.USART_State /\ FULL \notin com'.USART_State
        /\ PROCESSED \in com'.USART_State => com'.receive_count = 0
        /\ com'.DMA_Receive_Count > 0 => PENDING \in com'.USART_State
    BY <1>1, <1>4, SMT DEF Ending, PROCESSING, FULL, PROCESSED, PENDING
  <1>8. Handshake' /\ Argument'
    BY <1>1, <1>7, SMT DEF Handshake, Argument
  <1>9. IInv'
    BY <1>5, <1>6, <1>8 DEF IInv, Kept
  <1>10. StepsInv'
    BY <1>1, <1>9, AtRest, SMT DEF Rest, StepsNext
  <1>11. QED
    BY <1>1, <1>4, <1>10

-----------------------------------------------------------------------------
\* com_init establishes the invariant.
LEMMA StepsInitStep == StepsInit => StepsInv
  <1> SUFFICES ASSUME StepsInit PROVE StepsInv
    OBVIOUS
  <1>1. IInv /\ TypeOK
    BY InitStep DEF StepsInit, IInv, Kept
  <1>2. /\ label = "70" /\ pc = "poll" /\ pc = Stage(label)
        /\ before = [com |-> com, huart |-> huart, pc |-> pc]
    BY Stages, SMT DEF StepsInit, Init
  <1>3. Loaded
    BY <1>2, SMT DEF Loaded
  <1>4. QED
    BY <1>1, <1>2, <1>3, SMT DEF StepsInv, Labels, Rest, Swap, Call, Finish

\* Every statement and every handler before a label of Safe keeps the invariant.
LEMMA StepsStep ==
  ASSUME Open \subseteq Safe, StepsInv, [StepsNext]_steps
  PROVE  StepsInv'
  <1>1. CASE StepsNext /\ Preempt
    BY <1>1, PreemptStep
  <1>2. CASE StepsNext /\ SwapSteps
    <2>1. \/ Test("70", IF Swappable THEN "72" ELSE "97")
          \/ Test("72", IF Unmoved THEN "81" ELSE "97")
          \/ Restart
          \/ From("81", "83") /\ huart' = HAL_UART_DMAStop(huart)
               /\ UNCHANGED <<com, arg, delivered, temp, reg>>
          \/ From("83", "84") /\ temp' = com.DMA_buff
               /\ UNCHANGED <<com, huart, arg, delivered, reg>>
          \/ Assign("84", "85", [com EXCEPT !.DMA_buff = com.buff])
          \/ Assign("85", "88", [com EXCEPT !.buff = temp])
          \/ Assign("88", "90", [com EXCEPT !.DMA_Receive_Size = USART_RECEIVE_MAX])
          \/ Modify("90", "90=", "91", {}, {PROCESSED})
          \/ Assign("91", "92", [com EXCEPT !.receive_count = com.DMA_Receive_Count])
          \/ Assign("92", "93", [com EXCEPT !.DMA_Receive_Count = 0])
          \/ Modify("93", "93=", "94", {}, {PENDING})
      BY <1>2, Zenon DEF SwapSteps, Restart
    <2>2. QED
      BY <1>2, <2>1, ExchangeBegins, ExchangeTests, ExchangeSteps, ExchangeEnds
  <1>3. CASE StepsNext /\ CallSteps
    <2>1. CASE Modify("99", "99=", "100", {PROCESSING}, {})
      BY <1>3, <2>1, CallLoads, CallMarks DEF Modify
    <2>2. QED
      BY <1>3, <2>1, CallTests, CallStarts, CallbackRuns DEF CallSteps
  <1>4. CASE StepsNext /\ FinishSteps
    <2>1. CASE Modify("103", "103=", "110", {}, {FULL})
      BY <1>4, <2>1, FullLoads, FullStores DEF Modify
    <2>2. CASE Modify("108", "108=", "110", {PROCESSED}, {})
      BY <1>4, <2>2, EndLoads, EndMarks DEF Modify
    <2>3. CASE Modify("110", "110=", "70", {}, {PROCESSING})
      BY <1>4, <2>3, EndLoads, EndStores DEF Modify
    <2>4. QED
      BY <1>4, <2>1, <2>2, <2>3, FinishTests, CountClears DEF FinishSteps
  <1>5. CASE UNCHANGED steps
    <2>1. /\ UNCHANGED vars /\ label' = label /\ temp' = temp /\ reg' = reg /\ before' = before
          /\ com' = com /\ huart' = huart /\ pc' = pc
      BY <1>5 DEF steps, vars
    <2>2. (IInv => IInv') /\ (Kept => Kept')
      BY <2>1, NextStep, KeptStep
    <2>3. TypeOK => TypeOK'
      BY <2>1, Zenon DEF vars, TypeOK
    <2>4. Exchange => Exchange'
      BY <2>1, Zenon DEF Exchange
    <2>5. Ending => Ending'
      BY <2>1, Zenon DEF Ending, DmaStaysInBuffer, Bookkeeping, Running, InDmaBuff
    <2>6. Loaded => Loaded'
      BY <2>1 DEF Loaded
    <2>7. QED
      BY <2>1, <2>2, <2>3, <2>4, <2>5, <2>6, Zenon DEF StepsInv
  <1>6. QED
    BY <1>1, <1>2, <1>3, <1>4, <1>5 DEF StepsNext, receive_str_manage

\* A handler before any label of Safe leaves the bookkeeping right between two
\* pieces of receive_str_manage, however late it is.
THEOREM StepsKeepInvariant ==
  ASSUME Open \subseteq Safe
  PROVE  StepsSpec => []StepsInv
  <1>1. StepsInit => StepsInv
    BY StepsInitStep
  <1>2. StepsInv /\ [StepsNext]_steps => StepsInv'
    BY StepsStep
  <1>3. QED
    BY <1>1, <1>2, PTL DEF StepsSpec

-----------------------------------------------------------------------------
(* The bytes. *)

\* Outside the exchange the bytes are right when the stream is.
LEMMA BytesOutside ==
  ASSUME label' \notin Swap, RestartsSucceed', StreamIntact'
  PROVE  BytesInv'
  BY DEF BytesInv

\* A step that changes the flags and leaves the bytes and the handle alone.
LEMMA FlagsChange ==
  ASSUME RestartsSucceed, StreamIntact, label' \notin Swap,
         UNCHANGED <<huart, mem, received, delivered, lost>>,
         com'.buff = com.buff, com'.DMA_buff = com.DMA_buff,
         com'.DMA_Receive_Count = com.DMA_Receive_Count,
         com'.DMA_Receive_Size = com.DMA_Receive_Size,
         InUserBuff' = InUserBuff,
         ~lost /\ pc' = "call" => FULL \notin com'.USART_State
  PROVE  BytesInv'
  <1>1. InDmaBuff' = InDmaBuff
    BY Zenon DEF InDmaBuff
  <1>2. StreamIntact'
    BY <1>1, BytesStay
  <1>3. RestartsSucceed'
    BY Zenon DEF RestartsSucceed, ErrorPending
  <1>4. QED
    BY <1>2, <1>3, BytesOutside

\* A test, or a load of the flags, outside of the exchange.
LEMMA NothingChanges ==
  ASSUME RestartsSucceed, StreamIntact, label' \notin Swap, UNCHANGED vars
  PROVE  BytesInv'
  <1>1. /\ UNCHANGED <<com, huart, mem, received, delivered, lost>> /\ pc' = pc
    BY DEF vars
  <1>2. InUserBuff' = InUserBuff /\ (~lost /\ pc' = "call" => FULL \notin com'.USART_State)
    BY <1>1 DEF InUserBuff, RestartsSucceed
  <1>3. QED
    BY <1>1, <1>2, FlagsChange

\* A handler at a label of Safe keeps the bytes.
LEMMA PreemptBytes ==
  ASSUME Open \subseteq Safe, Latency # 2, StepsInv, BytesInv, Preempt
  PROVE  BytesInv'
  <1>1. /\ label' = label /\ label \in Rest \cup {"99", "100", "103"} /\ Handler
    BY DEF Preempt, Safe, Handler
  <1>2. label \notin Swap
    BY <1>1, SMT DEF Rest, Swap
  <1>3. RestartsSucceed /\ StreamIntact
    BY <1>2 DEF BytesInv
  <1>4. Kept
    BY <1>1 DEF StepsInv, IInv
  <1>5. StreamKept
    BY <1>3, <1>4 DEF StreamKept
  <1>6. RestartsSucceed' /\ StreamIntact'
    BY <1>1, <1>5, ByteArrivesStream, LineIdleStream, UsartIrqStream, DmaIrqStream DEF Handler
  <1>7. QED
    BY <1>1, <1>2, <1>6, BytesOutside

\* When the exchange begins the bytes in DMA_buff are all the unread ones.
LEMMA BeginBytes ==
  ASSUME StepsInv, BytesInv, StepsNext, Test("70", IF Swappable THEN "72" ELSE "97")
  PROVE  BytesInv'
  <1>1. label = "70" /\ pc = "poll" /\ IInv /\ before = [com |-> com, huart |-> huart, pc |-> pc]
    BY Stages, SMT DEF Test, From, StepsInv, Rest
  <1>2. /\ NoIrq /\ UNCHANGED <<com, huart, line, mem, arg, received, delivered, lost>>
        /\ RestartsSucceed /\ StreamIntact
    BY <1>1, OpenAssumption, SMT DEF Test, From, Rest, BytesInv, Swap
  <1>3. CASE Swappable
    <2>1. label' = "72" /\ pc' = pc /\ before' = before
      BY <1>1, <1>3, Stages, SMT DEF Test, From, StepsNext, Rest, Swap
    <2>2. UNCHANGED vars
      BY <1>2, <2>1 DEF vars
    <2>3. RestartsSucceed' /\ StreamIntact'
      <3>1. InUserBuff' = InUserBuff /\ InDmaBuff' = InDmaBuff
        BY <1>2, <2>1 DEF InUserBuff, InDmaBuff
      <3>2. StreamIntact'
        BY <1>2, <3>1, BytesStay
      <3>3. RestartsSucceed'
        BY <1>2, <2>1, Zenon DEF RestartsSucceed, ErrorPending
      <3>4. QED
        BY <3>2, <3>3
    <2>4. InUserBuff = 0
      <3>1. PROCESSED \in com.USART_State
        BY <1>3 DEF Swappable
      <3>2. QED
        BY <1>1, <3>1, SMT DEF IInv, Kept, Handshake, InUserBuff
    <2>5. /\ Len(delivered) \in Nat /\ InDmaBuff \in 0 .. USART_RECEIVE_MAX
      BY <1>1, Counts DEF IInv
    <2>6. before'.com.DMA_Receive_Count + before'.com.DMA_Receive_Size - before'.huart.NDTR
            = InDmaBuff
          /\ before'.com.DMA_buff = com.DMA_buff
      BY <1>1, <2>1, Zenon DEF InDmaBuff
    <2>7. ~lost => /\ received = Len(delivered) + InDmaBuff
                   /\ \A i \in 1 .. Len(delivered) : delivered[i] = i
                   /\ \A i \in 0 .. InDmaBuff - 1 :
                        mem[com.DMA_buff][i] = Len(delivered) + 1 + i
      BY <1>2, <2>4, <2>5, SMT DEF StreamIntact
    <2>8. QED
      BY <1>2, <2>3, <2>6, <2>7, Zenon DEF BytesInv
  <1>4. CASE ~Swappable
    <2>1. label' = "97" /\ pc' = "test" /\ label' \notin Swap
      BY <1>4, Stages, SMT DEF Test, From, Swap
    <2>2. ManageSwap
      BY <1>1, <1>2, <1>4, <2>1, Zenon DEF ManageSwap, Swappable
    <2>3. RestartsSucceed' /\ StreamIntact'
      BY <1>1, <1>2, <2>2, ManageSwapStream DEF StreamKept, IInv
    <2>4. QED
      BY <2>1, <2>3, BytesOutside
  <1>5. QED
    BY <1>3, <1>4

\* Line 72 moves no byte.
LEMMA TestBytes ==
  ASSUME StepsInv, BytesInv, StepsNext, Test("72", IF Unmoved THEN "81" ELSE "97")
  PROVE  BytesInv'
  <1>1. /\ label = "72" /\ pc = "poll" /\ IInv /\ Exchange
        /\ UNCHANGED <<com, huart, line, mem, arg, received, delivered, lost>>
        /\ RestartsSucceed /\ StreamIntact
    BY Stages, SMT DEF Test, From, StepsInv, Swap, BytesInv
  <1>2. CASE Unmoved
    <2>1. label' = "81" /\ before' = before /\ label \in Swap /\ label' \in Swap \ {"72"}
      BY <1>1, <1>2, SMT DEF Test, From, StepsNext, Rest, Swap
    <2>2. QED
      BY <1>1, <2>1, Zenon DEF BytesInv
  <1>3. CASE ~Unmoved
    <2>1. label' = "97" /\ pc' = "test" /\ label' \notin Swap
      BY <1>3, Stages, SMT DEF Test, From, Swap
    <2>2. NoIrq
      BY <1>1, SMT DEF Exchange, NoIrq
    <2>3. ManageSwap
      BY <1>1, <1>3, <2>1, <2>2, Zenon DEF ManageSwap, Unmoved
    <2>4. RestartsSucceed' /\ StreamIntact'
      BY <1>1, <2>3, ManageSwapStream DEF StreamKept, IInv
    <2>5. QED
      BY <2>1, <2>4, BytesOutside
  <1>4. QED
    BY <1>2, <1>3

\* In the exchange the bytes stay where they are.
LEMMA MoveBytes ==
  ASSUME BytesInv, StepsNext, NEW l \in Swap, NEW m \in Swap, m # "72", From(l, m),
         delivered' = delivered
  PROVE  BytesInv'
  <1>1. /\ label = l /\ label' = m /\ label' \in Swap \ {"72"}
        /\ UNCHANGED <<mem, received, lost>>
    BY DEF From
  <1>2. before' = before
    BY <1>1, SMT DEF StepsNext, Rest, Swap
  <1>3. QED
    BY <1>1, <1>2, Zenon DEF BytesInv

\* After it they are in buff, and DMA_buff is empty.
LEMMA RestartBytes ==
  ASSUME StepsInv, BytesInv, Restart
  PROVE  BytesInv'
  <1> DEFINE c == before.com
             h == before.huart
  <1>1. /\ com' = com /\ ComOK(com) /\ com.buff = c.DMA_buff
        /\ com.receive_count = c.DMA_Receive_Count
        /\ com.DMA_Receive_Count = 0 /\ com.DMA_Receive_Size = USART_RECEIVE_MAX
        /\ ~huart'.IDLE /\ huart'.RxState = "BUSY_RX" /\ huart'.DMAState = "BUSY"
        /\ huart'.NDTR = USART_RECEIVE_MAX
    BY RestartDone
  <1>2. /\ label \in Swap \ {"72"} /\ label' \notin Swap /\ pc' = "test"
        /\ UNCHANGED <<mem, received, delivered, lost>>
        /\ c.DMA_Receive_Size = h.NDTR /\ c \in ComType /\ delivered \in Seq(Nat)
    BY Stages, SMT DEF Restart, From, StepsInv, Exchange, Swap, ComOK, TypeOK
  <1>3. RestartsSucceed'
    BY <1>1, <1>2, Zenon DEF RestartsSucceed
  <1>4. InUserBuff' = c.DMA_Receive_Count /\ InDmaBuff' = 0
    BY <1>1, <1>2, MaxAssumption, SMT DEF InUserBuff, InDmaBuff
  <1>5. StreamIntact'
    <2>1. CASE lost
      BY <1>2, <2>1, Zenon DEF StreamIntact
    <2>2. CASE ~lost
      <3> DEFINE n == c.DMA_Receive_Count + c.DMA_Receive_Size - h.NDTR
                 d == Len(delivered)
      <3>1. /\ received = d + n /\ \A i \in 1 .. d : delivered[i] = i
            /\ \A i \in 0 .. n - 1 : mem[c.DMA_buff][i] = d + 1 + i
        BY <1>2, <2>2, Zenon DEF BytesInv
      <3>2. n = c.DMA_Receive_Count /\ n \in Nat
        BY <1>2, SMT DEF ComType
      <3>3. d \in Nat
        BY <1>2, LenProperties
      <3> HIDE DEF n, d
      <3>4. received' = d + InUserBuff' + InDmaBuff'
        BY <1>2, <1>4, <3>1, <3>2, <3>3, SMT
      <3>5. \A i \in 0 .. InDmaBuff' - 1 : FALSE
        BY <1>4, SMT
      <3>6. \A i \in 0 .. InUserBuff' - 1 : mem'[com'.buff][i] = d + 1 + i
        BY <1>1, <1>2, <1>4, <3>1, <3>2
      <3>7. QED
        BY <1>2, <3>1, <3>4, <3>5, <3>6, Zenon DEF StreamIntact, d
    <2>3. QED
      BY <2>1, <2>2
  <1>6. QED
    BY <1>2, <1>3, <1>5, BytesOutside

\* Lines 97-101 deliver what was given to the callback, and nothing else.
LEMMA CallBytes ==
  ASSUME StepsInv, BytesInv, StepsNext, CallSteps
  PROVE  BytesInv'
  <1>1. CASE Test("97", IF com.receive_count # 0 THEN "99" ELSE "70")
    <2>1. /\ label = "97" /\ pc = "test" /\ IInv /\ NoIrq /\ label \notin Swap
          /\ UNCHANGED <<com, huart, line, mem, arg, received, delivered, lost>>
      BY <1>1, Stages, OpenAssumption, SMT DEF Test, From, StepsInv, Rest, Swap
    <2>2. RestartsSucceed /\ StreamIntact
      BY <2>1 DEF BytesInv
    <2>3. CASE com.receive_count # 0
      <3>1. label' = "99" /\ pc' = pc /\ label' \notin Swap
        BY <1>1, <2>1, <2>3, Stages, SMT DEF Test, From, Swap
      <3>2. QED
        BY <2>1, <2>2, <3>1, NothingChanges DEF vars
    <2>4. CASE com.receive_count = 0
      <3>1. label' = "70" /\ pc' = "poll" /\ label' \notin Swap
        BY <1>1, <2>4, Stages, SMT DEF Test, From, Swap
      <3>2. ManageCall
        BY <2>1, <2>4, <3>1, Zenon DEF ManageCall
      <3>3. RestartsSucceed' /\ StreamIntact'
        BY <2>1, <2>2, <3>2, ManageCallStream DEF StreamKept, IInv
      <3>4. QED
        BY <3>1, <3>3, BytesOutside
    <2>5. QED
      BY <2>3, <2>4
  <1>2. CASE From("99", "99=") /\ reg' = com.USART_State
               /\ UNCHANGED <<com, huart, arg, delivered, temp>>
    <2>1. label \notin Swap /\ label' \notin Swap
      BY <1>2, SMT DEF From, Swap
    <2>2. QED
      BY <1>2, <2>1, CallLoads, NothingChanges DEF BytesInv
  <1>3. CASE Assign("99=", "100", [com EXCEPT !.USART_State = (reg \cup {PROCESSING}) \ {}])
    <2>1. /\ UNCHANGED <<huart, line, mem, arg, received, delivered, lost>>
          /\ label = "99=" /\ label' = "100" /\ pc = "test" /\ pc' = "call"
          /\ com'.buff = com.buff /\ com'.DMA_buff = com.DMA_buff
          /\ com'.receive_count = com.receive_count
          /\ com'.DMA_Receive_Count = com.DMA_Receive_Count
          /\ com'.DMA_Receive_Size = com.DMA_Receive_Size
          /\ FULL \notin com'.USART_State
      BY <1>3, CallMarks
    <2>2. label \notin Swap /\ label' \notin Swap
      BY <2>1, SMT DEF Swap
    <2>3. InUserBuff' = InUserBuff
      BY <2>1, SMT DEF InUserBuff
    <2>4. QED
      BY <2>1, <2>2, <2>3, FlagsChange DEF BytesInv
  <1>4. CASE /\ From("100", "callback") /\ arg' = [buf |-> com.buff, len |-> com.receive_count]
             /\ UNCHANGED <<com, huart, delivered, temp, reg>>
    <2>1. /\ label \notin Swap /\ label' \notin Swap /\ UNCHANGED <<mem, received, lost>>
      BY <1>4, SMT DEF From, Swap
    <2>2. pc = "call" /\ pc' = "call"
      BY <1>4, CallStarts
    <2>3. RestartsSucceed /\ StreamIntact
      BY <2>1 DEF BytesInv
    <2>4. InUserBuff' = InUserBuff /\ (~lost => FULL \notin com'.USART_State)
      BY <1>4, <2>2, <2>3 DEF InUserBuff, RestartsSucceed
    <2>5. QED
      BY <1>4, <2>1, <2>3, <2>4, FlagsChange
  <1>5. CASE /\ From("callback", "101")
             /\ delivered' = delivered \o [i \in 1 .. arg.len |-> mem[arg.buf][i - 1]]
             /\ UNCHANGED <<com, huart, arg, temp, reg>>
    <2>1. label \notin Swap /\ label' \notin Swap
      BY <1>5, SMT DEF From, Swap
    <2>2. Callback /\ IInv
      BY <1>5, CallbackRuns
    <2>3. RestartsSucceed' /\ StreamIntact'
      BY <2>1, <2>2, CallbackStream DEF BytesInv, StreamInv
    <2>4. QED
      BY <2>1, <2>3, BytesOutside
  <1>6. QED
    BY <1>1, <1>2, <1>3, <1>4, <1>5 DEF CallSteps, Modify

\* What is unread when FULL is up stays unread; anything else has been read.
LEMMA FinishBytes ==
  ASSUME StepsInv, BytesInv, StepsNext, FinishSteps
  PROVE  BytesInv'
  <1>1. label \notin Swap /\ label' \notin Swap
    BY SMT DEF FinishSteps, Test, Assign, Modify, From, Swap
  <1>2. RestartsSucceed /\ StreamIntact
    BY <1>1 DEF BytesInv
  <1>3. CASE \/ Test("101", IF FULL \in com.USART_State THEN "103" ELSE "107")
             \/ /\ From("103", "103=") \/ From("108", "108=") \/ From("110", "110=")
                /\ reg' = com.USART_State
                /\ UNCHANGED <<com, huart, arg, delivered, temp>>
    <2>1. UNCHANGED vars
      BY <1>3, FinishTests, FullLoads, EndLoads
    <2>2. QED
      BY <1>1, <1>2, <2>1, NothingChanges
  <1>4. CASE Assign("103=", "110", [com EXCEPT !.USART_State = (reg \cup {}) \ {FULL}])
    <2>1. /\ UNCHANGED <<huart, line, mem, arg, received, delivered, lost>>
          /\ pc = "return" /\ pc' = "poll" /\ FULL \in com.USART_State
          /\ com'.buff = com.buff /\ com'.DMA_buff = com.DMA_buff
          /\ com'.receive_count = com.receive_count
          /\ com'.DMA_Receive_Count = com.DMA_Receive_Count
          /\ com'.DMA_Receive_Size = com.DMA_Receive_Size
      BY <1>4, FullStores
    <2>2. InUserBuff' = InUserBuff
      BY <2>1, SMT DEF InUserBuff
    <2>3. QED
      BY <1>1, <1>2, <2>1, <2>2, FlagsChange
  <1>5. CASE Assign("107", "108", [com EXCEPT !.receive_count = 0])
    <2>1. /\ UNCHANGED <<huart, line, mem, arg, received, delivered, lost>>
          /\ pc = "return" /\ pc' = "return" /\ FULL \notin com.USART_State
          /\ com'.buff = com.buff /\ com'.DMA_buff = com.DMA_buff
          /\ com'.USART_State = com.USART_State
          /\ com'.DMA_Receive_Count = com.DMA_Receive_Count
          /\ com'.DMA_Receive_Size = com.DMA_Receive_Size
      BY <1>5, CountClears
    <2>2. InUserBuff' = InUserBuff
      BY <2>1 DEF InUserBuff
    <2>3. QED
      BY <1>1, <1>2, <2>1, <2>2, FlagsChange
  <1>6. CASE Assign("108=", "110", [com EXCEPT !.USART_State = (reg \cup {PROCESSED}) \ {}])
    <2>1. /\ UNCHANGED <<huart, line, mem, arg, received, delivered, lost>>
          /\ pc = "return" /\ pc' = "poll" /\ FULL \notin com.USART_State
          /\ com.receive_count = 0 /\ com'.receive_count = 0
          /\ com'.buff = com.buff /\ com'.DMA_buff = com.DMA_buff
          /\ com'.DMA_Receive_Count = com.DMA_Receive_Count
          /\ com'.DMA_Receive_Size = com.DMA_Receive_Size
      BY <1>6, EndMarks
    <2>2. InUserBuff' = InUserBuff
      BY <2>1, SMT DEF InUserBuff
    <2>3. QED
      BY <1>1, <1>2, <2>1, <2>2, FlagsChange
  <1>7. CASE Assign("110=", "70", [com EXCEPT !.USART_State = (reg \cup {}) \ {PROCESSING}])
    <2>1. /\ UNCHANGED <<huart, line, mem, arg, received, delivered, lost>>
          /\ pc = "poll" /\ pc' = "poll"
          /\ com'.receive_count = com.receive_count
          /\ com'.buff = com.buff /\ com'.DMA_buff = com.DMA_buff
          /\ com'.DMA_Receive_Count = com.DMA_Receive_Count
          /\ com'.DMA_Receive_Size = com.DMA_Receive_Size
      BY <1>7, EndStores
    <2>2. InUserBuff' = InUserBuff
      BY <2>1, SMT DEF InUserBuff
    <2>3. QED
      BY <1>1, <1>2, <2>1, <2>2, FlagsChange
  <1>8. QED
    BY <1>3, <1>4, <1>5, <1>6, <1>7 DEF FinishSteps, Modify

\* The exchange puts the bytes of DMA_buff, in order, into buff.
LEMMA SwapBytes ==
  ASSUME StepsInv, BytesInv, StepsNext, SwapSteps
  PROVE  BytesInv'
  <1>1. CASE Test("70", IF Swappable THEN "72" ELSE "97")
    BY <1>1, BeginBytes
  <1>2. CASE Test("72", IF Unmoved THEN "81" ELSE "97")
    BY <1>2, TestBytes
  <1>3. CASE Restart
    BY <1>3, RestartBytes
  <1>4. CASE \E l \in Swap, m \in Swap \ {"72"} : From(l, m) /\ delivered' = delivered
    BY <1>4, MoveBytes
  <1>5. \/ <1>1!1 \/ <1>2!1 \/ <1>3!1 \/ <1>4!1
    BY SMT DEF SwapSteps, Assign, Modify, Restart, Swap
  <1>6. QED
    BY <1>1, <1>2, <1>3, <1>4, <1>5

\* Every step keeps the bytes, as long as line errors are handled in time.
LEMMA BytesStep ==
  ASSUME Open \subseteq Safe, Latency # 2, StepsInv, BytesInv, [StepsNext]_steps
  PROVE  BytesInv'
  <1>1. CASE StepsNext
    BY <1>1, PreemptBytes, SwapBytes, CallBytes, FinishBytes DEF StepsNext, receive_str_manage
  <1>2. CASE UNCHANGED steps
    <2>1. UNCHANGED <<com, huart, mem, pc, received, delivered, lost, label, before>>
      BY <1>2 DEF steps, vars
    <2>2. (RestartsSucceed => RestartsSucceed') /\ (StreamIntact => StreamIntact')
      BY <2>1, Zenon DEF RestartsSucceed, ErrorPending, StreamIntact, InUserBuff, InDmaBuff
    <2>3. QED
      BY <2>1, <2>2, Zenon DEF BytesInv
  <1>3. QED
    BY <1>1, <1>2

\* usart.c:66-111: a byte or a handler that comes before line 99, 100 or 103, or
\* between two pieces of receive_str_manage, loses, doubles or moves no byte, and
\* leaves the buffers apart and the flags right whenever a piece is over.
THEOREM WindowsAreSafe ==
  ASSUME Open \subseteq Safe, Latency # 2
  PROVE  StepsSpec => []IntactAtRest
  <1>1. StepsInit => StepsInv /\ BytesInv
    <2> SUFFICES ASSUME StepsInit PROVE StepsInv /\ BytesInv
      OBVIOUS
    <2>1. StepsInv /\ StreamInv /\ label \notin Swap
      BY StepsInitStep, InitStream, SMT DEF StepsInit, Swap
    <2>2. QED
      BY <2>1 DEF BytesInv, StreamInv
  <1>2. (StepsInv /\ BytesInv) /\ [StepsNext]_steps => (StepsInv /\ BytesInv)'
    BY StepsStep, BytesStep
  <1>3. StepsInv /\ BytesInv => IntactAtRest
    <2> SUFFICES ASSUME StepsInv, BytesInv, label \in Rest
                 PROVE  StreamIntact /\ DmaStaysInBuffer /\ Handshake
      BY DEF IntactAtRest
    <2>1. label \notin Swap
      BY SMT DEF Rest, Swap
    <2>2. QED
      BY <2>1 DEF StepsInv, BytesInv, IInv, Kept
  <1>4. QED
    BY <1>1, <1>2, <1>3, PTL DEF StepsSpec

-----------------------------------------------------------------------------
(* When no handler comes in the middle of a piece. *)

\* The invariant of the pieces is kept.
LEMMA PieceStep ==
  ASSUME Open = Rest, StepsInv, PieceInv, [StepsNext]_steps
  PROVE  PieceInv'
  <1>1. CASE label' \notin Call \cup Finish
    BY <1>1, Zenon DEF PieceInv
  <1>2. CASE StepsNext /\ Preempt
    <2>1. label' \notin Call \cup Finish
      BY <1>2, SMT DEF Preempt, Rest, Call, Finish
    <2>2. QED
      BY <1>1, <2>1
  <1>3. CASE StepsNext /\ SwapSteps
    <2>1. label' \notin Call \cup Finish
      BY <1>3, SMT DEF SwapSteps, Test, Assign, Modify, From, Call, Finish
    <2>2. QED
      BY <1>1, <2>1
  <1>4. CASE StepsNext /\ CallSteps /\ label' \in Call \cup Finish
    <2>1. CASE Test("97", IF com.receive_count # 0 THEN "99" ELSE "70")
      <3>1. label = "97" /\ label' = "99" /\ com.receive_count # 0 /\ pc = "test" /\ NoIrq
        BY <1>4, <2>1, Stages, OpenAssumption, SMT
           DEF Test, From, StepsInv, Rest, Call, Finish
      <3>2. /\ before' = before /\ before = [com |-> com, huart |-> huart, pc |-> pc]
            /\ com \in ComType
        BY <1>4, <3>1, SMT DEF StepsNext, StepsInv, Rest, TypeOK
      <3>3. UNCHANGED <<com, huart>>
        BY <2>1 DEF Test
      <3>4. QED
        BY <3>1, <3>2, <3>3, SMT DEF PieceInv, NoIrq, Call, Finish
    <2>2. CASE From("99", "99=") /\ UNCHANGED <<com, huart>>
      <3>1. label = "99" /\ label' = "99=" /\ before' = before
        BY <1>4, <2>2, SMT DEF From, StepsNext, Rest
      <3>2. QED
        BY <2>2, <3>1, SMT DEF PieceInv, Call, Finish
    <2>3. CASE Assign("99=", "100", [com EXCEPT !.USART_State = (reg \cup {PROCESSING}) \ {}])
      <3>1. /\ UNCHANGED <<huart, line, mem, arg, received, delivered, lost>>
            /\ label = "99=" /\ label' = "100"
            /\ com'.buff = com.buff /\ com'.DMA_buff = com.DMA_buff
            /\ com'.receive_count = com.receive_count
            /\ com'.DMA_Receive_Count = com.DMA_Receive_Count
            /\ com'.DMA_Receive_Size = com.DMA_Receive_Size
            /\ com'.USART_State = com.USART_State \cup {PROCESSING}
        BY <1>4, <2>3, CallMarks
      <3>2. before' = before
        BY <1>4, <3>1, SMT DEF StepsNext, Rest
      <3>3. QED
        BY <3>1, <3>2, SMT DEF PieceInv, Call, Finish
    <2>4. CASE From("100", "callback") \/ From("callback", "101")
      BY <1>4, <2>4, SMT DEF From, Call, Finish
    <2>5. QED
      BY <1>4, <2>1, <2>2, <2>3, <2>4 DEF CallSteps, Modify
  <1>5. CASE StepsNext /\ FinishSteps /\ label' \in Call \cup Finish
    <2>1. CASE Test("101", IF FULL \in com.USART_State THEN "103" ELSE "107")
      <3>1. /\ label = "101" /\ label' \in {"103", "107"} /\ pc = "return" /\ NoIrq
            /\ label' = "103" <=> FULL \in com.USART_State
        BY <1>5, <2>1, Stages, OpenAssumption, SMT DEF Test, From, StepsInv, Rest
      <3>2. /\ before' = before /\ before = [com |-> com, huart |-> huart, pc |-> pc]
            /\ com \in ComType
        BY <1>5, <3>1, SMT DEF StepsNext, StepsInv, Rest, TypeOK
      <3>3. com' = com /\ huart' = huart
        BY <2>1 DEF Test
      <3>4. FULL \notin com.USART_State => label' = "107"
        BY <3>1
      <3>5. QED
        BY <3>1, <3>2, <3>3, <3>4, SMT DEF PieceInv, NoIrq, Call, Finish
    <2>2. CASE (From("103", "103=") \/ From("108", "108=") \/ From("110", "110="))
               /\ UNCHANGED <<com, huart>>
      <3>1. /\ label \in {"103", "108", "110"} /\ before' = before
            /\ label' = IF label = "103" THEN "103=" ELSE IF label = "108" THEN "108=" ELSE "110="
        BY <1>5, <2>2, SMT DEF From, StepsNext, Rest
      <3>2. QED
        BY <2>2, <3>1, SMT DEF PieceInv, Call, Finish
    <2>3. CASE Assign("103=", "110", [com EXCEPT !.USART_State = (reg \cup {}) \ {FULL}])
      <3>1. /\ label = "103=" /\ label' = "110"
            /\ UNCHANGED <<huart, line, mem, arg, received, delivered, lost>>
            /\ com'.buff = com.buff /\ com'.DMA_buff = com.DMA_buff
            /\ com'.receive_count = com.receive_count
            /\ com'.DMA_Receive_Count = com.DMA_Receive_Count
            /\ com'.DMA_Receive_Size = com.DMA_Receive_Size
            /\ com'.USART_State = com.USART_State \ {FULL}
        BY <1>5, <2>3, FullStores
      <3>2. before' = before
        BY <1>5, <3>1, SMT DEF StepsNext, Rest
      <3>3. QED
        BY <3>1, <3>2, SMT DEF PieceInv, Call, Finish
    <2>4. CASE Assign("107", "108", [com EXCEPT !.receive_count = 0])
      <3>1. /\ label = "107" /\ label' = "108"
            /\ UNCHANGED <<huart, line, mem, arg, received, delivered, lost>>
            /\ com'.buff = com.buff /\ com'.DMA_buff = com.DMA_buff
            /\ com'.receive_count = 0
            /\ com'.DMA_Receive_Count = com.DMA_Receive_Count
            /\ com'.DMA_Receive_Size = com.DMA_Receive_Size
            /\ com'.USART_State = com.USART_State
        BY <1>5, <2>4, CountClears
      <3>2. before' = before
        BY <1>5, <3>1, SMT DEF StepsNext, Rest
      <3>3. QED
        BY <3>1, <3>2, SMT DEF PieceInv, Call, Finish
    <2>5. CASE Assign("108=", "110", [com EXCEPT !.USART_State = (reg \cup {PROCESSED}) \ {}])
      <3>1. /\ label = "108=" /\ label' = "110"
            /\ UNCHANGED <<huart, line, mem, arg, received, delivered, lost>>
            /\ com'.buff = com.buff /\ com'.DMA_buff = com.DMA_buff
            /\ com'.receive_count = 0
            /\ com'.DMA_Receive_Count = com.DMA_Receive_Count
            /\ com'.DMA_Receive_Size = com.DMA_Receive_Size
            /\ com'.USART_State = com.USART_State \cup {PROCESSED}
        BY <1>5, <2>5, EndMarks
      <3>2. before' = before
        BY <1>5, <3>1, SMT DEF StepsNext, Rest
      <3>3. QED
        BY <3>1, <3>2, SMT DEF PieceInv, Call, Finish
    <2>6. CASE From("110=", "70")
      BY <1>5, <2>6, SMT DEF From, Call, Finish
    <2>7. QED
      BY <1>5, <2>1, <2>2, <2>3, <2>4, <2>5, <2>6 DEF FinishSteps, Modify, Assign
  <1>6. CASE UNCHANGED steps
    <2>1. UNCHANGED <<com, huart, label, before>>
      BY <1>6 DEF steps, vars
    <2>2. QED
      BY <2>1, Zenon DEF PieceInv
  <1>7. QED
    BY <1>1, <1>2, <1>3, <1>4, <1>5, <1>6 DEF StepsNext, receive_str_manage

\* The state UsartRx sees is the state of the statements.
Seen == before.com = com /\ before.huart = huart /\ before.pc = pc

\* The operators of the instance are those of the module: no variable is in them.
LEMMA SameOperators ==
  /\ \A h : /\ Coarse!ErrorPending(h) = ErrorPending(h)
            /\ Coarse!UsartPending(h) = UsartPending(h)
            /\ Coarse!DmaPending(h) = DmaPending(h)
            /\ Coarse!Running(h) = Running(h)
            /\ Coarse!Streaming(h) = Streaming(h)
            /\ Coarse!HAL_UART_DMAStop(h) = HAL_UART_DMAStop(h)
            /\ Coarse!HAL_UART_IRQHandler(h) = HAL_UART_IRQHandler(h)
            /\ Coarse!HAL_DMA_IRQHandler(h) = HAL_DMA_IRQHandler(h)
  /\ \A h, b, k, n : Coarse!HAL_UART_Receive_DMA(h, b, k, n) = HAL_UART_Receive_DMA(h, b, k, n)
  /\ \A c : /\ Coarse!HandOver(c) = HandOver(c)
            /\ Coarse!Hold(c) = Hold(c)
            /\ Coarse!TakeFull(c) = TakeFull(c)
  /\ \A n : Coarse!U8(n) = U8(n) /\ Coarse!U16(n) = U16(n)
  /\ Coarse!PROCESSING = PROCESSING /\ Coarse!PROCESSED = PROCESSED
  /\ Coarse!FULL = FULL /\ Coarse!PENDING = PENDING
  BY DEF Coarse!ErrorPending, ErrorPending, Coarse!UsartPending, UsartPending,
         Coarse!DmaPending, DmaPending, Coarse!Running, Running, Coarse!Streaming, Streaming,
         Coarse!HAL_UART_DMAStop, HAL_UART_DMAStop, Coarse!HAL_DMA_Abort, HAL_DMA_Abort,
         Coarse!HAL_UART_IRQHandler, HAL_UART_IRQHandler,
         Coarse!HAL_DMA_Abort_IT, HAL_DMA_Abort_IT,
         Coarse!HAL_DMA_IRQHandler, HAL_DMA_IRQHandler,
         Coarse!HAL_UART_Receive_DMA, HAL_UART_Receive_DMA,
         Coarse!HAL_DMA_Start_IT, HAL_DMA_Start_IT,
         Coarse!HandOver, HandOver, Coarse!Hold, Hold, Coarse!TakeFull, TakeFull,
         Coarse!U8, U8, Coarse!U16, U16, Coarse!PROCESSING, PROCESSING,
         Coarse!PROCESSED, PROCESSED, Coarse!FULL, FULL, Coarse!PENDING, PENDING

\* A handler that comes between two pieces is a handler of UsartRx.
LEMMA SeenHandler ==
  ASSUME Seen, Seen', Handler
  PROVE  Coarse!Next
  <1>1. /\ Coarse!NoIrq = NoIrq /\ Coarse!InDmaBuff = InDmaBuff
        /\ Coarse!InUserBuff = InUserBuff
        /\ \A noisy : Coarse!InTime(noisy) = InTime(noisy)
    BY SameOperators DEF Seen, Coarse!NoIrq, NoIrq, Coarse!InDmaBuff, InDmaBuff,
         Coarse!InUserBuff, InUserBuff, Coarse!InTime, InTime
  <1>2. ASSUME NEW noisy \in BOOLEAN, ByteArrives(noisy)
        PROVE  Coarse!ByteArrives(noisy)
    BY <1>1, <1>2, SameOperators DEF Seen, Coarse!ByteArrives, ByteArrives
  <1>3. ASSUME LineIdle PROVE Coarse!LineIdle
    BY <1>1, <1>3 DEF Seen, Coarse!LineIdle, LineIdle
  <1>4. ASSUME USART_IRQHandler PROVE Coarse!USART_IRQHandler
    BY <1>1, <1>4, SameOperators DEF Seen, Coarse!USART_IRQHandler, USART_IRQHandler
  <1>5. ASSUME DMA_IRQHandler PROVE Coarse!DMA_IRQHandler
    BY <1>1, <1>5, SameOperators DEF Seen, Coarse!DMA_IRQHandler, DMA_IRQHandler
  <1>6. QED
    BY <1>2, <1>3, <1>4, <1>5, Zenon DEF Handler, Coarse!Next

\* At a label between two pieces the history variable is the state.
LEMMA SeenAtRest ==
  /\ StepsInv /\ label \in Rest => Seen
  /\ StepsNext /\ label' \in Rest => Seen'
  BY SMT DEF StepsInv, StepsNext, Seen

\* A statement in the middle of a piece is not seen.
LEMMA Unseen ==
  ASSUME StepsNext, label' \notin Rest,
         UNCHANGED <<line, mem, arg, received, delivered, lost>>
  PROVE  UNCHANGED Coarse!vars
  BY DEF StepsNext, Coarse!vars

\* Lines 70-94: the exchange, or not.
LEMMA SwapSeen ==
  ASSUME Open = Rest, StepsInv, StepsNext, SwapSteps
  PROVE  Coarse!ManageSwap \/ UNCHANGED Coarse!vars
  <1>1. UNCHANGED <<line, mem, arg, received, delivered, lost>>
    BY SMT DEF SwapSteps, Test, Assign, Modify, From
  <1>2. Coarse!NoIrq <=> ~UsartPending(before.huart) /\ ~DmaPending(before.huart)
    BY SameOperators DEF Coarse!NoIrq
  <1>3. CASE Test("70", IF Swappable THEN "72" ELSE "97") /\ label' \in Rest
    <2>1. /\ label = "70" /\ label' = "97" /\ ~Swappable /\ pc = "poll" /\ pc' = "test" /\ NoIrq
          /\ com' = com /\ huart' = huart
      BY <1>3, Stages, OpenAssumption, SMT DEF Test, From, StepsInv, Rest, Swap
    <2>2. Seen /\ Seen'
      BY <1>3, <2>1, SeenAtRest, SMT DEF Rest
    <2>3. Coarse!ManageSwap
      BY <1>1, <1>2, <2>1, <2>2, SameOperators, SMT DEF Seen, NoIrq, Swappable, Coarse!ManageSwap
    <2>4. QED
      BY <2>3
  <1>4. CASE Test("72", IF Unmoved THEN "81" ELSE "97") /\ label' \in Rest
    <2>1. /\ label = "72" /\ label' = "97" /\ ~Unmoved /\ pc' = "test" /\ Exchange
          /\ com' = com /\ huart' = huart
      BY <1>4, Stages, SMT DEF Test, From, StepsInv, Rest, Swap
    <2>2. Seen' /\ before.huart = huart /\ before.pc = "poll"
      BY <1>4, <2>1, SeenAtRest, SMT DEF Exchange
    <2>3. before.com = com
      <3>1. /\ before.com \in ComType /\ com \in ComType
            /\ com.buff = before.com.buff /\ com.DMA_buff = before.com.DMA_buff
            /\ com.receive_count = before.com.receive_count
            /\ com.DMA_Receive_Count = before.com.DMA_Receive_Count
            /\ com.DMA_Receive_Size = before.com.DMA_Receive_Size
        BY <2>1, SMT DEF Exchange, ComOK, StepsInv, TypeOK
      <3>2. com.USART_State = before.com.USART_State
        BY <2>1, SMT DEF Exchange
      <3>3. QED
        BY <3>1, <3>2, SameCom, Zenon
    <2>4. ~UsartPending(before.huart) /\ ~DmaPending(before.huart)
      BY <2>1 DEF Exchange
    <2>5. Coarse!ManageSwap
      BY <1>1, <1>2, <2>1, <2>2, <2>3, <2>4, SameOperators, SMT
         DEF Seen, Unmoved, Coarse!ManageSwap
    <2>6. QED
      BY <2>5
  <1>5. CASE Restart
    <2>1. /\ label = "94" /\ label' = "97" /\ pc' = "test" /\ Exchange
          /\ huart' = HAL_UART_Receive_DMA(huart, com.DMA_buff, 0, com.DMA_Receive_Size)
      BY <1>5, Stages, SMT DEF Restart, From, StepsInv, Swap
    <2>2. Seen' /\ before.pc = "poll"
      BY <2>1, SeenAtRest, SMT DEF Exchange, Rest
    <2>3. /\ {PROCESSED, PENDING} \subseteq before.com.USART_State
          /\ before.com.DMA_Receive_Size = before.huart.NDTR
          /\ ~UsartPending(before.huart) /\ ~DmaPending(before.huart)
      BY <2>1, SMT DEF Exchange
    <2>4. com' = com /\ com = HandOver(before.com) /\ huart = HAL_UART_DMAStop(before.huart)
      BY <1>5, RestartDone
    <2>5. Coarse!ManageSwap
      BY <1>1, <1>2, <2>1, <2>2, <2>3, <2>4, SameOperators DEF Seen, Coarse!ManageSwap
    <2>6. QED
      BY <2>5
  <1>6. CASE label' \notin Rest
    BY <1>1, <1>6, Unseen
  <1>7. \/ label' \notin Rest \/ Restart
        \/ Test("70", IF Swappable THEN "72" ELSE "97")
        \/ Test("72", IF Unmoved THEN "81" ELSE "97")
    BY SMT DEF SwapSteps, Assign, Modify, From, Restart, Rest
  <1>8. QED
    BY <1>3, <1>4, <1>5, <1>6, <1>7

\* Lines 97-100: the call of the callback, or not; and the callback.
LEMMA CallSeen ==
  ASSUME Open = Rest, StepsInv, PieceInv, StepsNext, CallSteps
  PROVE  Coarse!ManageCall \/ Coarse!Callback \/ UNCHANGED Coarse!vars
  <1>1. Coarse!NoIrq <=> ~UsartPending(before.huart) /\ ~DmaPending(before.huart)
    BY SameOperators DEF Coarse!NoIrq
  <1>2. CASE Test("97", IF com.receive_count # 0 THEN "99" ELSE "70") /\ label' \in Rest
    <2>1. /\ label = "97" /\ label' = "70" /\ com.receive_count = 0 /\ pc = "test" /\ pc' = "poll"
          /\ NoIrq /\ UNCHANGED <<com, huart, line, mem, arg, received, delivered, lost>>
      BY <1>2, Stages, OpenAssumption, SMT DEF Test, From, StepsInv, Rest, Swap
    <2>2. Seen /\ Seen'
      BY <1>2, <2>1, SeenAtRest, SMT DEF Rest
    <2>3. Coarse!ManageCall
      BY <1>1, <2>1, <2>2, SMT DEF Seen, NoIrq, Coarse!ManageCall
    <2>4. QED
      BY <2>3
  <1>3. CASE /\ From("100", "callback") /\ arg' = [buf |-> com.buff, len |-> com.receive_count]
             /\ UNCHANGED <<com, huart, delivered, temp, reg>>
    <2>1. /\ label = "100" /\ label' = "callback" /\ pc' = "call"
          /\ UNCHANGED <<line, mem, received, lost>>
      BY <1>3, Stages, SMT DEF From
    <2>2. Seen'
      BY <2>1, SeenAtRest, SMT DEF Rest
    <2>3. /\ before.com \in ComType /\ com \in ComType
          /\ ~UsartPending(before.huart) /\ ~DmaPending(before.huart) /\ huart = before.huart
          /\ com.buff = before.com.buff /\ com.DMA_buff = before.com.DMA_buff
          /\ com.DMA_Receive_Count = before.com.DMA_Receive_Count
          /\ com.DMA_Receive_Size = before.com.DMA_Receive_Size
          /\ before.pc = "test" /\ before.com.receive_count # 0
          /\ com.receive_count = before.com.receive_count
          /\ com.USART_State = before.com.USART_State \cup {PROCESSING}
      BY <2>1, SMT DEF PieceInv, StepsInv, TypeOK, Call
    <2> DEFINE d == [before.com EXCEPT !.USART_State = @ \cup {PROCESSING}]
    <2>4. com = d
      <3>1. before.com.USART_State \cup {PROCESSING} \in SUBSET StateBits
        BY <2>3, SMT DEF ComType
      <3>2. /\ d \in ComType /\ d.USART_State = before.com.USART_State \cup {PROCESSING}
            /\ d.buff = before.com.buff /\ d.DMA_buff = before.com.DMA_buff
            /\ d.receive_count = before.com.receive_count
            /\ d.DMA_Receive_Count = before.com.DMA_Receive_Count
            /\ d.DMA_Receive_Size = before.com.DMA_Receive_Size
        BY <2>3, <3>1, SetBits
      <3> HIDE DEF d
      <3>3. QED
        BY <2>3, <3>2, SameCom, Zenon
    <2>5. Coarse!ManageCall
      BY <1>1, <1>3, <2>1, <2>2, <2>3, <2>4, SameOperators DEF Seen, Coarse!ManageCall
    <2>6. QED
      BY <2>5
  <1>4. CASE /\ From("callback", "101")
             /\ delivered' = delivered \o [i \in 1 .. arg.len |-> mem[arg.buf][i - 1]]
             /\ UNCHANGED <<com, huart, arg, temp, reg>>
    <2>1. label = "callback" /\ label' = "101"
      BY <1>4 DEF From
    <2>2. Seen /\ Seen'
      BY <2>1, SeenAtRest, SMT DEF Rest
    <2>3. Callback
      BY <1>4, CallbackRuns
    <2>4. Coarse!Callback
      BY <1>1, <2>2, <2>3 DEF Seen, Callback, NoIrq, Coarse!Callback
    <2>5. QED
      BY <2>4
  <1>5. CASE label' \notin Rest /\ UNCHANGED <<line, mem, arg, received, delivered, lost>>
    BY <1>5, Unseen
  <1>6. CASE Test("97", IF com.receive_count # 0 THEN "99" ELSE "70") /\ label' \notin Rest
    BY <1>5, <1>6 DEF Test, From
  <1>7. CASE From("99", "99=") /\ UNCHANGED <<arg, delivered>>
    <2>1. label' \notin Rest
      BY <1>7, SMT DEF From, Rest
    <2>2. QED
      BY <1>5, <1>7, <2>1 DEF From
  <1>8. CASE From("99=", "100") /\ UNCHANGED <<arg, delivered>>
    <2>1. label' \notin Rest
      BY <1>8, SMT DEF From, Rest
    <2>2. QED
      BY <1>5, <1>8, <2>1 DEF From
  <1>9. QED
    BY <1>2, <1>3, <1>4, <1>6, <1>7, <1>8 DEF CallSteps, Modify, Assign

\* Lines 101-110: what follows the callback.
LEMMA FinishSeen ==
  ASSUME Open = Rest, StepsInv, PieceInv, StepsNext, FinishSteps
  PROVE  Coarse!ManageFinish \/ UNCHANGED Coarse!vars
  <1>1. UNCHANGED <<line, mem, arg, received, delivered, lost>>
    BY SMT DEF FinishSteps, Test, Assign, Modify, From
  <1>2. CASE Assign("110=", "70", [com EXCEPT !.USART_State = (reg \cup {}) \ {PROCESSING}])
    <2>1. /\ label = "110=" /\ label' = "70" /\ pc' = "poll"
          /\ UNCHANGED <<huart, line, mem, arg, received, delivered, lost>>
          /\ com'.buff = com.buff /\ com'.DMA_buff = com.DMA_buff
          /\ com'.receive_count = com.receive_count
          /\ com'.DMA_Receive_Count = com.DMA_Receive_Count
          /\ com'.DMA_Receive_Size = com.DMA_Receive_Size
          /\ com'.USART_State = com.USART_State \ {PROCESSING}
          /\ com' \in ComType
      BY <1>2, EndStores DEF StepsInv, TypeOK
    <2>2. Seen'
      BY <2>1, SeenAtRest, SMT DEF Rest
    <2>3. /\ before.com \in ComType
          /\ ~UsartPending(before.huart) /\ ~DmaPending(before.huart) /\ huart = before.huart
          /\ com.buff = before.com.buff /\ com.DMA_buff = before.com.DMA_buff
          /\ com.DMA_Receive_Count = before.com.DMA_Receive_Count
          /\ com.DMA_Receive_Size = before.com.DMA_Receive_Size
          /\ before.pc = "return"
          /\ com.receive_count = IF FULL \in before.com.USART_State
                                 THEN before.com.receive_count ELSE 0
          /\ com.USART_State = IF FULL \in before.com.USART_State
                               THEN before.com.USART_State \ {FULL}
                               ELSE before.com.USART_State \cup {PROCESSED}
      BY <2>1, SMT DEF PieceInv, Finish
    <2> DEFINE S == IF FULL \in before.com.USART_State
                    THEN before.com.USART_State \ {FULL, PROCESSING}
                    ELSE (before.com.USART_State \cup {PROCESSED}) \ {PROCESSING}
               d == IF FULL \in before.com.USART_State
                    THEN [before.com EXCEPT !.USART_State = @ \ {FULL, PROCESSING}]
                    ELSE [before.com EXCEPT !.receive_count = 0,
                             !.USART_State = (@ \cup {PROCESSED}) \ {PROCESSING}]
    <2>4. com'.USART_State = S
      BY <2>1, <2>3, SMT
    <2>5. /\ d \in ComType /\ d.USART_State = S
          /\ d.buff = before.com.buff /\ d.DMA_buff = before.com.DMA_buff
          /\ d.receive_count = com.receive_count
          /\ d.DMA_Receive_Count = before.com.DMA_Receive_Count
          /\ d.DMA_Receive_Size = before.com.DMA_Receive_Size
      <3>1. PROCESSED \in StateBits /\ before.com.USART_State \subseteq StateBits
        BY <2>3, SMT DEF ComType, StateBits
      <3>2. S \in SUBSET StateBits
        BY <3>1, Zenon
      <3>3. CASE FULL \in before.com.USART_State
        BY <2>3, <3>2, <3>3, SetBits
      <3>4. CASE FULL \notin before.com.USART_State
        <4>1. 0 \in 0 .. USART_RECEIVE_MAX
          BY MaxAssumption, SMT
        <4> DEFINE b == [before.com EXCEPT !.receive_count = 0]
        <4>2. d = [b EXCEPT !.USART_State = S]
          BY <3>4, SMT DEF ComType
        <4>3. b \in ComType
          BY <2>3, <4>1, SetReceiveCount, Zenon
        <4>4. /\ b.buff = before.com.buff /\ b.DMA_buff = before.com.DMA_buff
              /\ b.DMA_Receive_Count = before.com.DMA_Receive_Count
              /\ b.DMA_Receive_Size = before.com.DMA_Receive_Size /\ b.receive_count = 0
          BY <2>3, SMT DEF ComType
        <4> HIDE DEF S, d, b
        <4>5. QED
          BY <2>3, <3>2, <3>4, <4>2, <4>3, <4>4, SetBits
      <3>5. QED
        BY <3>3, <3>4
    <2>6. com' = d
      <3> HIDE DEF d, S
      <3>1. QED
        BY <2>1, <2>3, <2>4, <2>5, SameCom, Zenon
    <2>7. Coarse!NoIrq
      BY <2>3, SameOperators DEF Coarse!NoIrq
    <2>8. Coarse!ManageFinish
      BY <2>1, <2>2, <2>3, <2>6, <2>7, SameOperators DEF Seen, Coarse!ManageFinish
    <2>9. QED
      BY <2>8
  <1>3. CASE label' \notin Rest
    BY <1>1, <1>3, Unseen
  <1>4. \/ label' \notin Rest
        \/ Assign("110=", "70", [com EXCEPT !.USART_State = (reg \cup {}) \ {PROCESSING}])
    BY SMT DEF FinishSteps, Test, Assign, Modify, From, Rest
  <1>5. QED
    BY <1>2, <1>3, <1>4

\* Every step is a step of UsartRx, or is not seen.
LEMMA StepSeen ==
  ASSUME Open = Rest, StepsInv, PieceInv, [StepsNext]_steps
  PROVE  [Coarse!Next]_(Coarse!vars)
  <1>1. CASE StepsNext /\ Preempt
    <2>1. label \in Rest /\ label' = label /\ Handler
      BY <1>1 DEF Preempt, Handler
    <2>2. QED
      BY <1>1, <2>1, SeenAtRest, SeenHandler
  <1>2. CASE StepsNext /\ receive_str_manage
    BY <1>2, SwapSeen, CallSeen, FinishSeen, Zenon DEF receive_str_manage, Coarse!Next, Coarse!Manage
  <1>3. CASE UNCHANGED steps
    BY <1>3 DEF steps, vars, Coarse!vars
  <1>4. QED
    BY <1>1, <1>2, <1>3 DEF StepsNext

\* usart.c:66-111: as long as bytes and handlers come only between its pieces,
\* receive_str_manage taken one statement at a time does what the main loop of
\* UsartRx does in one step for each piece.
THEOREM PiecesAreAtomic ==
  ASSUME Open = Rest
  PROVE  StepsSpec => ImplementsUsartRx
  <1>1. Open \subseteq Safe
    BY DEF Safe
  <1>2. StepsInit => StepsInv /\ PieceInv /\ Coarse!Init
    <2> SUFFICES ASSUME StepsInit PROVE StepsInv /\ PieceInv /\ Coarse!Init
      OBVIOUS
    <2>1. StepsInv
      BY StepsInitStep
    <2>2. PieceInv
      BY SMT DEF StepsInit, PieceInv, Call, Finish
    <2>3. Seen
      BY <2>1, SeenAtRest, SMT DEF StepsInit, Rest
    <2>4. Coarse!Init
      BY <2>3, SameOperators DEF StepsInit, Init, Seen, Coarse!Init, Coarse!Buffers, Buffers,
                                 Coarse!Index, Index
    <2>5. QED
      BY <2>1, <2>2, <2>4
  <1>3. (StepsInv /\ PieceInv) /\ [StepsNext]_steps => (StepsInv /\ PieceInv)'
    BY <1>1, StepsStep, PieceStep
  <1>4. (StepsInv /\ PieceInv) /\ [StepsNext]_steps => [Coarse!Next]_(Coarse!vars)
    BY StepSeen
  <1>5. QED
    BY <1>2, <1>3, <1>4, PTL DEF StepsSpec, ImplementsUsartRx, Coarse!Spec
=============================================================================
