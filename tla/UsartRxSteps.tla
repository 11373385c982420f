---------------------------- MODULE UsartRxSteps ----------------------------
(***************************************************************************)
(* receive_str_manage (usart.c:66-111), one statement at a time, preempted *)
(* by the handlers of UsartRx.  A label is the line that comes next; a     *)
(* change of a bit of USART_State loads the byte at line n and stores it   *)
(* at "n=".  Each call of the HAL is still one step.                       *)
(***************************************************************************)
EXTENDS UsartRx

CONSTANT
  Open      \* the labels before which bytes may come and handlers may run

VARIABLES
  label,    \* what receive_str_manage does next; pc follows it
  temp,     \* its local variable
  reg,      \* the register that holds USART_State between load and store
  before    \* history: com, huart and pc at the last label of Rest

steps == <<vars, label, temp, reg, before>>

\* The labels between the pieces that UsartRx takes for atomic.
Rest   == {"70", "97", "callback", "101"}
Swap   == {"72", "81", "83", "84", "85", "88", "90", "90=", "91", "92", "93", "93=", "94"}
Call   == {"99", "99=", "100"}
Finish == {"103", "103=", "107", "108", "108=", "110", "110="}
Labels == Rest \cup Swap \cup Call \cup Finish

ASSUME OpenAssumption == Rest \subseteq Open /\ Open \subseteq Labels

\* Where the main loop is as UsartRx sees it; at 100 the handlers see the callback
\* as running, at 110 it is done and what receive_count counts is unread again.
Stage(l) ==
  CASE l \in {"97", "99", "99="}                   -> "test"
    [] l \in {"100", "callback"}                  -> "call"
    [] l \in ({"101"} \cup Finish) \ {"110", "110="} -> "return"
    [] OTHER                                      -> "poll"

-----------------------------------------------------------------------------
StepsInit ==
  /\ Init
  /\ label = "70" /\ temp = "buff1" /\ reg = {}
  /\ before = [com |-> com, huart |-> huart, pc |-> "poll"]

\* The line and the handlers, between two statements of the main loop.
Preempt ==
  /\ label \in Open
  /\ UNCHANGED <<label, temp, reg>>
  /\ \/ \E noisy \in BOOLEAN : ByteArrives(noisy)
     \/ LineIdle
     \/ USART_IRQHandler
     \/ DMA_IRQHandler

-----------------------------------------------------------------------------
\* The kinds of statement.  Handlers that are due run first.
From(l, m) ==
  /\ label = l /\ label' = m /\ pc' = Stage(m)
  /\ l \in Open => NoIrq
  /\ UNCHANGED <<line, mem, received, lost>>

Test(l, m) == From(l, m) /\ UNCHANGED <<com, huart, arg, delivered, temp, reg>>

Assign(l, m, c) == From(l, m) /\ com' = c /\ UNCHANGED <<huart, arg, delivered, temp, reg>>

\* com->USART_State = S(com->USART_State), S given by the bits to set and to clear.
Modify(l, store, m, set, clear) ==
  \/ From(l, store) /\ reg' = com.USART_State
       /\ UNCHANGED <<com, huart, arg, delivered, temp>>
  \/ Assign(store, m, [com EXCEPT !.USART_State = (reg \cup set) \ clear])

\* Faults: either bit will do; the stream is not looked at.
Swappable_EitherBit == {PROCESSED, PENDING} \cap com.USART_State # {}
Unmoved_NotTested   == TRUE

Swappable == {PROCESSED, PENDING} \subseteq com.USART_State
Unmoved   == com.DMA_Receive_Size = huart.NDTR

SwapSteps ==
  \/ Test("70", IF Swappable THEN "72" ELSE "97")
  \/ Test("72", IF Unmoved THEN "81" ELSE "97")
  \/ /\ From("81", "83") /\ huart' = HAL_UART_DMAStop(huart)
     /\ UNCHANGED <<com, arg, delivered, temp, reg>>
  \/ /\ From("83", "84") /\ temp' = com.DMA_buff
     /\ UNCHANGED <<com, huart, arg, delivered, reg>>
  \/ Assign("84", "85", [com EXCEPT !.DMA_buff = com.buff])
  \/ Assign("85", "88", [com EXCEPT !.buff = temp])
  \/ Assign("88", "90", [com EXCEPT !.DMA_Receive_Size = USART_RECEIVE_MAX])
  \/ Modify("90", "90=", "91", {}, {PROCESSED})
  \/ Assign("91", "92", [com EXCEPT !.receive_count = com.DMA_Receive_Count])
  \/ Assign("92", "93", [com EXCEPT !.DMA_Receive_Count = 0])
  \/ Modify("93", "93=", "94", {}, {PENDING})
  \/ /\ From("94", "97")
     /\ huart' = HAL_UART_Receive_DMA(huart, com.DMA_buff, 0, com.DMA_Receive_Size)
     /\ UNCHANGED <<com, arg, delivered, temp, reg>>

CallSteps ==
  \/ Test("97", IF com.receive_count # 0 THEN "99" ELSE "70")
  \/ Modify("99", "99=", "100", {PROCESSING}, {})
  \/ /\ From("100", "callback") /\ arg' = [buf |-> com.buff, len |-> com.receive_count]
     /\ UNCHANGED <<com, huart, delivered, temp, reg>>
  \/ /\ From("callback", "101")
     /\ delivered' = delivered \o [i \in 1 .. arg.len |-> mem[arg.buf][i - 1]]
     /\ UNCHANGED <<com, huart, arg, temp, reg>>

FinishSteps ==
  \/ Test("101", IF FULL \in com.USART_State THEN "103" ELSE "107")
  \/ Modify("103", "103=", "110", {}, {FULL})
  \/ Assign("107", "108", [com EXCEPT !.receive_count = 0])
  \/ Modify("108", "108=", "110", {PROCESSED}, {})
  \/ Modify("110", "110=", "70", {}, {PROCESSING})

receive_str_manage == SwapSteps \/ CallSteps \/ FinishSteps

StepsNext ==
  /\ Preempt \/ receive_str_manage
  /\ before' = IF label' \in Rest
               THEN [com |-> com', huart |-> huart', pc |-> pc'] ELSE before

StepsSpec == StepsInit /\ [][StepsNext]_steps

-----------------------------------------------------------------------------
\* When nothing comes in the middle of a piece, receive_str_manage is what UsartRx
\* takes it for: the pieces between Rest labels are atomic and leave the same state.
Coarse == INSTANCE UsartRx WITH
  com <- before.com, huart <- before.huart, pc <- before.pc
ImplementsUsartRx == Coarse!Spec

\* With bytes and handlers at the labels of Open the bytes are still intact and the
\* bookkeeping is right whenever receive_str_manage is between two pieces.
IntactAtRest == label \in Rest => StreamIntact /\ DmaStaysInBuffer /\ Handshake

-----------------------------------------------------------------------------
(***************************************************************************)
(* Statements of the comments that fail once a handler comes in the middle. *)
(***************************************************************************)

\* usart.h:20-21: there are two buffers, one for the DMA to store received data and
\* one for the user.  A handler between lines 83 and 84 makes them one for good.
TwoBuffers == label = "70" => com.buff # com.DMA_buff

\* usart.c:72: while the DMA is transferring the buffers are not exchanged here, so
\* the exchange leaves no byte behind.  A byte between lines 72 and 81 is left.
NothingLeftBehind == label = "97" => StreamIntact
=============================================================================
