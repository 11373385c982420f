------------------------------ MODULE UsartRx ------------------------------
(***************************************************************************)
(* The double-buffered receive path of one USART (SYSTEM/usart/usart.c):   *)
(* the DMA stream fills DMA_buff, the IDLE interrupt and the DMA interrupt *)
(* hand full or finished buffers over to buff, and receive_str_manage,     *)
(* polled by the main loop, passes buff to the user's callback.            *)
(*                                                                         *)
(* The two interrupt handlers have the same preemption priority, so each   *)
(* is one step.  receive_str_manage is split where an interrupt may come   *)
(* without racing with it: around the exchange of the buffers, while the   *)
(* callback runs, and before the flags are updated.  UsartRxSteps splits   *)
(* it at every statement instead.                                          *)
(*                                                                         *)
(* Bytes are numbered 1, 2, 3, ... in the order they come over the line.   *)
(***************************************************************************)
EXTENDS HalUartRx, Sequences

CONSTANTS
  USART_RECEIVE_MAX,  \* size of each buffer (50 in usart.h)
  MaxBytes,           \* bound: bytes that come over the line
  UsartFirst,         \* the USART IRQ has the lower number (true for USART1 only)
  Latency             \* how late an interrupt may be served, see below

ASSUME MaxAssumption   == USART_RECEIVE_MAX \in 1 .. 255  \* buff_shift is 8 bits wide
ASSUME BytesAssumption == MaxBytes \in Nat
ASSUME IrqAssumption   == UsartFirst \in BOOLEAN /\ Latency \in 0 .. 2

\* The Ethernet handler runs the IP stack at a higher priority, so these
\* interrupts can be late.  Before the next byte or idle frame is over,
\*   Latency = 0: all interrupts have been served,
\*   Latency = 1: those of a line error have been served,
\*   Latency = 2: none need have been served.

VARIABLES
  com,        \* the STUsart of this port
  huart,      \* its HAL handle, see HalUartRx
  line,       \* "busy" from a byte until the receiver has seen an idle frame
  mem,        \* contents of buff1 and buff2
  pc,         \* where the main loop is in receive_str_manage
  arg,        \* the arguments of the running callback
  received,   \* history: bytes that have come over the line
  delivered,  \* history: bytes the callback has read, in order
  lost        \* history: a byte found no place, or was overwritten unread

vars == <<com, huart, line, mem, pc, arg, received, delivered, lost>>

Buffers == {"buff1", "buff2"}
Index   == 0 .. USART_RECEIVE_MAX - 1

\* The bits of USART_State.
PROCESSING == "0x1"   \* the callback is running
PROCESSED  == "0x2"   \* buff has been processed
FULL       == "0x4"   \* DMA_buff got full while the callback was running
PENDING    == "0x8"   \* DMA_buff holds data that waits for the exchange
StateBits  == {PROCESSING, PROCESSED, FULL, PENDING}

ComType ==
  [buff : Buffers, DMA_buff : Buffers,
   receive_count : 0 .. USART_RECEIVE_MAX,
   DMA_Receive_Count : 0 .. USART_RECEIVE_MAX,
   DMA_Receive_Size : 0 .. USART_RECEIVE_MAX,
   USART_State : SUBSET StateBits]

HandleType ==
  [RxState : RxStates, DMAState : DMAStates,
   M0AR : Buffers, at : 0 .. USART_RECEIVE_MAX,
   NDTR : 0 .. USART_RECEIVE_MAX,
   IDLE : BOOLEAN, ERR : BOOLEAN]

ArgType == [buf : Buffers, len : 0 .. USART_RECEIVE_MAX]

U8(n)  == n % 256
U16(n) == n % 65536

-----------------------------------------------------------------------------
\* Bytes in DMA_buff: those counted so far and those the stream has stored since.
InDmaBuff == com.DMA_Receive_Count + com.DMA_Receive_Size - huart.NDTR

\* Bytes in buff that the callback has not read.
InUserBuff ==
  IF pc = "return" /\ FULL \notin com.USART_State THEN 0 ELSE com.receive_count

NoIrq == ~UsartPending(huart) /\ ~DmaPending(huart)

\* Exchange the buffers and give buff to the user.
HandOver(c) ==
  [c EXCEPT !.buff = c.DMA_buff, !.DMA_buff = c.buff,
            !.receive_count = c.DMA_Receive_Count,
            !.DMA_Receive_Size = USART_RECEIVE_MAX,
            !.DMA_Receive_Count = 0,
            !.USART_State = @ \ {PROCESSED, PENDING}]

\* Faults: the restart takes the whole buffer; the data is not marked as waiting.
Hold_WholeSize(c) ==
  [c EXCEPT !.DMA_Receive_Size = USART_RECEIVE_MAX, !.USART_State = @ \cup {PENDING}]
Hold_Unmarked(c) ==
  [c EXCEPT !.DMA_Receive_Size = U16(USART_RECEIVE_MAX - U8(c.DMA_Receive_Count))]

\* Leave the buffers; the next bytes go behind those already in DMA_buff.
Hold(c) ==
  [c EXCEPT !.DMA_Receive_Size = U16(USART_RECEIVE_MAX - U8(c.DMA_Receive_Count)),
            !.USART_State = @ \cup {PENDING}]

\* Faults: the count of the old buffer stays; a running callback is not noticed.
TakeFull_KeepsCount(c) ==
  [c EXCEPT !.buff = c.DMA_buff, !.DMA_buff = c.buff,
            !.receive_count = U16(c.DMA_Receive_Count + c.DMA_Receive_Size),
            !.DMA_Receive_Size = USART_RECEIVE_MAX,
            !.USART_State = (IF PROCESSING \in @ THEN @ \cup {FULL} ELSE @)
                              \ {PROCESSED}]
TakeFull_Unnoticed(c) ==
  [c EXCEPT !.buff = c.DMA_buff, !.DMA_buff = c.buff,
            !.receive_count = U16(c.DMA_Receive_Count + c.DMA_Receive_Size),
            !.DMA_Receive_Size = USART_RECEIVE_MAX,
            !.DMA_Receive_Count = 0,
            !.USART_State = @ \ {PROCESSED}]

\* HAL_UART_RxCpltCallback up to the restart of the reception.
TakeFull(c) ==
  [c EXCEPT !.buff = c.DMA_buff, !.DMA_buff = c.buff,
            !.receive_count = U16(c.DMA_Receive_Count + c.DMA_Receive_Size),
            !.DMA_Receive_Size = USART_RECEIVE_MAX,
            !.DMA_Receive_Count = 0,
            !.USART_State = (IF PROCESSING \in @ THEN @ \cup {FULL} ELSE @)
                              \ {PROCESSED}]

-----------------------------------------------------------------------------
\* com_init.
Init ==
  /\ com = [buff |-> "buff1", DMA_buff |-> "buff2", receive_count |-> 0,
            DMA_Receive_Count |-> 0, DMA_Receive_Size |-> USART_RECEIVE_MAX,
            USART_State |-> {PROCESSED}]
  /\ huart = [RxState |-> "BUSY_RX", DMAState |-> "BUSY",
              M0AR |-> "buff2", at |-> 0, NDTR |-> USART_RECEIVE_MAX,
              IDLE |-> FALSE, ERR |-> FALSE]
  /\ line = "quiet"
  /\ mem = [b \in Buffers |-> [i \in Index |-> 0]]
  /\ pc = "poll"
  /\ arg = [buf |-> "buff1", len |-> 0]
  /\ received = 0 /\ delivered = <<>> /\ lost = FALSE

\* The latency lets the next byte (with an error?) or idle frame happen now.
InTime(noisy) ==
  /\ Latency = 0 => NoIrq
  /\ Latency = 1 => /\ ~ErrorPending(huart) /\ huart.DMAState # "ABORT"
                    /\ noisy => ~huart.IDLE

\* A byte comes over the line.  The stream stores it, or, when it is not
\* running, the byte is overrun in DR or dropped when DR is read to clear flags.
\* `noisy' raises an error flag (FE or NE with the byte, ORE for an overrun).
ByteArrives(noisy) ==
  /\ received < MaxBytes
  /\ InTime(noisy)
  /\ received' = received + 1
  /\ line' = "busy"
  /\ \/ /\ Streaming(huart)
        /\ mem' = [mem EXCEPT ![huart.M0AR][huart.at] = received + 1]
        /\ huart' = [huart EXCEPT !.at = @ + 1, !.NDTR = @ - 1, !.ERR = @ \/ noisy]
        /\ lost' = lost
     \/ /\ ~Streaming(huart)
        /\ huart' = [huart EXCEPT !.ERR = @ \/ noisy]
        /\ lost' = TRUE
        /\ UNCHANGED mem
  /\ UNCHANGED <<com, pc, arg, delivered>>

\* The receiver sees an idle frame; the flag is not raised again before a byte.
LineIdle ==
  /\ line = "busy"
  /\ InTime(FALSE)
  /\ line' = "quiet"
  /\ huart' = [huart EXCEPT !.IDLE = TRUE]
  /\ UNCHANGED <<com, mem, pc, arg, received, delivered, lost>>

\* USARTx_IRQHandler.  Reading SR and then DR clears IDLE and the error flags.
USART_IRQHandler ==
  /\ UsartPending(huart)
  /\ UsartFirst \/ ~DmaPending(huart)
  /\ LET h       == HAL_UART_IRQHandler(huart)
         stopped == HAL_UART_DMAStop([h EXCEPT !.IDLE = FALSE, !.ERR = FALSE])
         counted == [com EXCEPT !.DMA_Receive_Count = U16(InDmaBuff)]
     IN  \/ /\ ~huart.IDLE
            /\ huart' = h
            /\ UNCHANGED com
         \/ /\ huart.IDLE
            /\ PROCESSED \in com.USART_State
            /\ com' = HandOver(counted)
            /\ huart' = HAL_UART_Receive_DMA(stopped, com'.DMA_buff, 0,
                                             com'.DMA_Receive_Size)
         \/ /\ huart.IDLE
            /\ PROCESSED \notin com.USART_State
            /\ com' = Hold(counted)
            /\ huart' = HAL_UART_Receive_DMA(stopped, com'.DMA_buff,
                                             U8(com'.DMA_Receive_Count),
                                             com'.DMA_Receive_Size)
  /\ UNCHANGED <<line, mem, pc, arg, received, delivered, lost>>

\* DMAx_StreamY_IRQHandler with HAL_UART_RxCpltCallback: the full DMA_buff is
\* forced on the user, whatever buff holds.
DMA_IRQHandler ==
  /\ DmaPending(huart)
  /\ ~UsartFirst \/ ~UsartPending(huart)
  /\ \/ /\ huart.DMAState = "ABORT"
        /\ huart' = HAL_DMA_IRQHandler(huart)
        /\ UNCHANGED <<com, lost>>
     \/ /\ huart.DMAState # "ABORT"
        /\ com' = TakeFull(com)
        /\ huart' = HAL_UART_Receive_DMA(HAL_DMA_IRQHandler(huart),
                                         com'.DMA_buff, 0, com'.DMA_Receive_Size)
        /\ lost' = (lost \/ InUserBuff # 0)
  /\ UNCHANGED <<line, mem, pc, arg, received, delivered>>

-----------------------------------------------------------------------------
\* Fault: the exchange ignores bytes the stream has stored since the last IDLE.
ManageSwap_IgnoresStream ==
  /\ pc = "poll" /\ NoIrq
  /\ pc' = "test"
  /\ IF {PROCESSED, PENDING} \subseteq com.USART_State
     THEN /\ com' = HandOver(com)
          /\ huart' = HAL_UART_Receive_DMA(HAL_UART_DMAStop(huart), com'.DMA_buff,
                                           0, com'.DMA_Receive_Size)
     ELSE UNCHANGED <<com, huart>>
  /\ UNCHANGED <<line, mem, arg, received, delivered, lost>>

\* receive_str_manage, the exchange of the buffers: only when the user is done,
\* DMA_buff holds data, and the stream has stored nothing since the last IDLE.
ManageSwap ==
  /\ pc = "poll" /\ NoIrq
  /\ pc' = "test"
  /\ IF {PROCESSED, PENDING} \subseteq com.USART_State
          /\ com.DMA_Receive_Size = huart.NDTR
     THEN /\ com' = HandOver(com)
          /\ huart' = HAL_UART_Receive_DMA(HAL_UART_DMAStop(huart), com'.DMA_buff,
                                           0, com'.DMA_Receive_Size)
     ELSE UNCHANGED <<com, huart>>
  /\ UNCHANGED <<line, mem, arg, received, delivered, lost>>

\* receive_str_manage, the call of the callback.
ManageCall ==
  /\ pc = "test" /\ NoIrq
  /\ IF com.receive_count # 0
     THEN /\ pc' = "call"
          /\ com' = [com EXCEPT !.USART_State = @ \cup {PROCESSING}]
          /\ arg' = [buf |-> com.buff, len |-> com.receive_count]
     ELSE /\ pc' = "poll"
          /\ UNCHANGED <<com, arg>>
  /\ UNCHANGED <<huart, line, mem, received, delivered, lost>>

\* The callback reads the bytes it was given.
Callback ==
  /\ pc = "call" /\ NoIrq
  /\ pc' = "return"
  /\ delivered' = delivered \o [i \in 1 .. arg.len |-> mem[arg.buf][i - 1]]
  /\ UNCHANGED <<com, huart, line, mem, arg, received, lost>>

\* Faults: a buffer that got full meanwhile is forgotten; the count is not reset.
ManageFinish_ForgetsFull ==
  /\ pc = "return" /\ NoIrq
  /\ pc' = "poll"
  /\ com' = [com EXCEPT !.receive_count = 0,
                        !.USART_State = (@ \cup {PROCESSED}) \ {FULL, PROCESSING}]
  /\ UNCHANGED <<huart, line, mem, arg, received, delivered, lost>>
ManageFinish_KeepsCount ==
  /\ pc = "return" /\ NoIrq
  /\ pc' = "poll"
  /\ com' = [com EXCEPT !.USART_State =
                IF FULL \in @ THEN @ \ {FULL, PROCESSING}
                              ELSE (@ \cup {PROCESSED}) \ {PROCESSING}]
  /\ UNCHANGED <<huart, line, mem, arg, received, delivered, lost>>

\* receive_str_manage, after the callback.
ManageFinish ==
  /\ pc = "return" /\ NoIrq
  /\ pc' = "poll"
  /\ com' = IF FULL \in com.USART_State
            THEN [com EXCEPT !.USART_State = @ \ {FULL, PROCESSING}]
            ELSE [com EXCEPT !.receive_count = 0,
                             !.USART_State = (@ \cup {PROCESSED}) \ {PROCESSING}]
  /\ UNCHANGED <<huart, line, mem, arg, received, delivered, lost>>

Manage == ManageSwap \/ ManageCall \/ Callback \/ ManageFinish

Next ==
  \/ \E noisy \in BOOLEAN : ByteArrives(noisy)
  \/ LineIdle
  \/ USART_IRQHandler
  \/ DMA_IRQHandler
  \/ Manage

Spec == Init /\ [][Next]_vars

\* Interrupts are served, the main loop runs on, and a silent line is seen
\* idle.  Nothing says that another byte ever comes.
Fairness ==
  /\ WF_vars(LineIdle)
  /\ WF_vars(USART_IRQHandler)
  /\ WF_vars(DMA_IRQHandler)
  /\ WF_vars(Manage)

FairSpec == Spec /\ Fairness
-----------------------------------------------------------------------------
(***************************************************************************)
(* Properties.                                                             *)
(***************************************************************************)

\* Every variable has its type; the 16-bit counters of STUsart never leave the
\* range of a buffer, so that neither they nor the 8-bit buff_shift ever wrap.
TypeOK ==
  /\ com \in ComType
  /\ huart \in HandleType
  /\ line \in {"busy", "quiet"}
  /\ mem \in [Buffers -> [Index -> Nat]]
  /\ pc \in {"poll", "test", "call", "return"}
  /\ arg \in ArgType
  /\ received \in Nat
  /\ delivered \in Seq(Nat)
  /\ lost \in BOOLEAN

\* Wherever a handler restarts the reception, the running stream writes to
\* DMA_buff only, behind the bytes already counted, and cannot run past the end
\* of the array (usart.c:500-515, 87-94, 314-337).
DmaStaysInBuffer ==
  /\ com.buff # com.DMA_buff
  /\ Running(huart) =>
       /\ huart.M0AR = com.DMA_buff
       /\ huart.at = InDmaBuff
       /\ huart.at + huart.NDTR = USART_RECEIVE_MAX

\* The handshake between receive_str_manage and the two handlers: buff is marked
\* processed only when nothing in it waits, data held back in DMA_buff is always
\* marked, FULL is only up while the callback runs, and then a complete new buffer
\* waits behind the one being processed.
Handshake ==
  /\ PROCESSED \in com.USART_State => com.receive_count = 0
  /\ com.DMA_Receive_Count > 0 => PENDING \in com.USART_State
  /\ PROCESSING \in com.USART_State <=> pc \in {"call", "return"}
  /\ PROCESSING \in com.USART_State => com.receive_count # 0
  /\ FULL \in com.USART_State =>
       /\ PROCESSING \in com.USART_State
       /\ com.receive_count = USART_RECEIVE_MAX

\* The counters and the handles agree at every instant: the part of DMA_buff that
\* is counted and the part given to the stream make up the whole buffer; and a stream
\* is never left under way without a reception that owns it (usart.c:482-518,
\* 314-337, stm32f4xx_hal_uart.c:940-1115).
Bookkeeping ==
  /\ com.DMA_Receive_Count + com.DMA_Receive_Size = USART_RECEIVE_MAX
  /\ huart.NDTR <= com.DMA_Receive_Size
  /\ huart.DMAState = "BUSY" => huart.RxState = "BUSY_RX"

\* The callback works on buff, never on nothing, until the DMA buffer gets full
\* (usart.c:96-100).
Argument ==
  /\ PROCESSING \in com.USART_State /\ FULL \notin com.USART_State =>
       arg = [buf |-> com.buff, len |-> com.receive_count]
  /\ pc \in {"call", "return"} => arg.len # 0

\* The inductive invariant behind all of these, whatever the latency.  Its first
\* part does not depend on the argument of the callback.
Kept == TypeOK /\ DmaStaysInBuffer /\ Handshake /\ Bookkeeping
IInv == Kept /\ Argument

\* While no byte has been lost the two buffers hold, one behind the other,
\* exactly the bytes that have come and have not been read; so every byte is
\* delivered once and in order, whatever the interleaving of the two handlers
\* and receive_str_manage.
StreamIntact ==
  ~lost =>
    LET read == Len(delivered)
    IN  /\ received = read + InUserBuff + InDmaBuff
        /\ \A i \in 1 .. read : delivered[i] = i
        /\ \A i \in 0 .. InUserBuff - 1 : mem[com.buff][i] = read + 1 + i
        /\ \A i \in 0 .. InDmaBuff - 1 :
             mem[com.DMA_buff][i] = read + InUserBuff + 1 + i

\* With errors handled in time every restart of the reception succeeds, and
\* while nothing is lost the callback has read before the DMA buffer gets full:
\* what the induction on StreamIntact needs besides IInv.
RestartsSucceed ==
  /\ huart.RxState = "BUSY_RX" => huart.DMAState = "BUSY"
  /\ huart.IDLE => ~ErrorPending(huart) /\ huart.DMAState # "ABORT"
  /\ ~lost /\ pc = "call" => FULL \notin com.USART_State

StreamInv == IInv /\ RestartsSucceed /\ StreamIntact

\* The IDLE handler never takes buff away from the callback: the bytes passed
\* to the callback change only after the DMA buffer has got full meanwhile.
CallbackDataStable ==
  [][(pc = "call" /\ FULL \notin com'.USART_State) =>
        \A i \in 0 .. arg.len - 1 : mem'[arg.buf][i] = mem[arg.buf][i]]_vars

\* The receive path keeps the promise of RxStream.
Stream == INSTANCE RxStream WITH ChunkMax <- USART_RECEIVE_MAX
ImplementsStream == Stream!Spec

\* As long as no more bytes come than fit into one buffer, each of them is read, however
\* messages, polls and callbacks interleave: data held back by the IDLE handler
\* is picked up by a later receive_str_manage (usart.c:64).
EventuallyRead == []<>(lost \/ Len(delivered) = received)

\* Whenever the line falls silent the reception is running again soon after: a
\* port that a line error has stopped hears the next message (usart.c:515).
ReceptionRestarts == huart.IDLE ~> Streaming(huart)

-----------------------------------------------------------------------------
(***************************************************************************)
(* Statements of the comments that the code does not keep.                 *)
(***************************************************************************)

\* usart.c:64, on data the user was too slow for: it is kept in the DMA buffer
\* and processed by the next calls of receive_str_manage.
HeldDataIsProcessed ==
  (PENDING \in com.USART_State /\ com.DMA_Receive_Count > 0 /\ ~lost)
     ~> (lost \/ Len(delivered) = received)

\* usart.h:22: _DMA_Receive_Count counts bytes that have been received; the
\* callback is never given more bytes than came over the line.
NoMoreThanReceived == Len(delivered) <= received
=============================================================================
