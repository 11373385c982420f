----------------------------- MODULE UsartEcho -----------------------------
(***************************************************************************)
(* The transmit path of usart1 on top of its receive path: the callbacks   *)
(* of main.c echo what they are given with com_send_str, which leaves the  *)
(* bytes where they are and starts a DMA transfer.  All ports send through *)
(* usart1, so that the transfer may be one of another port's message.      *)
(*                                                                         *)
(* The receive path shares the HAL handle with the transfer: it is refused *)
(* a restart while HAL_UART_Transmit_DMA holds the lock of the handle, and *)
(* HAL_UART_DMAStop ends the transfer, too.                                *)
(***************************************************************************)
EXTENDS UsartRx

\* The handle is that of usart1, whose interrupt comes before that of its stream.
ASSUME Usart1Assumption == UsartFirst

VARIABLES
  tx,      \* the transmit half of the handle, with its DMA stream
  msg,     \* history: the bytes the running callback was given, or the last one
  refused, \* history: a restart of the reception was refused
  paced,   \* the stream has sent a byte since the last one was received
  late     \* history: DMA_buff got full in the callback, before its transfer began

echo    == <<tx, msg, refused, paced, late>>
allvars == <<vars, echo>>

\* Bytes other ports send, whose buffers are not modelled.
Other == "other"

EchoInit ==
  /\ Init
  /\ tx = [gState |-> "READY", locked |-> FALSE, DMAT |-> FALSE, TCIE |-> FALSE,
           DMAState |-> "READY", buf |-> Other, at |-> 0, len |-> 0, want |-> <<>>,
           timely |-> TRUE]
  /\ msg = <<>>
  /\ refused = FALSE /\ paced = TRUE /\ late = FALSE

\* Fault: what the loop was meant to wait for.
BusyTx_AnyReception == tx.gState = "BUSY_TX"

\* HAL_UART_GetState is the union of both states, so that the loop of
\* com_send_str waits for a transfer only while nothing is being received.
BusyTx == tx.gState = "BUSY_TX" /\ huart.RxState = "READY"

\* HAL_UART_Transmit_DMA up to the start of the stream.
Started(b, n, bytes) ==
  [tx EXCEPT !.gState = "BUSY_TX", !.locked = TRUE, !.DMAState = "BUSY",
             !.buf = b, !.at = 0, !.len = n, !.want = bytes]

\* Faults: the stream stops, the transfer counts as under way; only the
\* request of the stream is taken back.
StopTx_StaysBusy ==
  IF tx.gState = "BUSY_TX" /\ tx.DMAT
  THEN [tx EXCEPT !.DMAT = FALSE, !.DMAState = "READY"]
  ELSE tx

\* HAL_UART_DMAStop, its transmit half.
StopTx ==
  IF tx.gState = "BUSY_TX" /\ tx.DMAT
  THEN [tx EXCEPT !.DMAT = FALSE, !.DMAState = "READY", !.TCIE = FALSE,
                  !.gState = "READY"]
  ELSE tx

-----------------------------------------------------------------------------
(* The line and the stream.                                                *)

Sending == tx.DMAT /\ tx.at < tx.len

\* Both directions have the same baud rate.  The callback may be interrupted for
\* any number of bytes; `late' notes the one that fills DMA_buff, unless it came
\* while the callback waited of itself.
Receive(noisy) ==
  /\ Sending => paced
  /\ ByteArrives(noisy)
  /\ paced' = FALSE
  /\ late' = (late \/ (pc = "call" /\ ~tx.locked /\ Streaming(huart) /\ huart.NDTR = 1
                       /\ ~BusyTx))
  /\ UNCHANGED <<tx, msg, refused>>

EchoIdle == LineIdle /\ UNCHANGED echo

\* The stream fetches the next byte from wherever it was told to.
SendByte ==
  /\ Sending
  /\ tx' = [tx EXCEPT !.at = @ + 1]
  /\ paced' = TRUE
  /\ UNCHANGED <<vars, msg, refused, late>>

-----------------------------------------------------------------------------
(* Interrupts.                                                             *)

\* The receive handlers of UsartRx; the IDLE handler stops the transfer.
Handlers ==
  /\ ~tx.locked
  /\ \/ /\ USART_IRQHandler
        /\ tx' = IF huart.IDLE THEN StopTx ELSE tx
     \/ /\ DMA_IRQHandler
        /\ UNCHANGED tx
  /\ UNCHANGED <<msg, refused, paced, late>>

\* USART1_IRQHandler in the middle of HAL_UART_Transmit_DMA: the reception is
\* stopped and not restarted.
LockedIdle ==
  /\ tx.locked /\ UsartPending(huart)
  /\ LET h == HAL_UART_IRQHandler(huart)
         counted == [com EXCEPT !.DMA_Receive_Count = U16(InDmaBuff)]
     IN  IF huart.IDLE
         THEN /\ com' = IF PROCESSED \in com.USART_State THEN HandOver(counted)
                                                         ELSE Hold(counted)
              /\ huart' = HAL_UART_DMAStop([h EXCEPT !.IDLE = FALSE, !.ERR = FALSE])
              /\ tx' = StopTx /\ refused' = TRUE
         ELSE huart' = h /\ UNCHANGED <<com, tx, refused>>
  /\ UNCHANGED <<line, mem, pc, arg, received, delivered, lost, msg, paced, late>>

\* HAL_UART_RxCpltCallback there: a full buffer is handed over, nothing restarts.
LockedFull ==
  /\ tx.locked /\ DmaPending(huart) /\ ~UsartPending(huart)
  /\ huart' = HAL_DMA_IRQHandler(huart)
  /\ IF huart.DMAState = "ABORT"
     THEN UNCHANGED <<com, lost, refused>>
     ELSE /\ com' = TakeFull(com)
          /\ lost' = (lost \/ InUserBuff # 0)
          /\ refused' = TRUE
  /\ UNCHANGED <<line, mem, pc, arg, received, delivered, tx, msg, paced, late>>

\* The stream has fetched the last byte: UART_DMATransmitCplt.
DmaTxComplete ==
  /\ tx.DMAState = "BUSY" /\ tx.DMAT /\ tx.at = tx.len
  /\ tx' = [tx EXCEPT !.DMAState = "READY", !.DMAT = FALSE, !.TCIE = TRUE]
  /\ UNCHANGED <<vars, msg, refused, paced, late>>

\* The last byte is out: UART_EndTransmit_IT.
TxComplete ==
  /\ tx.TCIE
  /\ tx' = [tx EXCEPT !.TCIE = FALSE, !.gState = "READY"]
  /\ UNCHANGED <<vars, msg, refused, paced, late>>

-----------------------------------------------------------------------------
(* The main loop.                                                          *)

\* HAL_UART_Transmit_DMA has started the stream, which gets no requests yet.
Starting == tx.DMAState = "BUSY" /\ ~tx.DMAT

\* receive_str_manage; its exchange of the buffers stops the transfer.
EchoManage ==
  /\ ~Starting
  /\ \/ ManageSwap /\ tx' = (IF com' # com THEN StopTx ELSE tx) /\ UNCHANGED <<msg, late>>
     \/ /\ ManageCall /\ UNCHANGED tx
        /\ IF pc' = "call"
           THEN /\ msg' = [i \in 1 .. com.receive_count |-> mem[com.buff][i - 1]]
                /\ late' = FALSE
           ELSE UNCHANGED <<msg, late>>
     \/ ManageFinish /\ UNCHANGED <<tx, msg, late>>
  /\ UNCHANGED <<refused, paced>>

\* usart1_call_back finds the transmitter free and starts its transfer ...
SendStart ==
  /\ pc = "call" /\ NoIrq /\ ~BusyTx
  /\ tx.gState = "READY"
  /\ tx' = Started(arg.buf, arg.len, msg)
  /\ UNCHANGED <<vars, msg, refused, paced, late>>

\* ... gives the handle back ...
SendUnlock ==
  /\ tx.locked /\ NoIrq
  /\ tx' = [tx EXCEPT !.locked = FALSE]
  /\ UNCHANGED <<vars, msg, refused, paced, late>>

\* ... and lets the stream have requests.
SendEnd ==
  /\ Starting /\ ~tx.locked
  /\ IF pc = "call" THEN Callback ELSE NoIrq /\ UNCHANGED vars
  /\ tx' = [tx EXCEPT !.DMAT = TRUE, !.timely = ~late]
  /\ paced' = TRUE
  /\ UNCHANGED <<msg, refused, late>>

\* It finds the transmitter busy: HAL_BUSY at once, or HAL_TIMEOUT after 10 ms.
SendRefused ==
  /\ ~Starting /\ tx.gState = "BUSY_TX"
  /\ Callback
  /\ UNCHANGED echo

\* The callback of another port has started a transfer on usart1.
OtherSends ==
  /\ pc = "poll" /\ NoIrq /\ tx.gState = "READY"
  /\ \E n \in 1 .. USART_RECEIVE_MAX : tx' = Started(Other, n, <<>>)
  /\ UNCHANGED <<vars, msg, refused, paced, late>>

EchoMain == EchoManage \/ SendStart \/ SendUnlock \/ SendEnd \/ SendRefused \/ OtherSends

EchoNext ==
  \/ \E noisy \in BOOLEAN : Receive(noisy)
  \/ EchoIdle \/ SendByte
  \/ Handlers \/ LockedIdle \/ LockedFull
  \/ DmaTxComplete \/ TxComplete
  \/ EchoMain

EchoSpec == EchoInit /\ [][EchoNext]_allvars

\* The stream, the interrupts and the main loop go on.
EchoFairSpec ==
  /\ EchoSpec
  /\ WF_allvars(SendByte) /\ WF_allvars(DmaTxComplete) /\ WF_allvars(TxComplete)
  /\ WF_allvars(Handlers) /\ WF_allvars(LockedIdle \/ LockedFull)
  /\ WF_allvars(EchoMain)

-----------------------------------------------------------------------------
\* Every byte that the stream fetches is the one the callback was given, even
\* though the buffer is back in use for the reception before it is sent
\* (usart.c:239-240, 253, 495-498, main.c:106-111).  Interrupts may hold the callback
\* up until they have let DMA_buff get full: only a transfer that begins after that
\* is excepted.  The wait of com_send_str is no excuse.
EchoIntact ==
  [][tx'.at = tx.at + 1 /\ tx.buf \in Buffers /\ tx.timely =>
       mem[tx.buf][tx.at] = tx.want[tx.at + 1]]_allvars

\* A transfer always comes to its end, so that the next message can be sent:
\* also one that a message in the other direction has broken off, and one that
\* was started between two interrupts (usart.c:492, stm32f4xx_hal_uart.c:1086-1098).
TransmitterFree == tx.gState = "BUSY_TX" ~> tx.gState = "READY"

\* The two halves of the handle do not spoil each other: with restarts refused and
\* transfers broken off the reception still writes behind what it has counted,
\* into a buffer the callback does not have, and as long as none was refused no
\* byte is lost unnoticed (usart.c:253, 336, 513).
ReceptionSound == IInv /\ (~refused => StreamIntact)
=============================================================================
