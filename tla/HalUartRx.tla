----------------------------- MODULE HalUartRx -----------------------------
(***************************************************************************)
(* The receive half of the HAL handle of one USART, as usart.c drives it.  *)
(*                                                                         *)
(* A handle is one record `h' that joins the software state of the two HAL *)
(* handles with the registers they mirror:                                 *)
(*   RxState   huart->RxState; the enable bits DMAR (DMA requests) and EIE *)
(*             (error interrupt) are set and cleared with it               *)
(*   DMAState  hdmarx->State; the lock of the handle is held while it is   *)
(*             not "READY"                                                 *)
(*   NDTR      items the stream still has to transfer                      *)
(*   M0AR, at  the buffer it writes to and the index of its next write     *)
(*   IDLE, ERR the IDLE flag, and one of the FE/NE/ORE flags, of USART->SR *)
(*                                                                         *)
(* Each operator is the state transformer of the HAL function it is named  *)
(* for.  Transfer errors of the DMA itself are not modelled.               *)
(***************************************************************************)
EXTENDS Integers

\* huart->RxState and hdmarx->State.
RxStates  == {"READY", "BUSY_RX"}
DMAStates == {"READY", "BUSY", "ABORT"}

\* The USART asks for its interrupt on IDLE (IDLEIE is set once in com_init and
\* never cleared) and on a line error while EIE is set.
ErrorPending(h) == h.ERR /\ h.RxState = "BUSY_RX"
UsartPending(h) == h.IDLE \/ ErrorPending(h)

\* A transfer that is under way has its stream enabled until the last item.  The
\* stream then disables itself and raises its transfer-complete flag, as it does
\* when software disables it to abort the transfer.
Running(h)    == h.DMAState = "BUSY" /\ h.NDTR # 0
DmaPending(h) == h.DMAState = "ABORT" \/ (h.DMAState = "BUSY" /\ h.NDTR = 0)

\* A received byte is moved to memory only by a running stream that gets requests.
Streaming(h) == Running(h) /\ h.RxState = "BUSY_RX"

\* Start a transfer of n items to buffer b from index k; silently refused
\* (HAL_BUSY, which HAL_UART_Receive_DMA ignores) while the handle is locked.
HAL_DMA_Start_IT(h, b, k, n) ==
  IF h.DMAState = "READY"
  THEN [h EXCEPT !.DMAState = "BUSY", !.M0AR = b, !.at = k, !.NDTR = n]
  ELSE h

\* Stop a running transfer and clear its flags; NDTR keeps what was left.
HAL_DMA_Abort(h) ==
  IF h.DMAState = "BUSY" THEN [h EXCEPT !.DMAState = "READY"] ELSE h

\* Only disable the stream: its interrupt finishes the abort.
HAL_DMA_Abort_IT(h) ==
  IF h.DMAState = "BUSY" THEN [h EXCEPT !.DMAState = "ABORT"] ELSE h

\* HAL_UART_Receive_DMA: HAL_BUSY while a reception is under way, HAL_ERROR for
\* a size of 0; otherwise it arms the reception, and reads SR and DR to clear ORE,
\* which clears the other error flags and a waiting IDLE as well.
HAL_UART_Receive_DMA(h, b, k, n) ==
  IF h.RxState = "READY" /\ n # 0
  THEN [HAL_DMA_Start_IT(h, b, k, n) EXCEPT !.RxState = "BUSY_RX",
                                            !.IDLE = FALSE, !.ERR = FALSE]
  ELSE h

\* Fault: the stream is stopped but the reception still counts as under way.
HAL_UART_DMAStop_StaysBusy(h) ==
  IF h.RxState = "BUSY_RX" THEN HAL_DMA_Abort(h) ELSE h

\* HAL_UART_DMAStop, its receive half.
HAL_UART_DMAStop(h) ==
  IF h.RxState = "BUSY_RX"
  THEN [HAL_DMA_Abort(h) EXCEPT !.RxState = "READY"]
  ELSE h

\* HAL_UART_IRQHandler: in DMA mode every line error ends the reception.
HAL_UART_IRQHandler(h) ==
  IF ErrorPending(h)
  THEN [HAL_DMA_Abort_IT(h) EXCEPT !.RxState = "READY"]
  ELSE h

\* HAL_DMA_IRQHandler up to the user callback: the stream is free again, and
\* UART_DMAReceiveCplt, for a transfer that was not aborted, ends the reception.
HAL_DMA_IRQHandler(h) ==
  [h EXCEPT !.DMAState = "READY",
            !.RxState  = IF h.DMAState = "ABORT" THEN @ ELSE "READY"]
=============================================================================
