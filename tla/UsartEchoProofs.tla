-------------------------- MODULE UsartEchoProofs --------------------------
(***************************************************************************)
(* The transmit path leaves the reception as UsartRx describes it, and the *)
(* bytes it sends are those of the message, for every buffer size and      *)
(* every number of bytes.                                                  *)
(***************************************************************************)
EXTENDS UsartEcho, UsartRxProofs

-----------------------------------------------------------------------------
(* The reception.  Only the two handlers that come in the middle of         *)
(* HAL_UART_Transmit_DMA are not steps of UsartRx.                          *)

\* The handle after the IDLE interrupt has read the flags and stopped the stream.
Stopped ==
  HAL_UART_DMAStop([HAL_UART_IRQHandler(huart) EXCEPT !.IDLE = FALSE, !.ERR = FALSE])

\* The STUsart after it has counted the bytes in DMA_buff.
Counted == [com EXCEPT !.DMA_Receive_Count = U16(InDmaBuff)]

\* Stopping leaves no transfer under way and says how much of DMA_buff was left.
LEMMA StoppedHandle ==
  ASSUME IInv
  PROVE  HandleOK(Stopped) /\ Stopped.DMAState # "BUSY" /\ Stopped.NDTR = huart.NDTR
  <1> DEFINE h       == HAL_UART_IRQHandler(huart)
             cleared == [h EXCEPT !.IDLE = FALSE, !.ERR = FALSE]
  <1>1. HandleOK(h) /\ h.NDTR = huart.NDTR
    BY KeptRecords, ErrorLemma DEF IInv
  <1>2. [[h EXCEPT !.IDLE = FALSE] EXCEPT !.ERR = FALSE] \in HandleType
    BY <1>1, SetIDLE, SetERR, Zenon DEF HandleOK
  <1>3. /\ cleared.NDTR = h.NDTR /\ cleared.DMAState = h.DMAState
        /\ cleared.RxState = h.RxState
    BY <1>1, SMT DEF HandleOK, HandleType
  <1>4. HandleOK(cleared) /\ cleared.NDTR = huart.NDTR
    BY <1>1, <1>2, <1>3, Zenon DEF HandleOK
  <1>5. QED
    BY <1>4, StopLemma DEF Stopped

\* Counting changes the count only, to the number of bytes that DMA_buff holds.
LEMMA CountedCom ==
  ASSUME IInv
  PROVE  /\ Counted \in ComType /\ Counted.DMA_Receive_Count = InDmaBuff
         /\ Counted.buff = com.buff /\ Counted.DMA_buff = com.DMA_buff
         /\ Counted.buff # Counted.DMA_buff
         /\ Counted.receive_count = com.receive_count
         /\ Counted.USART_State = com.USART_State
  <1>1. com \in ComType /\ com.buff # com.DMA_buff /\ InDmaBuff \in 0 .. USART_RECEIVE_MAX
    <2>1. ComOK(com) /\ InDmaBuff \in com.DMA_Receive_Count .. USART_RECEIVE_MAX
      BY KeptRecords DEF IInv
    <2>2. QED
      BY <2>1, SMT DEF ComOK, ComType
  <1>2. U16(InDmaBuff) = InDmaBuff
    BY <1>1, NoWrap
  <1>3. Counted \in ComType
    BY <1>1, <1>2, SetDMACount, Zenon DEF Counted
  <1>4. /\ Counted.DMA_Receive_Count = InDmaBuff
        /\ Counted.buff = com.buff /\ Counted.DMA_buff = com.DMA_buff
        /\ Counted.receive_count = com.receive_count
        /\ Counted.USART_State = com.USART_State
    BY <1>1, <1>2, SMT DEF ComType, Counted
  <1>5. QED
    BY <1>1, <1>3, <1>4

\* An IDLE interrupt in the middle of HAL_UART_Transmit_DMA counts and exchanges
\* the buffers as always, and stops the stream for good.
LEMMA LockedIdleStep ==
  ASSUME IInv, LockedIdle, huart.IDLE
  PROVE  IInv'
  <1>1. Kept /\ Argument /\ ComOK(com) /\ HandleOK(huart)
    BY KeptRecords DEF IInv
  <1>2. HandleOK(Stopped) /\ Stopped.DMAState # "BUSY" /\ Stopped.NDTR = huart.NDTR
    BY StoppedHandle
  <1>3. /\ UNCHANGED <<line, mem, pc, arg, received, delivered>> /\ lost' \in BOOLEAN
        /\ huart' = Stopped
        /\ com' = IF PROCESSED \in com.USART_State THEN HandOver(Counted) ELSE Hold(Counted)
    BY DEF LockedIdle, IInv, Kept, TypeOK, Stopped, Counted
  <1>4. CASE PROCESSED \in com.USART_State
    <2>1. /\ ComOK(com')
          /\ com'.receive_count = InDmaBuff
          /\ com'.DMA_Receive_Size = USART_RECEIVE_MAX /\ com'.DMA_Receive_Count = 0
          /\ com'.USART_State = com.USART_State \ {PROCESSED, PENDING}
      BY <1>3, <1>4, CountedCom, HandOverLemma
    <2>2. DmaStaysInBuffer' /\ huart'.NDTR <= com'.DMA_Receive_Size
      BY <1>1, <1>2, <1>3, <2>1, SMT
         DEF DmaStaysInBuffer, Running, ComOK, HandleOK, HandleType
    <2>3. PROCESSING \notin com'.USART_State /\ FULL \notin com'.USART_State
          /\ PROCESSED \notin com'.USART_State /\ pc \notin {"call", "return"}
          /\ ~(com'.DMA_Receive_Count > 0)
      BY <1>4, <2>1, SMT DEF IInv, Kept, Handshake, PROCESSING, FULL, PROCESSED, PENDING
    <2>4. Handshake'
      BY <1>3, <2>3, Zenon DEF Handshake
    <2>5. Kept'
      BY <1>1, <1>2, <1>3, <2>1, <2>2, <2>4, Assemble
    <2>6. Argument'
      BY <1>3, <2>3, Zenon DEF Argument
    <2>7. QED
      BY <2>5, <2>6 DEF IInv
  <1>5. CASE PROCESSED \notin com.USART_State
    <2>1. /\ ComOK(com')
          /\ com'.buff = com.buff /\ com'.DMA_buff = com.DMA_buff
          /\ com'.receive_count = com.receive_count
          /\ com'.DMA_Receive_Count = InDmaBuff
          /\ com'.USART_State = com.USART_State \cup {PENDING}
      BY <1>3, <1>5, CountedCom, HoldLemma
    <2>2. huart.NDTR <= com'.DMA_Receive_Size
      BY <1>1, <2>1, MaxAssumption, SMT DEF InDmaBuff, ComOK, ComType, HandleOK, HandleType
    <2>3. DmaStaysInBuffer' /\ huart'.NDTR <= com'.DMA_Receive_Size
      BY <1>2, <1>3, <2>1, <2>2, SMT DEF DmaStaysInBuffer, Running, ComOK
    <2>4. \A x \in {PROCESSING, FULL, PROCESSED} :
            x \in com'.USART_State <=> x \in com.USART_State
      BY <2>1, SMT DEF PROCESSING, FULL, PROCESSED, PENDING
    <2>5. PENDING \in com'.USART_State
      BY <2>1
    <2>6. Handshake' /\ Argument'
      BY <1>1, <1>3, <2>1, <2>4, <2>5, Zenon DEF Kept, Handshake, Argument
    <2>7. Kept'
      BY <1>1, <1>2, <1>3, <2>1, <2>3, <2>6, Assemble
    <2>8. QED
      BY <2>6, <2>7 DEF IInv
  <1>6. QED
    BY <1>4, <1>5

\* A full buffer in the middle of HAL_UART_Transmit_DMA is handed over as always,
\* and the stream stays free.
LEMMA LockedFullStep ==
  ASSUME IInv, LockedFull, huart.DMAState # "ABORT"
  PROVE  IInv'
  <1> DEFINE h == HAL_DMA_IRQHandler(huart)
  <1>1. Kept /\ Argument /\ ComOK(com) /\ HandleOK(huart)
    BY KeptRecords DEF IInv
  <1>2. HandleOK(h) /\ h.DMAState = "READY" /\ h.NDTR = huart.NDTR
    BY <1>1, DmaIrqLemma
  <1>3. /\ UNCHANGED <<line, mem, pc, arg, received, delivered>> /\ lost' \in BOOLEAN
        /\ huart' = h /\ com' = TakeFull(com)
    BY DEF LockedFull, IInv, Kept, TypeOK
  <1> HIDE DEF h
  <1>4. /\ ComOK(com')
        /\ com'.receive_count = USART_RECEIVE_MAX
        /\ com'.DMA_Receive_Size = USART_RECEIVE_MAX /\ com'.DMA_Receive_Count = 0
        /\ com'.USART_State = (IF PROCESSING \in com.USART_State
                               THEN com.USART_State \cup {FULL} ELSE com.USART_State)
                                \ {PROCESSED}
    BY <1>1, <1>3, TakeFullLemma
  <1>5. DmaStaysInBuffer' /\ huart'.NDTR <= com'.DMA_Receive_Size
    BY <1>1, <1>2, <1>3, <1>4, SMT DEF DmaStaysInBuffer, Running, ComOK, HandleOK, HandleType
  <1>6. /\ PROCESSED \notin com'.USART_State
        /\ PROCESSING \in com'.USART_State <=> PROCESSING \in com.USART_State
        /\ FULL \in com'.USART_State <=> PROCESSING \in com.USART_State
        /\ ~(com'.DMA_Receive_Count > 0) /\ USART_RECEIVE_MAX # 0
    <2>1. FULL \in com.USART_State => PROCESSING \in com.USART_State
      BY DEF IInv, Kept, Handshake
    <2>2. QED
      BY <1>4, <2>1, MaxAssumption, SMT DEF PROCESSING, FULL, PROCESSED
  <1>7. Handshake'
    BY <1>3, <1>4, <1>6, Zenon DEF IInv, Kept, Handshake
  <1>8. Kept'
    BY <1>1, <1>2, <1>3, <1>4, <1>5, <1>7, Assemble
  <1>9. Argument'
    BY <1>1, <1>3, <1>6, Zenon DEF Argument
  <1>10. QED
    BY <1>8, <1>9 DEF IInv

\* Every step is a step of UsartRx that refuses nothing, or refuses a restart.
LEMMA EchoStepIsRxStep ==
  ASSUME [EchoNext]_allvars
  PROVE  \/ [Next]_vars /\ refused' = refused
         \/ LockedIdle /\ huart.IDLE
         \/ LockedFull /\ huart.DMAState # "ABORT"
  <1>1. CASE \E noisy \in BOOLEAN : Receive(noisy)
    BY <1>1 DEF Receive, Next
  <1>2. CASE EchoIdle \/ SendByte
    BY <1>2 DEF EchoIdle, SendByte, Next, echo
  <1>3. CASE Handlers
    BY <1>3, Zenon DEF Handlers, Next
  <1>4. CASE LockedIdle
    <2>1. CASE ~huart.IDLE
      <3>1. UsartPending(huart) /\ huart' = HAL_UART_IRQHandler(huart)
            /\ UNCHANGED <<com, line, mem, pc, arg, received, delivered, lost, refused>>
        BY <1>4, <2>1, Zenon DEF LockedIdle
      <3>2. USART_IRQHandler
        BY <2>1, <3>1, Usart1Assumption, Zenon DEF USART_IRQHandler
      <3>3. QED
        BY <3>1, <3>2 DEF Next
    <2>2. QED
      BY <1>4, <2>1
  <1>5. CASE LockedFull
    <2>1. CASE huart.DMAState = "ABORT"
      <3>1. DmaPending(huart) /\ ~UsartPending(huart)
            /\ huart' = HAL_DMA_IRQHandler(huart)
            /\ UNCHANGED <<com, line, mem, pc, arg, received, delivered, lost, refused>>
        BY <1>5, <2>1, Zenon DEF LockedFull
      <3>2. DMA_IRQHandler
        BY <2>1, <3>1, Zenon DEF DMA_IRQHandler
      <3>3. QED
        BY <3>1, <3>2 DEF Next
    <2>2. QED
      BY <1>5, <2>1
  <1>6. CASE DmaTxComplete \/ TxComplete
    BY <1>6 DEF DmaTxComplete, TxComplete
  <1>7. CASE EchoManage
    BY <1>7, Zenon DEF EchoManage, Next, Manage
  <1>8. CASE SendStart \/ SendUnlock \/ SendRefused \/ OtherSends
    BY <1>8, Zenon DEF SendStart, SendUnlock, SendRefused, OtherSends, Next, Manage, echo
  <1>9. CASE SendEnd
    BY <1>9, Zenon DEF SendEnd, Next, Manage
  <1>10. CASE UNCHANGED allvars
    BY <1>10, Zenon DEF allvars, echo
  <1>11. QED
    BY <1>1, <1>2, <1>3, <1>4, <1>5, <1>6, <1>7, <1>8, <1>9, <1>10 DEF EchoNext, EchoMain

\* What the reception keeps: IInv always, the order of the bytes until a restart
\* is refused.
EchoInv == IInv /\ (~refused => StreamInv)

\* Every step keeps IInv, whatever was refused and however late the interrupts are.
LEMMA EchoStep ==
  ASSUME IInv, [EchoNext]_allvars
  PROVE  IInv'
  BY EchoStepIsRxStep, NextStep, LockedIdleStep, LockedFullStep

\* No restart refused, no byte lost.
LEMMA EchoStreamStep ==
  ASSUME Latency # 2, EchoInv, [EchoNext]_allvars
  PROVE  EchoInv'
  <1>1. IInv'
    BY EchoStep DEF EchoInv
  <1>2. CASE [Next]_vars /\ refused' = refused
    BY <1>1, <1>2, StreamStep DEF EchoInv
  <1>3. CASE (LockedIdle /\ huart.IDLE) \/ (LockedFull /\ huart.DMAState # "ABORT")
    <2>1. refused'
      BY <1>3, Zenon DEF LockedIdle, LockedFull
    <2>2. QED
      BY <1>1, <2>1 DEF EchoInv
  <1>4. QED
    BY <1>2, <1>3, EchoStepIsRxStep

\* A transfer on usart1 may stop the reception and may refuse its restart, at any
\* instant and whatever the latency: the stream still writes behind the counted
\* bytes of DMA_buff, the callback has buff for itself, and the flags tell the truth.
THEOREM EchoKeepsInvariant == EchoSpec => []IInv
  <1>1. EchoInit => IInv
    BY InitStep DEF EchoInit
  <1>2. IInv /\ [EchoNext]_allvars => IInv'
    BY EchoStep
  <1>3. QED
    BY <1>1, <1>2, PTL DEF EchoSpec

\* The two halves of the handle do not spoil each other: besides IInv, as long as
\* no restart was refused the two buffers hold exactly the unread bytes, in order.
THEOREM ReceptionIsSound ==
  ASSUME Latency # 2
  PROVE  EchoSpec => []ReceptionSound
  <1>1. EchoInit => EchoInv
    BY InitStream DEF EchoInit, EchoInv, StreamInv
  <1>2. EchoInv /\ [EchoNext]_allvars => EchoInv'
    BY EchoStreamStep
  <1>3. EchoInv => ReceptionSound
    BY DEF EchoInv, StreamInv, ReceptionSound
  <1>4. QED
    BY <1>1, <1>2, <1>3, PTL DEF EchoSpec

-----------------------------------------------------------------------------
(* The transmission.                                                        *)

TxType ==
  [gState : {"READY", "BUSY_TX"}, locked : BOOLEAN, DMAT : BOOLEAN, TCIE : BOOLEAN,
   DMAState : {"READY", "BUSY"}, buf : Buffers \cup {Other},
   at : Nat, len : Nat, want : Seq(Nat), timely : BOOLEAN]

\* A transfer is being started, or under way, or waits for its last byte to go
\* out, and the state of the handle says that it is busy.
OneStage ==
  /\ tx.locked => Starting
  /\ Starting \/ tx.DMAT \/ tx.TCIE => tx.gState = "BUSY_TX"
  /\ ~(Starting /\ tx.TCIE) /\ ~(tx.DMAT /\ tx.TCIE)

\* buf still holds bytes from index k on.
Holds(buf, k, n, bytes) == \A i \in k .. n - 1 : mem[buf][i] = bytes[i + 1]

\* Until the callback has started its transfer the reception writes nothing to its
\* buffer and is not about to be restarted by a full one, unless it is too late.
MsgWaits ==
  pc = "call" /\ ~Starting /\ ~late =>
    /\ Holds(arg.buf, 0, arg.len, msg)
    /\ FULL \notin com.USART_State
    /\ huart.DMAState = "BUSY" => huart.NDTR # 0

\* A buffer that gets full while the handle is locked stops the reception, and
\* leaves nothing to restart it with.
MsgStarts ==
  Starting /\ tx.buf \in Buffers /\ ~late =>
    /\ pc = "call" /\ tx.buf = arg.buf /\ tx.at = 0
    /\ Holds(tx.buf, 0, tx.len, tx.want)
    /\ FULL \in com.USART_State => huart.DMAState # "BUSY" /\ huart.NDTR = 0
    /\ ~tx.locked /\ huart.DMAState = "BUSY" => huart.NDTR # 0

\* The reception that has come round to the buffer stays behind the transmission:
\* it takes one byte to get there and one byte to be sent for each one received.
MsgIsSent ==
  Sending /\ tx.buf \in Buffers /\ tx.timely =>
    /\ Holds(tx.buf, tx.at, tx.len, tx.want)
    /\ huart.DMAState = "BUSY" /\ tx.buf = com.DMA_buff =>
         huart.at <= tx.at /\ (paced => huart.at < tx.at)
    /\ huart.DMAState = "BUSY" /\ tx.buf = com.buff /\ huart.NDTR = 0 /\ paced => tx.at > 0

TxInv ==
  /\ IInv
  /\ tx \in TxType /\ msg \in Seq(Nat) /\ paced \in BOOLEAN /\ late \in BOOLEAN
  /\ OneStage /\ MsgWaits /\ MsgStarts /\ MsgIsSent

\* A transfer with another value of its type in one field is still a transfer.
LEMMA SetTx ==
  /\ \A t \in TxType : \A v \in {"READY", "BUSY_TX"} : [t EXCEPT !.gState = v] \in TxType
  /\ \A t \in TxType : \A v \in BOOLEAN : [t EXCEPT !.locked = v] \in TxType
  /\ \A t \in TxType : \A v \in BOOLEAN : [t EXCEPT !.DMAT = v] \in TxType
  /\ \A t \in TxType : \A v \in BOOLEAN : [t EXCEPT !.TCIE = v] \in TxType
  /\ \A t \in TxType : \A v \in {"READY", "BUSY"} : [t EXCEPT !.DMAState = v] \in TxType
  /\ \A t \in TxType : \A v \in Buffers \cup {Other} : [t EXCEPT !.buf = v] \in TxType
  /\ \A t \in TxType : \A v \in Nat : [t EXCEPT !.at = v] \in TxType
  /\ \A t \in TxType : \A v \in Nat : [t EXCEPT !.len = v] \in TxType
  /\ \A t \in TxType : \A v \in Seq(Nat) : [t EXCEPT !.want = v] \in TxType
  /\ \A t \in TxType : \A v \in BOOLEAN : [t EXCEPT !.timely = v] \in TxType
  <1>1. \A t \in TxType : \A v \in {"READY", "BUSY_TX"} : [t EXCEPT !.gState = v] \in TxType
    BY Zenon DEF TxType
  <1>2. \A t \in TxType : \A v \in BOOLEAN : [t EXCEPT !.locked = v] \in TxType
    BY Zenon DEF TxType
  <1>3. \A t \in TxType : \A v \in BOOLEAN : [t EXCEPT !.DMAT = v] \in TxType
    BY Zenon DEF TxType
  <1>4. \A t \in TxType : \A v \in BOOLEAN : [t EXCEPT !.TCIE = v] \in TxType
    BY Zenon DEF TxType
  <1>5. \A t \in TxType : \A v \in {"READY", "BUSY"} : [t EXCEPT !.DMAState = v] \in TxType
    BY Zenon DEF TxType
  <1>6. \A t \in TxType : \A v \in Buffers \cup {Other} : [t EXCEPT !.buf = v] \in TxType
    BY Zenon DEF TxType
  <1>7. \A t \in TxType : \A v \in Nat : [t EXCEPT !.at = v] \in TxType
    BY Zenon DEF TxType
  <1>8. \A t \in TxType : \A v \in Nat : [t EXCEPT !.len = v] \in TxType
    BY Zenon DEF TxType
  <1>9. \A t \in TxType : \A v \in Seq(Nat) : [t EXCEPT !.want = v] \in TxType
    BY Zenon DEF TxType
  <1>10. \A t \in TxType : \A v \in BOOLEAN : [t EXCEPT !.timely = v] \in TxType
    BY Zenon DEF TxType
  <1>11. QED
    BY <1>1, <1>2, <1>3, <1>4, <1>5, <1>6, <1>7, <1>8, <1>9, <1>10

\* The values that the handle is given have their types.
LEMMA TxValues ==
  /\ "READY" \in {"READY", "BUSY_TX"} /\ "BUSY_TX" \in {"READY", "BUSY_TX"}
  /\ "READY" \in {"READY", "BUSY"} /\ "BUSY" \in {"READY", "BUSY"}
  /\ TRUE \in BOOLEAN /\ FALSE \in BOOLEAN /\ 0 \in Nat
  OBVIOUS

\* HAL_UART_DMAStop takes the request of the stream back and ends the transfer.
LEMMA StopTxLemma ==
  ASSUME tx \in TxType, OneStage
  PROVE  /\ StopTx \in TxType
         /\ ~StopTx.DMAT /\ StopTx.locked = tx.locked
         /\ StopTx.buf = tx.buf /\ StopTx.at = tx.at
         /\ StopTx.len = tx.len /\ StopTx.want = tx.want
         /\ StopTx.timely = tx.timely
         /\ StopTx.DMAState = "BUSY" <=> Starting
         /\ Starting \/ StopTx.TCIE => StopTx.gState = "BUSY_TX"
         /\ ~(Starting /\ StopTx.TCIE)
  <1>1. CASE tx.gState = "BUSY_TX" /\ tx.DMAT
    <2>1. StopTx = [tx EXCEPT !.DMAT = FALSE, !.DMAState = "READY", !.TCIE = FALSE,
                              !.gState = "READY"]
      BY <1>1, Zenon DEF StopTx
    <2>2. StopTx \in TxType
      BY <2>1, SetTx, TxValues, Zenon
    <2>3. QED
      BY <1>1, <2>1, <2>2, SMT DEF TxType, OneStage, Starting
  <1>2. CASE ~(tx.gState = "BUSY_TX" /\ tx.DMAT)
    <2>1. StopTx = tx
      BY <1>2, Zenon DEF StopTx
    <2>2. QED
      BY <1>2, <2>1, Zenon DEF OneStage, Starting
  <1>3. QED
    BY <1>1, <1>2

\* A new transfer locks the handle.
LEMMA StartedLemma ==
  ASSUME tx \in TxType, NEW b \in Buffers \cup {Other}, NEW n \in Nat, NEW bytes \in Seq(Nat)
  PROVE  LET s == Started(b, n, bytes)
         IN  /\ s \in TxType
             /\ s.locked /\ s.gState = "BUSY_TX" /\ s.DMAT = tx.DMAT /\ s.TCIE = tx.TCIE
             /\ s.DMAState = "BUSY"
             /\ s.buf = b /\ s.at = 0 /\ s.len = n /\ s.want = bytes
  <1>1. Started(b, n, bytes) \in TxType
    BY SetTx, TxValues, Zenon DEF Started
  <1>2. QED
    BY <1>1, SMT DEF TxType, Started

\* The bytes handed to the callback are numbers.
LEMMA MessageType ==
  ASSUME IInv
  PROVE  [i \in 1 .. com.receive_count |-> mem[com.buff][i - 1]] \in Seq(Nat)
  <1>1. com.receive_count \in 0 .. USART_RECEIVE_MAX /\ com.buff \in Buffers
    BY SMT DEF IInv, Kept, TypeOK, ComType
  <1>2. \A i \in 1 .. com.receive_count : i - 1 \in Index
    BY <1>1, MaxAssumption, SMT DEF Index
  <1>3. \A i \in 1 .. com.receive_count : mem[com.buff][i - 1] \in Nat
    BY <1>1, <1>2, Zenon DEF IInv, Kept, TypeOK
  <1>4. \A f, n : n \in Nat /\ (\A i \in 1 .. n : f[i - 1] \in Nat)
                    => [i \in 1 .. n |-> f[i - 1]] \in Seq(Nat)
    BY SMT
  <1>5. com.receive_count \in Nat
    BY <1>1, SMT
  <1>6. QED
    BY <1>3, <1>4, <1>5, Zenon

\* Every step leaves the transfer at one stage.
LEMMA StageStep ==
  ASSUME TxInv, [EchoNext]_allvars
  PROVE  tx' \in TxType /\ msg' \in Seq(Nat) /\ paced' \in BOOLEAN /\ late' \in BOOLEAN
         /\ OneStage'
  <1>1. tx \in TxType /\ msg \in Seq(Nat) /\ paced \in BOOLEAN /\ OneStage /\ IInv
    BY DEF TxInv
  <1> SUFFICES tx' \in TxType /\ msg' \in Seq(Nat) /\ paced' \in BOOLEAN /\ OneStage'
    <2>1. late \in BOOLEAN
      BY DEF TxInv
    <2>2. late' \in BOOLEAN
      <3>1. CASE EchoManage
        BY <2>1, <3>1, Zenon DEF EchoManage
      <3>2. CASE ~EchoManage
        BY <2>1, <3>2, Zenon DEF EchoNext, EchoMain, Receive, EchoIdle, SendByte, Handlers,
             LockedIdle, LockedFull, DmaTxComplete, TxComplete, SendStart, SendUnlock,
             SendEnd, SendRefused, OtherSends, allvars, echo
      <3>3. QED
        BY <3>1, <3>2
    <2>3. QED
      BY <2>2
  <1>2. CASE tx' \in {tx, StopTx} /\ msg' = msg /\ paced' \in {paced, TRUE, FALSE}
    <2>1. CASE tx' = tx
      BY <1>1, <1>2, <2>1, Zenon DEF OneStage, Starting
    <2>2. CASE tx' = StopTx
      <3>1. tx' \in TxType /\ OneStage'
        BY <1>1, <2>2, StopTxLemma, Zenon DEF OneStage, Starting
      <3>2. QED
        BY <1>1, <1>2, <3>1
    <2>3. QED
      BY <1>2, <2>1, <2>2
  <1>3. CASE SendByte
    <2>1. tx' = [tx EXCEPT !.at = tx.at + 1] /\ tx.at + 1 \in Nat /\ msg' = msg /\ paced' = TRUE
      BY <1>1, <1>3 DEF SendByte, TxType
    <2>2. tx' \in TxType
      BY <1>1, <2>1, SetTx, Zenon
    <2>3. tx'.gState = tx.gState /\ tx'.locked = tx.locked
          /\ tx'.DMAT = tx.DMAT /\ tx'.TCIE = tx.TCIE /\ tx'.DMAState = tx.DMAState
      BY <1>1, <2>1, SMT DEF TxType
    <2>4. QED
      BY <1>1, <2>1, <2>2, <2>3 DEF OneStage, Starting
  <1>4. CASE DmaTxComplete
    <2>1. tx' = [tx EXCEPT !.DMAState = "READY", !.DMAT = FALSE, !.TCIE = TRUE]
          /\ tx.DMAT /\ msg' = msg /\ paced' = paced
      BY <1>4 DEF DmaTxComplete
    <2>2. tx' \in TxType
      BY <1>1, <2>1, SetTx, TxValues, Zenon
    <2>3. tx'.gState = tx.gState /\ tx'.locked = tx.locked
          /\ ~tx'.DMAT /\ tx'.TCIE /\ tx'.DMAState = "READY"
      BY <1>1, <2>1, SMT DEF TxType
    <2>4. QED
      BY <1>1, <2>1, <2>2, <2>3 DEF OneStage, Starting
  <1>5. CASE TxComplete
    <2>1. tx' = [tx EXCEPT !.TCIE = FALSE, !.gState = "READY"]
          /\ tx.TCIE /\ msg' = msg /\ paced' = paced
      BY <1>5 DEF TxComplete
    <2>2. tx' \in TxType
      BY <1>1, <2>1, SetTx, TxValues, Zenon
    <2>3. tx'.locked = tx.locked
          /\ tx'.DMAT = tx.DMAT /\ ~tx'.TCIE /\ tx'.DMAState = tx.DMAState
      BY <1>1, <2>1, SMT DEF TxType
    <2>4. QED
      BY <1>1, <2>1, <2>2, <2>3 DEF OneStage, Starting
  <1>6. CASE SendStart \/ OtherSends
    <2>1. PICK b \in Buffers \cup {Other}, n \in Nat, bytes \in Seq(Nat) :
            tx' = Started(b, n, bytes)
      <3>1. arg.buf \in Buffers /\ arg.len \in Nat
        BY <1>1, SMT DEF IInv, Kept, TypeOK, ArgType
      <3>2. <<>> \in Seq(Nat) /\ Other \in Buffers \cup {Other}
            /\ \A n \in 1 .. USART_RECEIVE_MAX : n \in Nat
        OBVIOUS
      <3>3. QED
        BY <1>1, <1>6, <3>1, <3>2, Zenon DEF SendStart, OtherSends
    <2>2. tx.gState = "READY" /\ msg' = msg /\ paced' = paced
      BY <1>6 DEF SendStart, OtherSends
    <2>3. /\ tx' \in TxType /\ tx'.locked /\ tx'.gState = "BUSY_TX"
          /\ tx'.DMAT = tx.DMAT /\ tx'.TCIE = tx.TCIE /\ tx'.DMAState = "BUSY"
      <3>1. Started(b, n, bytes) \in TxType
        BY <1>1, StartedLemma, Zenon
      <3>2. /\ Started(b, n, bytes).locked /\ Started(b, n, bytes).gState = "BUSY_TX"
            /\ Started(b, n, bytes).DMAT = tx.DMAT /\ Started(b, n, bytes).TCIE = tx.TCIE
            /\ Started(b, n, bytes).DMAState = "BUSY"
        BY <1>1, Zenon DEF TxType, Started
      <3>3. QED
        BY <2>1, <3>1, <3>2, Zenon
    <2>4. QED
      BY <1>1, <2>2, <2>3 DEF OneStage, Starting
  <1>7. CASE SendEnd
    <2>1. tx' = [tx EXCEPT !.DMAT = TRUE, !.timely = ~late] /\ (~late) \in BOOLEAN
          /\ Starting /\ ~tx.locked /\ msg' = msg /\ paced' = TRUE
      BY <1>7 DEF SendEnd
    <2>2. tx' \in TxType
      BY <1>1, <2>1, SetTx, TxValues, Zenon
    <2>3. ~tx'.locked /\ tx'.gState = tx.gState
          /\ tx'.DMAT /\ tx'.TCIE = tx.TCIE
      BY <1>1, <2>1, SMT DEF TxType
    <2>4. QED
      BY <1>1, <2>1, <2>2, <2>3 DEF OneStage, Starting
  <1>8. CASE EchoManage
    <2>1. CASE ManageCall
      <3>1. tx' = tx /\ paced' = paced
            /\ msg' = IF pc' = "call"
                      THEN [i \in 1 .. com.receive_count |-> mem[com.buff][i - 1]] ELSE msg
        BY <1>8, <2>1, Zenon DEF EchoManage, ManageCall, ManageSwap, ManageFinish
      <3>2. msg' \in Seq(Nat)
        BY <1>1, <3>1, MessageType, Zenon
      <3>3. QED
        BY <1>1, <3>1, <3>2, Zenon DEF OneStage, Starting
    <2>2. CASE ~ManageCall
      BY <1>2, <1>8, <2>2, Zenon DEF EchoManage
    <2>3. QED
      BY <2>1, <2>2
  <1>9. CASE \/ \E noisy \in BOOLEAN : Receive(noisy)
             \/ EchoIdle \/ Handlers \/ LockedIdle \/ LockedFull \/ SendRefused
             \/ UNCHANGED allvars
    <2>1. tx' \in {tx, StopTx} /\ msg' = msg /\ paced' \in {paced, FALSE}
      BY <1>9, Zenon DEF Receive, EchoIdle, Handlers, LockedIdle, LockedFull, SendRefused,
                         allvars, echo
    <2>2. QED
      BY <1>2, <2>1
  <1>10. CASE SendUnlock
    <2>1. tx' = [tx EXCEPT !.locked = FALSE] /\ msg' = msg /\ paced' = paced
      BY <1>10 DEF SendUnlock
    <2>2. tx' \in TxType
      BY <1>1, <2>1, SetTx, TxValues, Zenon
    <2>3. ~tx'.locked /\ tx'.gState = tx.gState /\ tx'.DMAT = tx.DMAT
          /\ tx'.TCIE = tx.TCIE /\ tx'.DMAState = tx.DMAState
      BY <1>1, <2>1, SMT DEF TxType
    <2>4. QED
      BY <1>1, <2>1, <2>2, <2>3 DEF OneStage, Starting
  <1>11. QED
    BY <1>3, <1>4, <1>5, <1>6, <1>7, <1>8, <1>9, <1>10, Zenon DEF EchoNext, EchoMain

Intact == MsgWaits /\ MsgStarts /\ MsgIsSent

\* A byte that is stored goes where no byte of the message still waits, or nothing
\* of the message waits yet, because nothing is received.
LEMMA ReceiveIntact ==
  ASSUME TxInv, NEW noisy \in BOOLEAN, Receive(noisy)
  PROVE  Intact'
  <1>1. /\ UNCHANGED <<com, pc, arg, tx, msg>> /\ paced' = FALSE /\ (Sending => paced)
        /\ late' = (late \/ (pc = "call" /\ ~tx.locked /\ Streaming(huart) /\ huart.NDTR = 1
                               /\ ~BusyTx))
    BY DEF Receive, ByteArrives
  <1>2. /\ IInv /\ MsgWaits /\ MsgStarts /\ MsgIsSent /\ OneStage
        /\ tx \in TxType /\ huart \in HandleType /\ com.buff # com.DMA_buff
        /\ com.buff \in Buffers /\ com.DMA_buff \in Buffers
    BY KeptRecords DEF IInv, TxInv, HandleOK, ComOK, ComType
  <1>3. CASE ~Streaming(huart)
    <2>1. mem' = mem /\ huart' = [huart EXCEPT !.ERR = huart.ERR \/ noisy]
      BY <1>3 DEF Receive, ByteArrives
    <2>2. huart'.DMAState = huart.DMAState /\ huart'.NDTR = huart.NDTR /\ huart'.at = huart.at
      BY <1>2, <2>1, SMT DEF HandleType
    <2>3. late' = late
      BY <1>1, <1>3, <1>2 DEF TxInv
    <2>4. QED
      BY <1>1, <1>2, <2>1, <2>2, <2>3, Zenon
         DEF Intact, MsgWaits, MsgStarts, MsgIsSent, Holds, Sending, Starting
  <1>4. CASE Streaming(huart)
    <2>1. /\ mem' = [mem EXCEPT ![huart.M0AR][huart.at] = received + 1]
          /\ huart' = [huart EXCEPT !.at = huart.at + 1, !.NDTR = huart.NDTR - 1,
                                    !.ERR = huart.ERR \/ noisy]
      BY <1>4 DEF Receive, ByteArrives
    <2>2. /\ huart.M0AR = com.DMA_buff /\ huart.DMAState = "BUSY" /\ huart.RxState = "BUSY_RX"
          /\ huart.at \in Index
      BY <1>2, <1>4, SMT DEF IInv, Kept, DmaStaysInBuffer, Streaming, Running, Index, HandleType
    <2>3. huart'.at = huart.at + 1 /\ huart'.DMAState = "BUSY"
          /\ huart'.NDTR = huart.NDTR - 1
      BY <1>2, <2>1, <2>2, SMT DEF HandleType
    <2>4. ASSUME NEW b \in Buffers, NEW k \in Nat, NEW n \in Nat, NEW bytes,
                 Holds(b, k, n, bytes), b # com.DMA_buff \/ huart.at < k
          PROVE  \A i \in k .. n - 1 : mem'[b][i] = bytes[i + 1]
      <3> SUFFICES ASSUME NEW i \in k .. n - 1
                   PROVE  mem'[b][i] = mem[b][i]
        BY <2>4, Zenon DEF Holds
      <3>1. CASE b # com.DMA_buff
        <4>1. mem'[b] = mem[b]
          BY <1>2, <2>1, <2>2, <3>1, Zenon DEF IInv, Kept, TypeOK
        <4>2. QED
          BY <4>1
      <3>2. CASE b = com.DMA_buff /\ huart.at < k
        <4>1. i # huart.at
          BY <2>2, <3>2, SMT DEF Index
        <4>2. QED
          BY <1>2, <2>1, <2>2, <3>2, <4>1, SMT DEF IInv, Kept, TypeOK
      <3>3. QED
        BY <2>4, <3>1, <3>2
    <2>5. tx.at \in Nat /\ tx.len \in Nat
      BY <1>2 DEF TxType
    <2>6. ASSUME pc = "call", FULL \notin com.USART_State
          PROVE  arg.buf = com.buff /\ arg.len \in Nat
      <3>1. PROCESSING \in com.USART_State
        BY <1>2, <2>6 DEF IInv, Kept, Handshake
      <3>2. QED
        BY <1>2, <2>6, <3>1, SMT DEF IInv, Argument, Kept, TypeOK, ArgType
    <2>7. ASSUME pc = "call", ~late', ~tx.locked
          PROVE  ~late /\ huart'.NDTR # 0
      <3>1. ~BusyTx
        BY <2>2 DEF BusyTx
      <3>2. ~late /\ huart.NDTR # 1
        BY <1>1, <1>4, <2>7, <3>1, Zenon
      <3>3. huart.NDTR \in Int
        BY <1>2, SMT DEF HandleType
      <3>4. huart'.NDTR # 0
        BY <2>3, <3>2, <3>3, SMT
      <3>5. QED
        BY <3>2, <3>4
    <2>8. MsgWaits'
      <3>1. SUFFICES ASSUME pc = "call", ~Starting, ~late'
                     PROVE  /\ \A i \in 0 .. arg.len - 1 : mem'[arg.buf][i] = msg[i + 1]
                            /\ FULL \notin com.USART_State
                            /\ huart'.NDTR # 0
        BY <1>1, Zenon DEF MsgWaits, Holds, Starting
      <3>2. ~late /\ huart'.NDTR # 0
        BY <1>2, <2>7, <3>1 DEF OneStage
      <3>3. Holds(arg.buf, 0, arg.len, msg) /\ FULL \notin com.USART_State
        BY <1>2, <3>1, <3>2 DEF MsgWaits
      <3>4. arg.buf = com.buff /\ arg.len \in Nat
        BY <2>6, <3>1, <3>3
      <3>5. \A i \in 0 .. arg.len - 1 : mem'[arg.buf][i] = msg[i + 1]
        BY <1>2, <2>4, <3>3, <3>4
      <3>6. QED
        BY <3>2, <3>3, <3>5
    <2>9. MsgStarts'
      <3>1. SUFFICES ASSUME Starting, tx.buf \in Buffers, ~late'
                     PROVE  /\ pc = "call" /\ tx.buf = arg.buf /\ tx.at = 0
                            /\ \A i \in 0 .. tx.len - 1 : mem'[tx.buf][i] = tx.want[i + 1]
                            /\ FULL \notin com.USART_State
                            /\ ~tx.locked => huart'.NDTR # 0
        BY <1>1, Zenon DEF MsgStarts, Holds, Starting
      <3>2. /\ pc = "call" /\ tx.buf = arg.buf /\ tx.at = 0
            /\ Holds(tx.buf, 0, tx.len, tx.want) /\ FULL \notin com.USART_State
        BY <1>1, <1>2, <2>2, <3>1 DEF MsgStarts
      <3>3. arg.buf = com.buff
        BY <2>6, <3>2
      <3>4. \A i \in 0 .. tx.len - 1 : mem'[tx.buf][i] = tx.want[i + 1]
        BY <1>2, <2>4, <2>5, <3>1, <3>2, <3>3
      <3>5. ~tx.locked => huart'.NDTR # 0
        BY <2>7, <3>1, <3>2
      <3>6. QED
        BY <3>2, <3>4, <3>5
    <2>10. MsgIsSent'
      <3>1. SUFFICES ASSUME Sending, tx.buf \in Buffers, tx.timely
                     PROVE  /\ \A i \in tx.at .. tx.len - 1 : mem'[tx.buf][i] = tx.want[i + 1]
                            /\ tx.buf = com.DMA_buff => huart.at + 1 <= tx.at
        BY <1>1, <2>3, Zenon DEF MsgIsSent, Holds, Sending
      <3>2. Holds(tx.buf, tx.at, tx.len, tx.want)
            /\ (tx.buf = com.DMA_buff => huart.at < tx.at)
        BY <1>1, <1>2, <2>2, <3>1 DEF MsgIsSent
      <3>3. \A i \in tx.at .. tx.len - 1 : mem'[tx.buf][i] = tx.want[i + 1]
        BY <2>4, <2>5, <3>1, <3>2
      <3>4. tx.buf = com.DMA_buff => huart.at + 1 <= tx.at
        BY <2>2, <2>5, <3>2, SMT DEF Index
      <3>5. QED
        BY <3>3, <3>4
    <2>11. QED
      BY <2>8, <2>9, <2>10 DEF Intact
  <1>5. QED
    BY <1>3, <1>4

\* The idle flag, and what happens to the transfer after its last byte has been
\* fetched, do not touch a message.
LEMMA OtherIntact ==
  ASSUME TxInv, EchoIdle \/ DmaTxComplete \/ TxComplete \/ OtherSends \/ UNCHANGED allvars
  PROVE  Intact'
  <1>1. /\ IInv /\ MsgWaits /\ MsgStarts /\ MsgIsSent /\ OneStage
        /\ tx \in TxType /\ huart \in HandleType
    BY KeptRecords DEF IInv, TxInv, HandleOK
  <1>2. CASE EchoIdle
    <2>1. UNCHANGED <<com, mem, pc, arg, echo>> /\ huart' = [huart EXCEPT !.IDLE = TRUE]
      BY <1>2 DEF EchoIdle, LineIdle
    <2>2. huart'.DMAState = huart.DMAState /\ huart'.NDTR = huart.NDTR /\ huart'.at = huart.at
      BY <1>1, <2>1, SMT DEF HandleType
    <2>3. QED
      BY <1>1, <2>1, <2>2, Zenon
         DEF Intact, MsgWaits, MsgStarts, MsgIsSent, Holds, Sending, Starting, echo
  <1>3. CASE DmaTxComplete \/ TxComplete
    <2>1. UNCHANGED <<vars, msg, late>> /\ (tx.DMAT \/ tx.TCIE)
      BY <1>3 DEF DmaTxComplete, TxComplete
    <2>2. ~tx'.DMAT /\ tx'.DMAState # "BUSY" /\ ~Starting
      <3>1. CASE DmaTxComplete
        BY <1>1, <3>1, SMT DEF DmaTxComplete, TxType, Starting
      <3>2. CASE TxComplete
        BY <1>1, <3>2, SMT DEF TxComplete, TxType, OneStage, Starting
      <3>3. QED
        BY <1>3, <3>1, <3>2
    <2>3. QED
      BY <1>1, <2>1, <2>2, Zenon
         DEF Intact, MsgWaits, MsgStarts, MsgIsSent, Holds, Sending, Starting, vars
  <1>4. CASE OtherSends
    <2>1. /\ UNCHANGED <<vars, msg>> /\ pc = "poll"
          /\ tx.gState = "READY"
      BY <1>4 DEF OtherSends
    <2>2. PICK n \in 1 .. USART_RECEIVE_MAX : tx' = Started(Other, n, <<>>)
      BY <1>4 DEF OtherSends
    <2>3. tx'.buf = Other /\ Other \notin Buffers
      <3>1. Started(Other, n, <<>>).buf = Other
        BY <1>1, Zenon DEF TxType, Started
      <3>2. tx'.buf = Other
        BY <2>2, <3>1, Zenon
      <3>3. QED
        BY <3>2, Zenon DEF Other, Buffers
    <2>4. QED
      BY <1>1, <2>1, <2>3, Zenon DEF Intact, MsgWaits, MsgStarts, MsgIsSent, vars
  <1>5. CASE UNCHANGED allvars
    BY <1>1, <1>5, Zenon DEF Intact, MsgWaits, MsgStarts, MsgIsSent, Holds, Sending, Starting,
                             allvars, vars, echo
  <1>6. QED
    BY <1>2, <1>3, <1>4, <1>5

\* The byte that is fetched no longer matters, and the transmission is one ahead.
LEMMA SendByteIntact ==
  ASSUME TxInv, SendByte
  PROVE  Intact'
  <1>1. /\ IInv /\ MsgWaits /\ MsgStarts /\ MsgIsSent /\ OneStage
        /\ tx \in TxType /\ huart \in HandleType /\ tx.at \in Nat /\ tx.len \in Nat
    BY KeptRecords DEF IInv, TxInv, HandleOK, TxType
  <1>2. /\ UNCHANGED <<vars, msg, late>> /\ Sending /\ tx' = [tx EXCEPT !.at = tx.at + 1]
        /\ paced' = TRUE
    BY DEF SendByte
  <1>3. /\ tx'.at = tx.at + 1 /\ tx'.len = tx.len /\ tx'.want = tx.want /\ tx'.buf = tx.buf
        /\ tx'.locked = tx.locked /\ tx'.DMAT = tx.DMAT /\ tx'.timely = tx.timely
    BY <1>1, <1>2, SMT DEF TxType
  <1>4. ~Starting /\ ~Starting'
    BY <1>2, <1>3 DEF Starting, Sending
  <1>5. MsgWaits' /\ MsgStarts'
    BY <1>1, <1>2, <1>3, <1>4, Zenon DEF MsgWaits, MsgStarts, Holds, vars
  <1>6. MsgIsSent'
    <2>1. SUFFICES ASSUME tx.buf \in Buffers, tx.timely
                   PROVE  /\ \A i \in tx.at + 1 .. tx.len - 1 : mem[tx.buf][i] = tx.want[i + 1]
                          /\ huart.DMAState = "BUSY" /\ tx.buf = com.DMA_buff =>
                               huart.at <= tx.at + 1 /\ huart.at < tx.at + 1
                          /\ tx.at + 1 > 0
      BY <1>2, <1>3, Zenon DEF MsgIsSent, Holds, vars
    <2>2. /\ \A i \in tx.at .. tx.len - 1 : mem[tx.buf][i] = tx.want[i + 1]
          /\ huart.DMAState = "BUSY" /\ tx.buf = com.DMA_buff => huart.at <= tx.at
      BY <1>1, <1>2, <2>1 DEF MsgIsSent, Holds
    <2>3. huart.at \in Int
      BY <1>1, SMT DEF HandleType
    <2>4. QED
      BY <1>1, <2>2, <2>3, SMT
  <1>7. QED
    BY <1>5, <1>6 DEF Intact

\* A reception that is restarted has something left to receive.
LEMMA RestartNotFull ==
  ASSUME NEW h \in HandleType, h.DMAState # "BUSY", NEW b, NEW k, NEW n
  PROVE  LET s == HAL_UART_Receive_DMA(h, b, k, n)
         IN  s.DMAState = "BUSY" => s.NDTR # 0
  BY SMT DEF HandleType, HAL_UART_Receive_DMA, HAL_DMA_Start_IT

\* Until the callback starts its transfer a handler neither exchanges the buffers
\* nor leaves the stream with a full one; afterwards an exchange is at least one
\* byte behind the transmission, or stops it.
LEMMA HandlersIntact ==
  ASSUME TxInv, Handlers
  PROVE  Intact'
  <1>1. /\ IInv /\ MsgWaits /\ MsgStarts /\ MsgIsSent /\ OneStage
        /\ tx \in TxType /\ HandleOK(huart) /\ huart \in HandleType /\ ComOK(com)
        /\ com.buff # com.DMA_buff /\ tx.at \in Nat
    BY KeptRecords DEF IInv, TxInv, HandleOK, ComOK, TxType
  <1>2. ~tx.locked /\ UNCHANGED <<msg, paced, late>>
    BY DEF Handlers
  <1>3. CASE USART_IRQHandler /\ ~huart.IDLE /\ tx' = tx
    <2>1. UNCHANGED <<com, mem, pc, arg>> /\ huart' = HAL_UART_IRQHandler(huart)
      BY <1>3, Zenon DEF USART_IRQHandler
    <2>2. /\ huart'.NDTR = huart.NDTR /\ huart'.at = huart.at
          /\ huart'.DMAState = "BUSY" => huart.DMAState = "BUSY"
      BY <1>1, <2>1, ErrorLemma
    <2>3. QED
      BY <1>1, <1>2, <1>3, <2>1, <2>2, Zenon
         DEF Intact, MsgWaits, MsgStarts, MsgIsSent, Holds, Sending, Starting
  <1>4. CASE USART_IRQHandler /\ huart.IDLE /\ tx' = StopTx
    <2>1. /\ UNCHANGED <<mem, pc, arg>>
          /\ \/ PROCESSED \in com.USART_State
             \/ /\ PROCESSED \notin com.USART_State
                /\ com' = Hold(Counted)
                /\ huart' = HAL_UART_Receive_DMA(Stopped, com'.DMA_buff,
                                                 U8(com'.DMA_Receive_Count),
                                                 com'.DMA_Receive_Size)
      BY <1>4, Zenon DEF USART_IRQHandler, Stopped, Counted
    <2>2. /\ ~tx'.DMAT /\ (Starting' <=> Starting)
          /\ tx'.buf = tx.buf /\ tx'.at = tx.at /\ tx'.len = tx.len /\ tx'.want = tx.want
      BY <1>1, <1>4, StopTxLemma DEF Starting
    <2>3. MsgIsSent'
      BY <2>2 DEF MsgIsSent, Sending
    <2>4. CASE pc = "call"
      <3>1. PROCESSED \notin com.USART_State
        BY <1>1, <2>4, SMT DEF IInv, Kept, Handshake
      <3>2. /\ com'.USART_State = com.USART_State \cup {PENDING} /\ ComOK(com')
            /\ com'.DMA_buff \in Buffers /\ com'.DMA_Receive_Count = InDmaBuff
            /\ com'.DMA_Receive_Count \in 0 .. USART_RECEIVE_MAX
            /\ com'.DMA_Receive_Size \in 0 .. USART_RECEIVE_MAX
            /\ com'.DMA_Receive_Count + com'.DMA_Receive_Size = USART_RECEIVE_MAX
        <4>1. ComOK(com') /\ com'.USART_State = com.USART_State \cup {PENDING}
              /\ com'.DMA_Receive_Count = Counted.DMA_Receive_Count
          BY <1>1, <2>1, <3>1, CountedCom, HoldLemma
        <4>2. Counted.DMA_Receive_Count = InDmaBuff
          BY <1>1, CountedCom
        <4>3. QED
          BY <4>1, <4>2, SMT DEF ComOK, ComType
      <3>3. huart'.DMAState = "BUSY" => huart'.NDTR # 0
        BY <1>1, <2>1, <3>1, StoppedHandle, RestartNotFull DEF HandleOK
      <3>4. FULL \in com'.USART_State <=> FULL \in com.USART_State
        BY <3>2 DEF FULL, PENDING
      <3>5. ASSUME huart.NDTR = 0
            PROVE  huart'.DMAState # "BUSY" /\ huart'.NDTR = 0
        <4>1. com'.DMA_Receive_Size = 0
          BY <1>1, <3>2, <3>5, SMT DEF ComOK, ComType, InDmaBuff
        <4>2. huart' = Stopped
          BY <2>1, <3>1, <4>1, Zenon DEF HAL_UART_Receive_DMA
        <4>3. QED
          BY <1>1, <3>5, <4>2, StoppedHandle
      <3>6. MsgWaits'
        BY <1>1, <1>2, <2>1, <2>2, <2>4, <3>3, <3>4, Zenon DEF MsgWaits, Holds
      <3>7. MsgStarts'
        BY <1>1, <1>2, <2>1, <2>2, <2>4, <3>3, <3>4, <3>5, Zenon DEF MsgStarts, Holds
      <3>8. QED
        BY <2>3, <3>6, <3>7 DEF Intact
    <2>5. CASE pc # "call"
      BY <1>1, <1>2, <2>1, <2>2, <2>3, <2>5, Zenon DEF Intact, MsgWaits, MsgStarts
    <2>6. QED
      BY <2>4, <2>5
  <1>5. CASE DMA_IRQHandler /\ huart.DMAState = "ABORT" /\ tx' = tx
    <2>1. UNCHANGED <<com, mem, pc, arg>> /\ huart' = HAL_DMA_IRQHandler(huart)
      BY <1>5, Zenon DEF DMA_IRQHandler
    <2>2. huart'.DMAState # "BUSY" /\ huart'.NDTR = huart.NDTR
      BY <1>1, <2>1, DmaIrqLemma
    <2>3. QED
      BY <1>1, <1>2, <1>5, <2>1, <2>2, Zenon
         DEF Intact, MsgWaits, MsgStarts, MsgIsSent, Holds, Sending, Starting
  <1>6. CASE DMA_IRQHandler /\ huart.DMAState # "ABORT" /\ tx' = tx
    <2>1. /\ UNCHANGED <<mem, pc, arg>> /\ DmaPending(huart)
          /\ com' = TakeFull(com)
          /\ huart' = HAL_UART_Receive_DMA(HAL_DMA_IRQHandler(huart), com'.DMA_buff, 0,
                                           com'.DMA_Receive_Size)
      BY <1>6, Zenon DEF DMA_IRQHandler
    <2>2. huart.DMAState = "BUSY" /\ huart.NDTR = 0
      BY <1>6, <2>1 DEF DmaPending
    <2>3. /\ com'.buff = com.DMA_buff /\ com'.DMA_buff = com.buff
          /\ com'.DMA_Receive_Size = USART_RECEIVE_MAX /\ ComOK(com')
      BY <1>1, <2>1, TakeFullLemma
    <2>4. huart'.at = 0 /\ huart'.NDTR # 0
      <3>1. /\ com'.DMA_buff \in Buffers /\ USART_RECEIVE_MAX # 0
            /\ 0 \in 0 .. USART_RECEIVE_MAX /\ USART_RECEIVE_MAX \in 0 .. USART_RECEIVE_MAX
        BY <2>3, MaxAssumption, SMT DEF ComOK, ComType
      <3>2. /\ HandleOK(HAL_DMA_IRQHandler(huart))
            /\ HAL_DMA_IRQHandler(huart).RxState = "READY"
            /\ HAL_DMA_IRQHandler(huart).DMAState = "READY"
        BY <1>1, <1>6, DmaIrqLemma
      <3>3. QED
        BY <2>1, <2>3, <3>1, <3>2, ReceiveLemma
    <2>5. MsgWaits' /\ MsgStarts'
      BY <1>1, <1>2, <1>6, <2>1, <2>2, Zenon DEF MsgWaits, MsgStarts, Starting
    <2>6. MsgIsSent'
      <3>1. SUFFICES ASSUME Sending, tx.buf \in Buffers, tx.timely
                     PROVE  /\ Holds(tx.buf, tx.at, tx.len, tx.want)
                            /\ tx.buf = com.buff => 0 <= tx.at /\ (paced => 0 < tx.at)
        BY <1>2, <1>6, <2>1, <2>3, <2>4, Zenon DEF MsgIsSent, Holds, Sending
      <3>2. /\ Holds(tx.buf, tx.at, tx.len, tx.want)
            /\ tx.buf = com.buff /\ paced => tx.at > 0
        BY <1>1, <2>2, <3>1 DEF MsgIsSent
      <3>3. QED
        BY <1>1, <3>2, SMT
    <2>7. QED
      BY <2>5, <2>6 DEF Intact
  <1>7. QED
    BY <1>3, <1>4, <1>5, <1>6, Zenon DEF Handlers

\* In the middle of HAL_UART_Transmit_DMA a handler that fills the other buffer
\* leaves the stream stopped.
LEMMA LockedIntact ==
  ASSUME TxInv, LockedIdle \/ LockedFull
  PROVE  Intact'
  <1>1. /\ IInv /\ MsgStarts /\ OneStage /\ tx \in TxType /\ HandleOK(huart)
    BY KeptRecords DEF IInv, TxInv
  <1>2. tx.locked /\ Starting /\ UNCHANGED <<mem, pc, arg, msg, late>>
    BY <1>1 DEF LockedIdle, LockedFull, OneStage
  <1>3. tx' = tx
    BY <1>2, Zenon DEF LockedIdle, LockedFull, StopTx, Starting
  <1>4. MsgWaits' /\ MsgIsSent'
    BY <1>2, <1>3, Zenon DEF MsgWaits, MsgIsSent, Sending, Starting
  <1>5. ASSUME tx.buf \in Buffers, ~late, FULL \in com'.USART_State
        PROVE  huart'.DMAState # "BUSY" /\ huart'.NDTR = 0
    <2>1. pc = "call" /\ (FULL \in com.USART_State => huart.DMAState # "BUSY" /\ huart.NDTR = 0)
      BY <1>1, <1>2, <1>5 DEF MsgStarts
    <2>2. CASE LockedIdle /\ huart.IDLE
      <3>1. huart' = Stopped
            /\ com' = IF PROCESSED \in com.USART_State THEN HandOver(Counted) ELSE Hold(Counted)
        BY <2>2 DEF LockedIdle, Stopped, Counted
      <3>2. PROCESSED \notin com.USART_State
        BY <1>1, <2>1, SMT DEF IInv, Kept, Handshake
      <3>3. com'.USART_State = com.USART_State \cup {PENDING}
        BY <1>1, <3>1, <3>2, CountedCom, HoldLemma
      <3>4. FULL \in com.USART_State
        BY <1>5, <3>3 DEF FULL, PENDING
      <3>5. QED
        BY <1>1, <2>1, <3>1, <3>4, StoppedHandle
    <2>3. CASE LockedIdle /\ ~huart.IDLE
      <3>1. huart' = HAL_UART_IRQHandler(huart) /\ com' = com
        BY <2>3 DEF LockedIdle
      <3>2. QED
        BY <1>1, <1>5, <2>1, <3>1, ErrorLemma
    <2>4. CASE LockedFull
      <3>1. huart' = HAL_DMA_IRQHandler(huart)
            /\ (com' = com \/ huart.DMAState # "ABORT") /\ DmaPending(huart)
        BY <2>4 DEF LockedFull
      <3>2. huart.NDTR = 0
        BY <1>5, <2>1, <3>1 DEF DmaPending
      <3>3. QED
        BY <1>1, <3>1, <3>2, DmaIrqLemma
    <2>5. QED
      BY <2>2, <2>3, <2>4
  <1>6. MsgStarts'
    BY <1>1, <1>2, <1>3, <1>5, Zenon DEF MsgStarts, Holds, Starting
  <1>7. QED
    BY <1>4, <1>6 DEF Intact

\* receive_str_manage hands over the message it has just copied into msg, or
\* leaves the buffers alone, or stops the transfer.
LEMMA ManageIntact ==
  ASSUME TxInv, EchoManage
  PROVE  Intact'
  <1>1. /\ IInv /\ MsgWaits /\ MsgIsSent /\ OneStage /\ tx \in TxType
        /\ com \in ComType /\ com.buff # com.DMA_buff
    BY KeptRecords DEF IInv, TxInv, ComOK
  <1>2. ~Starting /\ paced' = paced
    BY DEF EchoManage
  <1>3. CASE ManageSwap /\ tx' = (IF com' # com THEN StopTx ELSE tx)
    <2>1. pc' = "test" /\ mem' = mem /\ ~Starting'
      <3>1. ~Starting'
        BY <1>1, <1>2, <1>3, StopTxLemma DEF Starting
      <3>2. QED
        BY <1>3, <3>1 DEF ManageSwap
    <2>2. CASE com' # com
      <3>1. ~tx'.DMAT
        BY <1>1, <1>3, <2>2, StopTxLemma
      <3>2. QED
        BY <2>1, <3>1 DEF Intact, MsgWaits, MsgStarts, MsgIsSent, Sending
    <2>3. CASE com' = com
      <3>1. huart' = huart
        <4>1. HandOver(com) # com
          BY <1>1, HandOverLemma
        <4>2. QED
          BY <1>3, <2>3, <4>1 DEF ManageSwap
      <3>2. QED
        BY <1>1, <1>2, <1>3, <2>1, <2>3, <3>1, Zenon
           DEF Intact, MsgWaits, MsgStarts, MsgIsSent, Holds, Sending, Starting
    <2>4. QED
      BY <2>2, <2>3
  <1>4. CASE /\ ManageCall /\ tx' = tx
             /\ IF pc' = "call"
                THEN msg' = [i \in 1 .. com.receive_count |-> mem[com.buff][i - 1]]
                ELSE UNCHANGED <<msg, late>>
    <2>1. UNCHANGED <<huart, mem>> /\ NoIrq
      BY <1>4 DEF ManageCall
    <2>2. /\ com'.buff = com.buff /\ com'.DMA_buff = com.DMA_buff
          /\ FULL \in com'.USART_State <=> FULL \in com.USART_State
      <3>1. CASE com' = com
        BY <3>1
      <3>2. CASE com' = [com EXCEPT !.USART_State = com.USART_State \cup {PROCESSING}]
        <4>1. /\ com'.buff = com.buff /\ com'.DMA_buff = com.DMA_buff
              /\ com'.USART_State = com.USART_State \cup {PROCESSING}
          BY <1>1, <3>2, SMT DEF ComType
        <4>2. QED
          BY <4>1 DEF FULL, PROCESSING
      <3>3. QED
        BY <1>4, <3>1, <3>2, Zenon DEF ManageCall
    <2>3. MsgStarts' /\ MsgIsSent'
      BY <1>1, <1>2, <1>4, <2>1, <2>2, Zenon DEF MsgStarts, MsgIsSent, Holds, Sending, Starting
    <2>4. CASE pc' = "call"
      <3>1. arg' = [buf |-> com.buff, len |-> com.receive_count]
        BY <1>4, <2>4 DEF ManageCall
      <3>2. \A i \in 0 .. com.receive_count - 1 : mem[com.buff][i] = msg'[i + 1]
        <4>1. \A i \in 0 .. com.receive_count - 1 :
                i + 1 \in 1 .. com.receive_count /\ (i + 1) - 1 = i
          BY <1>1, SMT DEF ComType
        <4>2. QED
          BY <1>4, <2>4, <4>1
      <3>3. FULL \notin com'.USART_State
        BY <1>1, <1>4, <2>2, SMT DEF IInv, Kept, Handshake, ManageCall
      <3>4. huart.DMAState = "BUSY" => huart.NDTR # 0
        BY <2>1 DEF NoIrq, DmaPending
      <3>5. QED
        BY <2>1, <2>3, <3>1, <3>2, <3>3, <3>4 DEF Intact, MsgWaits, Holds
    <2>5. CASE pc' # "call"
      BY <2>3, <2>5 DEF Intact, MsgWaits
    <2>6. QED
      BY <2>4, <2>5
  <1>5. CASE ManageFinish /\ UNCHANGED <<tx, msg, late>>
    <2>1. UNCHANGED <<huart, mem>> /\ pc' = "poll"
      BY <1>5 DEF ManageFinish
    <2>2. com'.buff = com.buff /\ com'.DMA_buff = com.DMA_buff
      BY <1>1, <1>5, SMT DEF ManageFinish, ComType
    <2>3. QED
      BY <1>1, <1>2, <1>5, <2>1, <2>2, Zenon
         DEF Intact, MsgWaits, MsgStarts, MsgIsSent, Holds, Sending, Starting
  <1>6. QED
    BY <1>3, <1>4, <1>5, Zenon DEF EchoManage

\* The callback sends the message as it was given, from where it lies.
LEMMA SendIntact ==
  ASSUME TxInv, SendStart \/ SendUnlock \/ SendEnd \/ SendRefused
  PROVE  Intact'
  <1>1. /\ IInv /\ MsgWaits /\ MsgStarts /\ MsgIsSent /\ OneStage
        /\ tx \in TxType /\ msg \in Seq(Nat) /\ com.buff # com.DMA_buff
    BY KeptRecords DEF IInv, TxInv, ComOK
  <1>2. CASE SendStart
    <2>1. /\ UNCHANGED <<com, huart, mem, pc, arg, msg, late>> /\ pc = "call"
          /\ tx.gState = "READY" /\ tx' = Started(arg.buf, arg.len, msg)
      BY <1>2 DEF SendStart, vars
    <2>2. ~Starting /\ ~tx.DMAT
      BY <1>1, <2>1 DEF OneStage
    <2>3. arg.buf \in Buffers /\ arg.len \in Nat
      BY <1>1, SMT DEF IInv, Kept, TypeOK, ArgType
    <2>4. /\ tx'.locked /\ ~tx'.DMAT /\ Starting'
          /\ tx'.buf = arg.buf /\ tx'.at = 0 /\ tx'.len = arg.len /\ tx'.want = msg
      BY <1>1, <2>1, <2>2, <2>3, StartedLemma DEF Starting
    <2>5. MsgStarts'
      <3>1. ~late =>
              /\ \A i \in 0 .. arg.len - 1 : mem[arg.buf][i] = msg[i + 1]
              /\ FULL \notin com.USART_State
        BY <1>1, <2>1, <2>2 DEF MsgWaits, Holds
      <3>2. QED
        BY <2>1, <2>4, <3>1 DEF MsgStarts, Holds
    <2>6. MsgWaits' /\ MsgIsSent'
      BY <2>4 DEF MsgWaits, MsgIsSent, Sending
    <2>7. QED
      BY <2>5, <2>6 DEF Intact
  <1>3. CASE SendUnlock
    <2>1. /\ UNCHANGED <<com, huart, mem, pc, arg, msg, late>> /\ tx.locked /\ NoIrq
          /\ tx' = [tx EXCEPT !.locked = FALSE]
      BY <1>3 DEF SendUnlock, vars
    <2>2. /\ tx'.buf = tx.buf /\ tx'.at = tx.at /\ tx'.len = tx.len /\ tx'.want = tx.want
          /\ tx'.DMAT = tx.DMAT /\ tx'.DMAState = tx.DMAState
      BY <1>1, <2>1, SMT DEF TxType
    <2>3. Starting /\ Starting'
      BY <1>1, <2>1, <2>2 DEF OneStage, Starting
    <2>4. huart.DMAState = "BUSY" => huart.NDTR # 0
      BY <2>1 DEF NoIrq, DmaPending
    <2>5. MsgStarts'
      <3>1. SUFFICES ASSUME tx'.buf \in Buffers, ~late'
                     PROVE  /\ pc' = "call" /\ tx'.buf = arg'.buf /\ tx'.at = 0
                            /\ Holds(tx.buf, 0, tx.len, tx.want)'
                            /\ FULL \in com'.USART_State => huart'.DMAState # "BUSY" /\ huart'.NDTR = 0
                            /\ ~tx'.locked /\ huart'.DMAState = "BUSY" => huart'.NDTR # 0
        BY Zenon DEF MsgStarts
      <3>2. /\ pc = "call" /\ tx.buf = arg.buf /\ tx.at = 0
            /\ Holds(tx.buf, 0, tx.len, tx.want)
            /\ FULL \in com.USART_State => huart.DMAState # "BUSY" /\ huart.NDTR = 0
        <4>1. tx.buf \in Buffers /\ ~late BY <2>1, <2>2, <3>1
        <4>2. QED BY <1>1, <2>3, <4>1, Zenon DEF MsgStarts
      <3>3. Holds(tx.buf, 0, tx.len, tx.want)'
        <4>1. /\ mem' = mem /\ tx'.buf = tx.buf /\ tx'.len = tx.len /\ tx'.want = tx.want
          BY <2>1, <2>2
        <4>2. \A i \in 0 .. tx.len - 1 : mem[tx.buf][i] = tx.want[i + 1]
          BY <3>2 DEF Holds
        <4>3. QED BY <4>1, <4>2 DEF Holds
      <3>4. pc' = "call" /\ tx'.buf = arg'.buf /\ tx'.at = 0
        BY <2>1, <2>2, <3>2
      <3>5. QED
        BY <2>1, <2>4, <3>2, <3>3, <3>4
    <2>6. MsgWaits' /\ MsgIsSent'
      BY <2>3 DEF MsgWaits, MsgIsSent, Sending, Starting
    <2>7. QED
      BY <2>5, <2>6 DEF Intact
  <1>4. CASE SendEnd
    <2>1. /\ UNCHANGED <<com, huart, mem, arg, msg, late>> /\ Starting /\ NoIrq
          /\ tx' = [tx EXCEPT !.DMAT = TRUE, !.timely = ~late] /\ pc' # "call"
      BY <1>4 DEF SendEnd, Callback, vars
    <2>2. /\ tx'.buf = tx.buf /\ tx'.at = tx.at /\ tx'.len = tx.len /\ tx'.want = tx.want
          /\ tx'.DMAT /\ tx'.timely = ~late
      BY <1>1, <2>1, SMT DEF TxType
    <2>3. MsgWaits' /\ MsgStarts'
      BY <2>1, <2>2 DEF MsgWaits, MsgStarts, Starting
    <2>4. MsgIsSent'
      <3>1. SUFFICES ASSUME tx.buf \in Buffers, ~late
                     PROVE  /\ Holds(tx.buf, tx.at, tx.len, tx.want)
                            /\ huart.DMAState = "BUSY" => tx.buf # com.DMA_buff
                            /\ ~(huart.DMAState = "BUSY" /\ huart.NDTR = 0)
        BY <2>1, <2>2, Zenon DEF MsgIsSent, Holds, Sending
      <3>2. /\ pc = "call" /\ tx.buf = arg.buf /\ tx.at = 0
            /\ Holds(tx.buf, tx.at, tx.len, tx.want)
            /\ FULL \in com.USART_State => huart.DMAState # "BUSY"
        BY <1>1, <2>1, <3>1 DEF MsgStarts
      <3>3. PROCESSING \in com.USART_State
        BY <1>1, <3>2 DEF IInv, Kept, Handshake
      <3>4. huart.DMAState = "BUSY" => tx.buf = com.buff
        BY <1>1, <3>2, <3>3 DEF IInv, Argument
      <3>5. QED
        BY <1>1, <2>1, <3>2, <3>4 DEF NoIrq, DmaPending
    <2>5. QED
      BY <2>3, <2>4 DEF Intact
  <1>5. CASE SendRefused
    <2>1. /\ UNCHANGED <<com, huart, mem, arg, tx, msg, paced, late>> /\ ~Starting
          /\ pc' # "call"
      BY <1>5 DEF SendRefused, Callback, echo
    <2>2. QED
      BY <1>1, <2>1, Zenon
         DEF Intact, MsgWaits, MsgStarts, MsgIsSent, Holds, Sending, Starting
  <1>6. QED
    BY <1>2, <1>3, <1>4, <1>5

\* Every step keeps the message where the transmission still needs it.
LEMMA TxStep ==
  ASSUME TxInv, [EchoNext]_allvars
  PROVE  TxInv'
  <1>1. IInv'
    BY EchoStep DEF TxInv
  <1>2. /\ tx' \in TxType /\ msg' \in Seq(Nat) /\ paced' \in BOOLEAN /\ late' \in BOOLEAN
        /\ OneStage'
    BY StageStep
  <1>3. Intact'
    BY ReceiveIntact, OtherIntact, SendByteIntact, HandlersIntact, LockedIntact, ManageIntact,
       SendIntact DEF EchoNext, EchoMain
  <1>4. QED
    BY <1>1, <1>2, <1>3 DEF TxInv, Intact

\* com_init leaves the transmitter free.
LEMMA TxInit == EchoInit => TxInv
  <1> SUFFICES ASSUME EchoInit PROVE TxInv
    OBVIOUS
  <1>1. IInv
    BY InitStep DEF EchoInit
  <1>2. tx = [gState |-> "READY", locked |-> FALSE, DMAT |-> FALSE, TCIE |-> FALSE,
              DMAState |-> "READY", buf |-> Other, at |-> 0, len |-> 0, want |-> <<>>,
              timely |-> TRUE]
        /\ msg = <<>> /\ paced = TRUE /\ late = FALSE /\ pc = "poll"
    BY DEF EchoInit, Init
  <1>3. <<>> \in Seq(Nat) /\ Other \in Buffers \cup {Other}
    OBVIOUS
  <1>4. tx \in TxType
    BY <1>2, <1>3, TxValues, Zenon DEF TxType
  <1>5. OneStage /\ MsgWaits /\ MsgStarts /\ MsgIsSent
    BY <1>2, SMT DEF OneStage, MsgWaits, MsgStarts, MsgIsSent, Sending, Starting
  <1>6. QED
    BY <1>1, <1>2, <1>3, <1>4, <1>5 DEF TxInv

\* TxInv holds in every reachable state, for every size and latency.
THEOREM TxInvariant == EchoSpec => []TxInv
  <1>1. TxInv /\ [EchoNext]_allvars => TxInv'
    BY TxStep
  <1>2. QED
    BY <1>1, TxInit, PTL DEF EchoSpec

\* Every byte that the stream fetches is the one the callback was given, although
\* nobody waits for it before the reception gets the buffer back: what the
\* reception writes into it comes behind.  So for every buffer size, number of bytes
\* and latency, and wherever interrupts hold the callback up, unless they let the
\* other buffer get full before the transfer begins.
THEOREM EchoIsIntact == EchoSpec => EchoIntact
  <1>1. TxInv /\ [EchoNext]_allvars =>
          [tx'.at = tx.at + 1 /\ tx.buf \in Buffers /\ tx.timely =>
             mem[tx.buf][tx.at] = tx.want[tx.at + 1]]_allvars
    <2> SUFFICES ASSUME TxInv, EchoNext, tx'.at = tx.at + 1, tx.buf \in Buffers,
                        tx.timely
                 PROVE  mem[tx.buf][tx.at] = tx.want[tx.at + 1]
      OBVIOUS
    <2>1. tx \in TxType /\ tx.at \in Nat /\ tx.len \in Nat /\ OneStage /\ MsgIsSent
      BY DEF TxInv, TxType
    <2>2. CASE SendByte
      <3>1. Holds(tx.buf, tx.at, tx.len, tx.want) /\ tx.at < tx.len
        BY <2>1, <2>2 DEF MsgIsSent, SendByte, Sending
      <3>2. tx.at \in tx.at .. tx.len - 1
        BY <2>1, <3>1, SMT
      <3>3. QED
        BY <3>1, <3>2 DEF Holds
    <2>3. CASE tx' = tx \/ tx' = StopTx
      <3>1. tx'.at = tx.at
        BY <2>1, <2>3, StopTxLemma
      <3>2. QED
        BY <2>1, <3>1, SMT
    <2>4. CASE DmaTxComplete \/ TxComplete \/ SendUnlock \/ SendEnd
      <3>1. tx'.at = tx.at
        <4>1. CASE DmaTxComplete
          BY <2>1, <4>1, SMT DEF DmaTxComplete, TxType
        <4>2. CASE TxComplete
          BY <2>1, <4>2, SMT DEF TxComplete, TxType
        <4>3. CASE SendEnd
          <5>1. tx' = [tx EXCEPT !.DMAT = TRUE, !.timely = ~late]
            BY <4>3 DEF SendEnd
          <5>2. QED
            BY <2>1, <5>1, SMT DEF TxType
        <4>4. CASE SendUnlock
          BY <2>1, <4>4, SMT DEF SendUnlock, TxType
        <4>5. QED
          BY <2>4, <4>1, <4>2, <4>3, <4>4
      <3>2. QED
        BY <2>1, <3>1, SMT
    <2>5. CASE SendStart \/ OtherSends
      <3>1. tx'.at = 0
        <4>1. \A b, n, bytes : Started(b, n, bytes).at = 0
          BY <2>1, SMT DEF Started, TxType
        <4>2. CASE SendStart
          BY <4>1, <4>2, Zenon DEF SendStart
        <4>3. CASE OtherSends
          BY <4>1, <4>3, Zenon DEF OtherSends
        <4>4. QED
          BY <2>5, <4>2, <4>3
      <3>2. QED
        BY <2>1, <3>1, SMT
    <2>6. QED
      <3>1. \/ SendByte \/ DmaTxComplete \/ TxComplete \/ SendUnlock \/ SendEnd
            \/ SendStart \/ OtherSends \/ tx' = tx \/ tx' = StopTx
        BY Zenon DEF EchoNext, EchoMain, Receive, EchoIdle, Handlers, LockedIdle, LockedFull,
                     EchoManage, SendRefused, echo
      <3>2. QED
        BY <2>2, <2>3, <2>4, <2>5, <3>1
  <1>2. QED
    BY <1>1, TxInvariant, PTL DEF EchoSpec, EchoIntact
=============================================================================
