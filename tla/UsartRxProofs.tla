--------------------------- MODULE UsartRxProofs ---------------------------
(***************************************************************************)
(* Proofs about UsartRx, for every buffer size up to 255, every number of  *)
(* bytes, either interrupt order and (except for StreamIntact) every       *)
(* interrupt latency.                                                      *)
(***************************************************************************)
EXTENDS UsartRx, SequenceTheorems, TLAPS

-----------------------------------------------------------------------------
(* Replacing one field of a record by a value of its type; the provers do   *)
(* not find the type of a record with several fields replaced by themselves. *)

\* A handle with another RxState of its type is still a handle.
LEMMA SetRxState == \A h \in HandleType : \A v \in RxStates : [h EXCEPT !.RxState = v] \in HandleType
  BY SMT DEF HandleType

\* A handle with another DMAState of its type is still a handle.
LEMMA SetDMAState == \A h \in HandleType : \A v \in DMAStates : [h EXCEPT !.DMAState = v] \in HandleType
  BY SMT DEF HandleType

\* A handle with another M0AR of its type is still a handle.
LEMMA SetM0AR == \A h \in HandleType : \A v \in Buffers : [h EXCEPT !.M0AR = v] \in HandleType
  BY SMT DEF HandleType

\* A handle with another at of its type is still a handle.
LEMMA SetAt ==
  \A h \in HandleType : \A v \in 0 .. USART_RECEIVE_MAX : [h EXCEPT !.at = v] \in HandleType
  BY SMT DEF HandleType

\* A handle with another NDTR of its type is still a handle.
LEMMA SetNDTR ==
  \A h \in HandleType : \A v \in 0 .. USART_RECEIVE_MAX : [h EXCEPT !.NDTR = v] \in HandleType
  BY SMT DEF HandleType

\* A handle with another IDLE of its type is still a handle.
LEMMA SetIDLE == \A h \in HandleType : \A v \in BOOLEAN : [h EXCEPT !.IDLE = v] \in HandleType
  BY SMT DEF HandleType

\* A handle with another ERR of its type is still a handle.
LEMMA SetERR == \A h \in HandleType : \A v \in BOOLEAN : [h EXCEPT !.ERR = v] \in HandleType
  BY SMT DEF HandleType

\* A STUsart with another buff of its type is still a STUsart.
LEMMA SetBuff == \A c \in ComType : \A v \in Buffers : [c EXCEPT !.buff = v] \in ComType
  BY SMT DEF ComType

\* A STUsart with another DMA_buff of its type is still a STUsart.
LEMMA SetDMABuff == \A c \in ComType : \A v \in Buffers : [c EXCEPT !.DMA_buff = v] \in ComType
  BY SMT DEF ComType

\* A STUsart with another receive_count of its type is still a STUsart.
LEMMA SetReceiveCount ==
  \A c \in ComType : \A v \in 0 .. USART_RECEIVE_MAX : [c EXCEPT !.receive_count = v] \in ComType
  BY SMT DEF ComType

\* A STUsart with another DMA_Receive_Count of its type is still a STUsart.
LEMMA SetDMACount ==
  \A c \in ComType : \A v \in 0 .. USART_RECEIVE_MAX :
    [c EXCEPT !.DMA_Receive_Count = v] \in ComType
  BY SMT DEF ComType

\* A STUsart with another DMA_Receive_Size of its type is still a STUsart.
LEMMA SetDMASize ==
  \A c \in ComType : \A v \in 0 .. USART_RECEIVE_MAX :
    [c EXCEPT !.DMA_Receive_Size = v] \in ComType
  BY SMT DEF ComType

\* A STUsart with another USART_State of its type is still a STUsart.
LEMMA SetState == \A c \in ComType : \A v \in SUBSET StateBits : [c EXCEPT !.USART_State = v] \in ComType
  BY SMT DEF ComType

-----------------------------------------------------------------------------
(* The HAL: what each call leaves in the handle. *)

\* The states in which the HAL leaves a receive handle between two handlers.
HandleOK(h) ==
  /\ h \in HandleType
  /\ h.DMAState = "BUSY" => h.RxState = "BUSY_RX"

\* HAL_UART_DMAStop leaves no transfer under way, and NDTR as it was.
LEMMA StopLemma ==
  ASSUME NEW h, HandleOK(h)
  PROVE  LET s == HAL_UART_DMAStop(h)
         IN  /\ HandleOK(s)
             /\ s.RxState = "READY" /\ s.DMAState # "BUSY"
             /\ s.NDTR = h.NDTR /\ s.IDLE = h.IDLE /\ s.ERR = h.ERR
             /\ h.DMAState # "ABORT" => s.DMAState = "READY"
  <1> DEFINE s == HAL_UART_DMAStop(h)
  <1>1. s \in HandleType
    <2>1. h \in HandleType /\ "READY" \in RxStates /\ "READY" \in DMAStates
      BY DEF HandleOK, RxStates, DMAStates
    <2>2. HAL_DMA_Abort(h) \in HandleType
      BY <2>1, SetDMAState, Zenon DEF HAL_DMA_Abort
    <2>3. QED
      BY <2>1, <2>2, SetRxState, Zenon DEF HAL_UART_DMAStop
  <1>2. s.RxState = "READY" /\ s.DMAState # "BUSY"
        /\ s.NDTR = h.NDTR /\ s.IDLE = h.IDLE /\ s.ERR = h.ERR
        /\ (h.DMAState # "ABORT" => s.DMAState = "READY")
    BY SMT DEF HandleOK, HandleType, HAL_UART_DMAStop, HAL_DMA_Abort, RxStates, DMAStates
  <1>3. QED
    BY <1>1, <1>2 DEF HandleOK

\* HAL_UART_Receive_DMA on a stopped handle: either the transfer runs on the new
\* buffer, or the handle was locked or there was no room, and NDTR is stale.
LEMMA ReceiveLemma ==
  ASSUME NEW h, HandleOK(h), h.RxState = "READY",
         NEW b \in Buffers,
         NEW k \in 0 .. USART_RECEIVE_MAX, NEW n \in 0 .. USART_RECEIVE_MAX
  PROVE  LET s == HAL_UART_Receive_DMA(h, b, k, n)
         IN  /\ HandleOK(s)
             /\ s.IDLE => h.IDLE
             /\ n # 0 => ~s.IDLE
             /\ n # 0 /\ h.DMAState = "READY" =>
                  /\ s.RxState = "BUSY_RX" /\ s.DMAState = "BUSY" /\ ~s.ERR
                  /\ s.M0AR = b /\ s.at = k /\ s.NDTR = n
             /\ n # 0 /\ h.DMAState # "READY" =>
                  /\ s.RxState = "BUSY_RX" /\ s.DMAState = "ABORT" /\ ~s.ERR
                  /\ s.NDTR = h.NDTR
             /\ n = 0 => s = h
  <1> DEFINE st == HAL_DMA_Start_IT(h, b, k, n)
             s  == HAL_UART_Receive_DMA(h, b, k, n)
  <1>1. h \in HandleType /\ h.DMAState \in {"READY", "ABORT"}
    BY DEF HandleOK, HandleType, DMAStates
  <1>2. st \in HandleType
    <2>1. "BUSY" \in DMAStates
      BY DEF DMAStates
    <2>2. [[[[h EXCEPT !.DMAState = "BUSY"] EXCEPT !.M0AR = b] EXCEPT !.at = k]
              EXCEPT !.NDTR = n] \in HandleType
      BY <1>1, <2>1, SetDMAState, SetM0AR, SetAt, SetNDTR, Zenon
    <2>3. QED
      BY <1>1, <2>2, Zenon DEF HAL_DMA_Start_IT
  <1>3. s \in HandleType
    <2>1. "BUSY_RX" \in RxStates
      BY DEF RxStates
    <2>2. [[[st EXCEPT !.RxState = "BUSY_RX"] EXCEPT !.IDLE = FALSE]
              EXCEPT !.ERR = FALSE] \in HandleType
      BY <1>2, <2>1, SetRxState, SetIDLE, SetERR, Zenon
    <2>3. QED
      BY <1>1, <2>2, Zenon DEF HAL_UART_Receive_DMA
  <1>4. CASE n = 0
    BY <1>4, Zenon DEF HAL_UART_Receive_DMA
  <1>5. CASE n # 0
    BY <1>1, <1>3, <1>5, SMT DEF HandleOK, HandleType, HAL_UART_Receive_DMA, HAL_DMA_Start_IT
  <1>6. QED
    BY <1>4, <1>5

\* HAL_UART_IRQHandler: an error ends the reception and leaves the rest alone.
LEMMA ErrorLemma ==
  ASSUME NEW h, HandleOK(h)
  PROVE  LET s == HAL_UART_IRQHandler(h)
         IN  /\ HandleOK(s)
             /\ s.NDTR = h.NDTR /\ s.IDLE = h.IDLE
             /\ s.M0AR = h.M0AR /\ s.at = h.at
             /\ s.DMAState = "BUSY" => h.DMAState = "BUSY"
             /\ s.DMAState = "READY" => h.DMAState = "READY"
             /\ ~ErrorPending(h) => s = h
             /\ ErrorPending(h) => s.RxState = "READY"
  <1> DEFINE s == HAL_UART_IRQHandler(h)
  <1>1. h \in HandleType /\ "ABORT" \in DMAStates /\ "READY" \in RxStates
    BY DEF HandleOK, RxStates, DMAStates
  <1>2. HAL_DMA_Abort_IT(h) \in HandleType
    BY <1>1, SetDMAState, Zenon DEF HAL_DMA_Abort_IT
  <1>3. s \in HandleType
    BY <1>1, <1>2, SetRxState, Zenon DEF HAL_UART_IRQHandler
  <1>4. CASE ~ErrorPending(h)
    BY <1>4, Zenon DEF HAL_UART_IRQHandler
  <1>5. CASE ErrorPending(h)
    BY <1>1, <1>3, <1>5, SMT DEF HandleOK, HandleType, HAL_UART_IRQHandler, HAL_DMA_Abort_IT,
                                 RxStates, DMAStates
  <1>6. QED
    BY <1>4, <1>5

\* HAL_DMA_IRQHandler unlocks the handle.
LEMMA DmaIrqLemma ==
  ASSUME NEW h, HandleOK(h)
  PROVE  LET s == HAL_DMA_IRQHandler(h)
         IN  /\ HandleOK(s)
             /\ s.DMAState = "READY"
             /\ s.NDTR = h.NDTR /\ s.IDLE = h.IDLE
             /\ s.RxState = IF h.DMAState = "ABORT" THEN h.RxState ELSE "READY"
  <1> DEFINE s == HAL_DMA_IRQHandler(h)
  <1>1. h \in HandleType /\ "READY" \in DMAStates /\ "READY" \in RxStates /\ h.RxState \in RxStates
    BY DEF HandleOK, HandleType, RxStates, DMAStates
  <1>2. [[h EXCEPT !.DMAState = "READY"] EXCEPT
           !.RxState = IF h.DMAState = "ABORT" THEN h.RxState ELSE "READY"] \in HandleType
    BY <1>1, SetDMAState, SetRxState, Zenon
  <1>3. [h EXCEPT !.DMAState = "READY"].RxState = h.RxState
    BY <1>1, SMT DEF HandleType
  <1>4. s \in HandleType
    BY <1>1, <1>2, <1>3, Zenon DEF HAL_DMA_IRQHandler
  <1>5. s.DMAState = "READY" /\ s.NDTR = h.NDTR /\ s.IDLE = h.IDLE
        /\ s.RxState = IF h.DMAState = "ABORT" THEN h.RxState ELSE "READY"
    BY <1>1, SMT DEF HandleType, HAL_DMA_IRQHandler
  <1>6. QED
    BY <1>4, <1>5 DEF HandleOK

-----------------------------------------------------------------------------
(* The three ways a handler leaves the STUsart. *)

\* The two buffers are distinct, and what is counted and what is given to the
\* stream make up one of them.
ComOK(c) ==
  /\ c \in ComType
  /\ c.buff # c.DMA_buff
  /\ c.DMA_Receive_Count + c.DMA_Receive_Size = USART_RECEIVE_MAX

\* U8 and U16 do not change numbers that fit into a buffer.
LEMMA NoWrap ==
  \A n \in 0 .. USART_RECEIVE_MAX : U8(n) = n /\ U16(n) = n
  BY MaxAssumption, SMT DEF U8, U16

\* The exchange of the buffers empties DMA_buff and makes its count that of buff.
LEMMA HandOverLemma ==
  ASSUME NEW c \in ComType, c.buff # c.DMA_buff
  PROVE  LET r == HandOver(c)
         IN  /\ ComOK(r)
             /\ r.buff = c.DMA_buff /\ r.DMA_buff = c.buff
             /\ r.receive_count = c.DMA_Receive_Count
             /\ r.DMA_Receive_Size = USART_RECEIVE_MAX /\ r.DMA_Receive_Count = 0
             /\ r.USART_State = c.USART_State \ {PROCESSED, PENDING}
  <1> DEFINE r == HandOver(c)
  <1>1. /\ c.buff \in Buffers /\ c.DMA_buff \in Buffers
        /\ c.DMA_Receive_Count \in 0 .. USART_RECEIVE_MAX
        /\ USART_RECEIVE_MAX \in 0 .. USART_RECEIVE_MAX /\ 0 \in 0 .. USART_RECEIVE_MAX
        /\ c.USART_State \ {PROCESSED, PENDING} \in SUBSET StateBits
    BY MaxAssumption, SMT DEF ComType
  <1>2. /\ r.buff = c.DMA_buff /\ r.DMA_buff = c.buff
        /\ r.receive_count = c.DMA_Receive_Count
        /\ r.DMA_Receive_Size = USART_RECEIVE_MAX /\ r.DMA_Receive_Count = 0
        /\ r.USART_State = c.USART_State \ {PROCESSED, PENDING}
    BY SMT DEF ComType, HandOver
  <1>3. r \in ComType
    <2>1. [[[[[c EXCEPT !.buff = c.DMA_buff] EXCEPT !.DMA_buff = c.buff]
                EXCEPT !.receive_count = c.DMA_Receive_Count]
                EXCEPT !.DMA_Receive_Size = USART_RECEIVE_MAX]
                EXCEPT !.DMA_Receive_Count = 0] \in ComType
      BY <1>1, SetBuff, SetDMABuff, SetReceiveCount, SetDMASize, SetDMACount, Zenon
    <2>2. [[[[[c EXCEPT !.buff = c.DMA_buff] EXCEPT !.DMA_buff = c.buff]
                 EXCEPT !.receive_count = c.DMA_Receive_Count]
                 EXCEPT !.DMA_Receive_Size = USART_RECEIVE_MAX]
                 EXCEPT !.DMA_Receive_Count = 0].USART_State = c.USART_State
      BY SMT DEF ComType
    <2>3. QED
      BY <1>1, <2>1, <2>2, SetState, Zenon DEF HandOver
  <1>4. QED
    BY <1>1, <1>2, <1>3, SMT DEF ComOK

\* Holding the data leaves both buffers in place and the rest of DMA_buff to the stream.
LEMMA HoldLemma ==
  ASSUME NEW c \in ComType, c.buff # c.DMA_buff
  PROVE  LET r == Hold(c)
         IN  /\ ComOK(r)
             /\ r.buff = c.buff /\ r.DMA_buff = c.DMA_buff
             /\ r.receive_count = c.receive_count
             /\ r.DMA_Receive_Count = c.DMA_Receive_Count
             /\ r.USART_State = c.USART_State \cup {PENDING}
  <1> DEFINE r == Hold(c)
             n == USART_RECEIVE_MAX - c.DMA_Receive_Count
  <1>1. c.DMA_Receive_Count \in 0 .. USART_RECEIVE_MAX /\ n \in 0 .. USART_RECEIVE_MAX
    BY MaxAssumption, SMT DEF ComType
  <1>2. U16(USART_RECEIVE_MAX - U8(c.DMA_Receive_Count)) = n
    BY <1>1, NoWrap
  <1>3. c.USART_State \cup {PENDING} \in SUBSET StateBits
    BY SMT DEF ComType, StateBits
  <1>4. /\ r.buff = c.buff /\ r.DMA_buff = c.DMA_buff
        /\ r.receive_count = c.receive_count
        /\ r.DMA_Receive_Count = c.DMA_Receive_Count /\ r.DMA_Receive_Size = n
        /\ r.USART_State = c.USART_State \cup {PENDING}
    BY <1>2, SMT DEF ComType, Hold
  <1>5. r \in ComType
    <2>1. [c EXCEPT !.DMA_Receive_Size = n] \in ComType
      BY <1>1, SetDMASize, Zenon
    <2>2. [c EXCEPT !.DMA_Receive_Size = n].USART_State = c.USART_State
      BY SMT DEF ComType
    <2>3. QED
      BY <1>2, <1>3, <2>1, <2>2, SetState, Zenon DEF Hold
  <1>6. QED
    BY <1>1, <1>4, <1>5, MaxAssumption, SMT DEF ComOK

\* The forced exchange hands over a buffer that is full to the last byte.
LEMMA TakeFullLemma ==
  ASSUME NEW c, ComOK(c)
  PROVE  LET r == TakeFull(c)
         IN  /\ ComOK(r)
             /\ r.buff = c.DMA_buff /\ r.DMA_buff = c.buff
             /\ r.receive_count = USART_RECEIVE_MAX
             /\ r.DMA_Receive_Size = USART_RECEIVE_MAX /\ r.DMA_Receive_Count = 0
             /\ r.USART_State = (IF PROCESSING \in c.USART_State
                                 THEN c.USART_State \cup {FULL} ELSE c.USART_State)
                                  \ {PROCESSED}
  <1> DEFINE r == TakeFull(c)
             S == (IF PROCESSING \in c.USART_State
                   THEN c.USART_State \cup {FULL} ELSE c.USART_State) \ {PROCESSED}
  <1>1. /\ c \in ComType /\ c.buff # c.DMA_buff
        /\ c.buff \in Buffers /\ c.DMA_buff \in Buffers
        /\ c.DMA_Receive_Count + c.DMA_Receive_Size = USART_RECEIVE_MAX
        /\ USART_RECEIVE_MAX \in 0 .. USART_RECEIVE_MAX /\ 0 \in 0 .. USART_RECEIVE_MAX
    BY MaxAssumption, SMT DEF ComOK, ComType
  <1>2. U16(c.DMA_Receive_Count + c.DMA_Receive_Size) = USART_RECEIVE_MAX
    BY <1>1, NoWrap
  <1>3. S \in SUBSET StateBits
    BY <1>1, SMT DEF ComType, StateBits
  <1>4. /\ r.buff = c.DMA_buff /\ r.DMA_buff = c.buff
        /\ r.receive_count = USART_RECEIVE_MAX
        /\ r.DMA_Receive_Size = USART_RECEIVE_MAX /\ r.DMA_Receive_Count = 0
        /\ r.USART_State = S
    BY <1>1, <1>2, SMT DEF ComType, TakeFull
  <1>5. r \in ComType
    <2>1. [[[[[c EXCEPT !.buff = c.DMA_buff] EXCEPT !.DMA_buff = c.buff]
                EXCEPT !.receive_count = USART_RECEIVE_MAX]
                EXCEPT !.DMA_Receive_Size = USART_RECEIVE_MAX]
                EXCEPT !.DMA_Receive_Count = 0] \in ComType
      BY <1>1, SetBuff, SetDMABuff, SetReceiveCount, SetDMASize, SetDMACount, Zenon
    <2>2. [[[[[c EXCEPT !.buff = c.DMA_buff] EXCEPT !.DMA_buff = c.buff]
                EXCEPT !.receive_count = USART_RECEIVE_MAX]
                EXCEPT !.DMA_Receive_Size = USART_RECEIVE_MAX]
                EXCEPT !.DMA_Receive_Count = 0].USART_State = c.USART_State
      BY <1>1, SMT DEF ComType
    <2>3. QED
      BY <1>2, <1>3, <2>1, <2>2, SetState, Zenon DEF TakeFull
  <1>6. QED
    BY <1>1, <1>4, <1>5, SMT DEF ComOK

-----------------------------------------------------------------------------
(* The inductive invariant, one lemma for each action. *)

\* com_init establishes the invariant.
LEMMA InitStep == Init => IInv
  <1> SUFFICES ASSUME Init PROVE IInv
    OBVIOUS
  <1>1. TypeOK
    <2>1. /\ USART_RECEIVE_MAX \in 0 .. USART_RECEIVE_MAX /\ 0 \in 0 .. USART_RECEIVE_MAX
          /\ "buff1" \in Buffers /\ "buff2" \in Buffers
          /\ {PROCESSED} \in SUBSET StateBits
          /\ "BUSY_RX" \in RxStates /\ "BUSY" \in DMAStates /\ FALSE \in BOOLEAN
      BY MaxAssumption, SMT DEF Buffers, StateBits, RxStates, DMAStates
    <2>2. com \in ComType /\ huart \in HandleType
          /\ arg \in ArgType
      BY <2>1, SMT DEF Init, ComType, HandleType, ArgType
    <2>3. mem \in [Buffers -> [Index -> Nat]] /\ delivered \in Seq(Nat) /\ received \in Nat
      BY SMT DEF Init
    <2>4. QED
      BY <2>2, <2>3, Zenon DEF Init, TypeOK
  <1>2. DmaStaysInBuffer /\ Handshake /\ Bookkeeping /\ Argument
    BY MaxAssumption, SMT DEF Init, DmaStaysInBuffer, Handshake, Bookkeeping, Argument, Running,
                              InDmaBuff, PROCESSING, PROCESSED, FULL, PENDING
  <1>3. QED
    BY <1>1, <1>2 DEF IInv, Kept

\* What the invariant says about the two records.
LEMMA KeptRecords ==
  ASSUME Kept
  PROVE  /\ ComOK(com) /\ HandleOK(huart)
         /\ InDmaBuff \in com.DMA_Receive_Count .. USART_RECEIVE_MAX
  BY SMT DEF Kept, TypeOK, DmaStaysInBuffer, Bookkeeping, ComOK, ComType, HandleOK, HandleType,
             InDmaBuff

\* A byte that the stream stores keeps the invariant, and so does one that is lost.
LEMMA ByteArrivesStep ==
  ASSUME Kept, NEW noisy \in BOOLEAN, ByteArrives(noisy)
  PROVE  Kept'
  <1>1. HandleOK(huart) /\ ComOK(com) /\ received' \in Nat
    BY KeptRecords, SMT DEF ByteArrives, Kept, TypeOK
  <1>2. huart \in HandleType /\ (huart.ERR \/ noisy) \in BOOLEAN
    BY <1>1 DEF HandleOK
  <1>3. CASE Streaming(huart)
    <2>1. /\ huart' = [huart EXCEPT !.at = @ + 1, !.NDTR = @ - 1, !.ERR = @ \/ noisy]
          /\ mem' = [mem EXCEPT ![huart.M0AR][huart.at] = received + 1]
      BY <1>3 DEF ByteArrives
    <2>2. /\ huart.at + 1 \in 0 .. USART_RECEIVE_MAX /\ huart.at \in Index
          /\ huart.NDTR - 1 \in 0 .. USART_RECEIVE_MAX
      BY <1>2, <1>3, SMT DEF Streaming, Running, HandleType, Index, Kept, DmaStaysInBuffer
    <2>3. huart' \in HandleType
      <3>1. [huart EXCEPT !.at = huart.at + 1].NDTR = huart.NDTR
            /\ [[huart EXCEPT !.at = huart.at + 1] EXCEPT !.NDTR = huart.NDTR - 1].ERR = huart.ERR
        BY <1>2, SMT DEF HandleType
      <3>2. [[[huart EXCEPT !.at = huart.at + 1] EXCEPT !.NDTR = huart.NDTR - 1]
               EXCEPT !.ERR = huart.ERR \/ noisy] \in HandleType
        BY <1>2, <2>2, SetAt, SetNDTR, SetERR, Zenon
      <3>3. QED
        BY <2>1, <3>1, <3>2, Zenon
    <2>4. /\ huart'.at = huart.at + 1 /\ huart'.NDTR = huart.NDTR - 1
          /\ huart'.DMAState = huart.DMAState /\ huart'.RxState = huart.RxState
          /\ huart'.M0AR = huart.M0AR
      BY <1>2, <2>1, SMT DEF HandleType
    <2>5. mem' \in [Buffers -> [Index -> Nat]]
      BY <1>2, <2>1, <2>2, SMT DEF Kept, TypeOK, HandleType
    <2>6. TypeOK'
      BY <1>1, <1>3, <2>3, <2>5, Zenon DEF ByteArrives, Kept, TypeOK
    <2>7. DmaStaysInBuffer' /\ Handshake' /\ Bookkeeping'
      BY <1>1, <1>2, <2>2, <2>4, SMT
         DEF ByteArrives, Kept, DmaStaysInBuffer, Handshake, Bookkeeping, HandleType,
             ComOK, ComType, Running, InDmaBuff
    <2>8. QED
      BY <2>6, <2>7 DEF Kept
  <1>4. CASE ~Streaming(huart)
    <2>1. huart' = [huart EXCEPT !.ERR = huart.ERR \/ noisy] /\ mem' = mem
      BY <1>4 DEF ByteArrives
    <2>2. huart' \in HandleType
      BY <1>2, <2>1, SetERR, Zenon
    <2>3. /\ huart'.at = huart.at /\ huart'.NDTR = huart.NDTR
          /\ huart'.DMAState = huart.DMAState /\ huart'.RxState = huart.RxState
          /\ huart'.M0AR = huart.M0AR
      BY <1>2, <2>1, SMT DEF HandleType
    <2>4. lost' \in BOOLEAN
      BY <1>4 DEF ByteArrives
    <2>5. QED
      BY <1>1, <2>1, <2>2, <2>3, <2>4, SMT
         DEF ByteArrives, Kept, TypeOK, DmaStaysInBuffer, Handshake, Bookkeeping, HandleType,
             ComOK, ComType, Running, InDmaBuff
  <1>5. QED
    BY <1>3, <1>4

\* The idle flag keeps the invariant.
LEMMA LineIdleStep ==
  ASSUME Kept, LineIdle
  PROVE  Kept'
  <1>1. huart \in HandleType /\ huart' = [huart EXCEPT !.IDLE = TRUE]
    BY KeptRecords DEF HandleOK, LineIdle
  <1>2. huart' \in HandleType
    BY <1>1, SetIDLE, Zenon
  <1>3. /\ huart'.at = huart.at /\ huart'.NDTR = huart.NDTR
        /\ huart'.DMAState = huart.DMAState /\ huart'.RxState = huart.RxState
        /\ huart'.M0AR = huart.M0AR
    BY <1>1, SMT DEF HandleType
  <1>4. QED
    BY <1>1, <1>2, <1>3, SMT
       DEF LineIdle, Kept, TypeOK, DmaStaysInBuffer, Handshake, Bookkeeping, HandleType,
           Running, InDmaBuff

\* The callback keeps the invariant.
LEMMA CallbackStep ==
  ASSUME Kept, Callback
  PROVE  Kept'
  <1>1. arg.buf \in Buffers /\ arg.len \in 0 .. USART_RECEIVE_MAX
    BY SMT DEF Kept, TypeOK, ArgType
  <1>2. \A i \in 1 .. arg.len : i - 1 \in Index
    BY <1>1, MaxAssumption, SMT DEF Index
  <1>3. [i \in 1 .. arg.len |-> mem[arg.buf][i - 1]] \in Seq(Nat)
    <2>1. \A i \in 1 .. arg.len : mem[arg.buf][i - 1] \in Nat
      BY <1>1, <1>2, Zenon DEF Kept, TypeOK
    <2>2. arg.len \in Nat
      BY <1>1, SMT
    <2>3. \A f, n : n \in Nat /\ (\A i \in 1 .. n : f[i - 1] \in Nat)
                      => [i \in 1 .. n |-> f[i - 1]] \in Seq(Nat)
      BY SMT
    <2>4. QED
      BY <2>1, <2>2, <2>3, Zenon
  <1>4. delivered' \in Seq(Nat)
    <2>1. delivered \in Seq(Nat)
      BY DEF Kept, TypeOK
    <2>2. \A s, t \in Seq(Nat) : s \o t \in Seq(Nat)
      OBVIOUS
    <2>3. QED
      BY <1>3, <2>1, <2>2, Zenon DEF Callback
  <1>5. QED
    BY <1>4, SMT DEF Callback, Kept, TypeOK, DmaStaysInBuffer, Handshake, Bookkeeping, Running,
                     InDmaBuff

\* What is left to show of a step that changes only the two records.
LEMMA Assemble ==
  ASSUME Kept, UNCHANGED <<line, mem, pc, arg, received, delivered>>, lost' \in BOOLEAN,
         ComOK(com'), HandleOK(huart'),
         DmaStaysInBuffer', Handshake', huart'.NDTR <= com'.DMA_Receive_Size
  PROVE  Kept'
  <1>1. TypeOK'
    BY Zenon DEF Kept, TypeOK, ComOK, HandleOK
  <1>2. Bookkeeping'
    BY Zenon DEF Kept, Bookkeeping, ComOK, HandleOK
  <1>3. QED
    BY <1>1, <1>2 DEF Kept

\* USARTx_IRQHandler keeps the invariant, whatever the HAL refused.
LEMMA UsartIrqStep ==
  ASSUME Kept, USART_IRQHandler
  PROVE  Kept'
  <1> DEFINE h       == HAL_UART_IRQHandler(huart)
             cleared == [h EXCEPT !.IDLE = FALSE, !.ERR = FALSE]
             stopped == HAL_UART_DMAStop(cleared)
             counted == [com EXCEPT !.DMA_Receive_Count = U16(InDmaBuff)]
  <1>1. /\ ComOK(com) /\ HandleOK(huart) /\ com \in ComType
        /\ InDmaBuff \in com.DMA_Receive_Count .. USART_RECEIVE_MAX
        /\ com.DMA_Receive_Count \in 0 .. USART_RECEIVE_MAX
    BY KeptRecords, SMT DEF ComOK, ComType
  <1>2. HandleOK(h) /\ h.NDTR = huart.NDTR
    BY <1>1, ErrorLemma
  <1>3. HandleOK(cleared) /\ cleared.NDTR = huart.NDTR
    <2>1. [[h EXCEPT !.IDLE = FALSE] EXCEPT !.ERR = FALSE] \in HandleType
      BY <1>2, SetIDLE, SetERR, Zenon DEF HandleOK
    <2>2. /\ cleared.NDTR = h.NDTR /\ cleared.DMAState = h.DMAState
          /\ cleared.RxState = h.RxState
      BY <1>2, SMT DEF HandleOK, HandleType
    <2>3. QED
      BY <1>2, <2>1, <2>2, Zenon DEF HandleOK
  <1>4. /\ HandleOK(stopped) /\ stopped.RxState = "READY" /\ stopped.DMAState # "BUSY"
        /\ stopped.NDTR = huart.NDTR
    BY <1>3, StopLemma
  <1>5. InDmaBuff \in 0 .. USART_RECEIVE_MAX /\ U16(InDmaBuff) = InDmaBuff
    <2>1. InDmaBuff \in 0 .. USART_RECEIVE_MAX
      BY <1>1, SMT
    <2>2. QED
      BY <2>1, NoWrap
  <1>6. /\ counted \in ComType /\ counted.DMA_Receive_Count = InDmaBuff
        /\ counted.buff = com.buff /\ counted.DMA_buff = com.DMA_buff
        /\ counted.buff # counted.DMA_buff
        /\ counted.receive_count = com.receive_count
        /\ counted.USART_State = com.USART_State
    <2>1. counted \in ComType
      BY <1>1, <1>5, SetDMACount, Zenon
    <2>2. /\ counted.DMA_Receive_Count = InDmaBuff
          /\ counted.buff = com.buff /\ counted.DMA_buff = com.DMA_buff
          /\ counted.receive_count = com.receive_count
          /\ counted.USART_State = com.USART_State
      BY <1>1, <1>5, SMT DEF ComType
    <2>3. QED
      BY <1>1, <2>1, <2>2 DEF ComOK
  <1>7. UNCHANGED <<line, mem, pc, arg, received, delivered>> /\ lost' \in BOOLEAN
    BY DEF USART_IRQHandler, Kept, TypeOK
  <1> HIDE DEF h, cleared, stopped, counted
  <1>8. CASE huart' = h /\ com' = com
    <2>1. DmaStaysInBuffer' /\ huart'.NDTR <= com'.DMA_Receive_Size
      <3>1. /\ huart'.NDTR = huart.NDTR /\ huart'.M0AR = huart.M0AR /\ huart'.at = huart.at
            /\ huart'.DMAState = "BUSY" => huart.DMAState = "BUSY"
        BY <1>1, <1>8, ErrorLemma DEF h
      <3>2. QED
        BY <1>8, <3>1 DEF Kept, DmaStaysInBuffer, Bookkeeping, Running, InDmaBuff
    <2>2. QED
      BY <1>1, <1>2, <1>7, <1>8, <2>1, Assemble DEF Kept, Handshake, Bookkeeping
  <1>9. CASE /\ PROCESSED \in com.USART_State
             /\ com' = HandOver(counted)
             /\ huart' = HAL_UART_Receive_DMA(stopped, com'.DMA_buff, 0, com'.DMA_Receive_Size)
    <2>1. /\ ComOK(com')
          /\ com'.receive_count = InDmaBuff
          /\ com'.DMA_Receive_Size = USART_RECEIVE_MAX /\ com'.DMA_Receive_Count = 0
          /\ com'.USART_State = com.USART_State \ {PROCESSED, PENDING}
      BY <1>6, <1>9, HandOverLemma
    <2>2. com'.DMA_buff \in Buffers /\ USART_RECEIVE_MAX \in 1 .. 255
      BY <2>1, MaxAssumption DEF ComOK, ComType
    <2>3. /\ HandleOK(huart')
          /\ \/ huart'.DMAState = "BUSY" /\ huart'.M0AR = com'.DMA_buff /\ huart'.at = 0
                /\ huart'.NDTR = USART_RECEIVE_MAX
             \/ huart'.DMAState = "ABORT" /\ huart'.NDTR = huart.NDTR
      <3>1. 0 \in 0 .. USART_RECEIVE_MAX /\ USART_RECEIVE_MAX \in 0 .. USART_RECEIVE_MAX
            /\ USART_RECEIVE_MAX # 0
        BY <2>2, SMT
      <3>2. QED
        BY <1>4, <1>9, <2>1, <2>2, <3>1, ReceiveLemma
    <2>4. DmaStaysInBuffer' /\ huart'.NDTR <= com'.DMA_Receive_Size
      BY <2>1, <2>2, <2>3, <1>1, SMT DEF DmaStaysInBuffer, Running, InDmaBuff, ComOK, HandleOK, HandleType
    <2>5. PROCESSING \notin com'.USART_State /\ FULL \notin com'.USART_State
          /\ PROCESSED \notin com'.USART_State /\ pc \notin {"call", "return"}
          /\ ~(com'.DMA_Receive_Count > 0)
      BY <1>9, <2>1, SMT DEF Kept, Handshake, PROCESSING, FULL, PROCESSED, PENDING
    <2>6. Handshake'
      BY <1>7, <2>5, Zenon DEF Handshake
    <2>7. QED
      BY <1>7, <2>1, <2>3, <2>4, <2>5, <2>6, Assemble
  <1>10. CASE /\ PROCESSED \notin com.USART_State
              /\ com' = Hold(counted)
              /\ huart' = HAL_UART_Receive_DMA(stopped, com'.DMA_buff, U8(com'.DMA_Receive_Count),
                                               com'.DMA_Receive_Size)
    <2>1. /\ ComOK(com')
          /\ com'.buff = com.buff /\ com'.DMA_buff = com.DMA_buff
          /\ com'.receive_count = com.receive_count
          /\ com'.DMA_Receive_Count = InDmaBuff
          /\ com'.USART_State = com.USART_State \cup {PENDING}
      BY <1>6, <1>10, HoldLemma
    <2>2. /\ com'.DMA_buff \in Buffers
          /\ com'.DMA_Receive_Size \in 0 .. USART_RECEIVE_MAX
          /\ com'.DMA_Receive_Size = USART_RECEIVE_MAX - InDmaBuff
      BY <1>5, <2>1, MaxAssumption, SMT DEF ComOK, ComType
    <2>3. huart.NDTR <= com'.DMA_Receive_Size
      BY <1>1, <2>2, MaxAssumption, SMT DEF InDmaBuff, ComOK, ComType, HandleOK, HandleType
    <2>4. /\ HandleOK(huart')
          /\ \/ huart'.DMAState = "BUSY" /\ huart'.M0AR = com'.DMA_buff
                /\ huart'.at = InDmaBuff /\ huart'.NDTR = com'.DMA_Receive_Size
             \/ huart'.DMAState # "BUSY" /\ huart'.NDTR = huart.NDTR
      <3>1. U8(com'.DMA_Receive_Count) = InDmaBuff
        BY <1>5, <2>1, NoWrap
      <3>2. QED
        BY <1>4, <1>5, <1>10, <2>1, <2>2, <3>1, ReceiveLemma
    <2>5. DmaStaysInBuffer' /\ huart'.NDTR <= com'.DMA_Receive_Size
      BY <1>5, <2>1, <2>2, <2>3, <2>4, MaxAssumption, SMT
         DEF DmaStaysInBuffer, Running, InDmaBuff, ComOK
    <2>6. \A x \in {PROCESSING, FULL, PROCESSED} :
            x \in com'.USART_State <=> x \in com.USART_State
      BY <2>1, SMT DEF PROCESSING, FULL, PROCESSED, PENDING
    <2>7. Handshake'
      BY <1>7, <2>1, <2>6, Zenon DEF Kept, Handshake
    <2>8. QED
      BY <1>7, <2>1, <2>4, <2>5, <2>7, Assemble
  <1>11. QED
    BY <1>8, <1>9, <1>10 DEF USART_IRQHandler, h, cleared, stopped, counted

\* The DMA handler keeps the invariant, for an abort and for a full buffer.
LEMMA DmaIrqStep ==
  ASSUME Kept, DMA_IRQHandler
  PROVE  Kept'
  <1> DEFINE h == HAL_DMA_IRQHandler(huart)
  <1>1. ComOK(com) /\ HandleOK(huart)
    BY KeptRecords
  <1>2. /\ HandleOK(h) /\ h.DMAState = "READY" /\ h.NDTR = huart.NDTR
        /\ h.RxState = IF huart.DMAState = "ABORT" THEN huart.RxState ELSE "READY"
    BY <1>1, DmaIrqLemma
  <1>3. UNCHANGED <<line, mem, pc, arg, received, delivered>> /\ lost' \in BOOLEAN
    BY DEF DMA_IRQHandler, Kept, TypeOK
  <1> HIDE DEF h
  <1>4. CASE huart.DMAState = "ABORT" /\ huart' = h /\ com' = com
    <2>1. DmaStaysInBuffer' /\ huart'.NDTR <= com'.DMA_Receive_Size
      BY <1>2, <1>4 DEF Kept, DmaStaysInBuffer, Bookkeeping, Running
    <2>2. QED
      BY <1>1, <1>2, <1>3, <1>4, <2>1, Assemble DEF Kept, Handshake, Bookkeeping
  <1>5. CASE /\ huart.DMAState # "ABORT"
             /\ com' = TakeFull(com)
             /\ huart' = HAL_UART_Receive_DMA(h, com'.DMA_buff, 0, com'.DMA_Receive_Size)
    <2>1. /\ ComOK(com')
          /\ com'.receive_count = USART_RECEIVE_MAX
          /\ com'.DMA_Receive_Size = USART_RECEIVE_MAX /\ com'.DMA_Receive_Count = 0
          /\ com'.USART_State = (IF PROCESSING \in com.USART_State
                                 THEN com.USART_State \cup {FULL} ELSE com.USART_State)
                                  \ {PROCESSED}
      BY <1>1, <1>5, TakeFullLemma
    <2>2. /\ com'.DMA_buff \in Buffers
          /\ 0 \in 0 .. USART_RECEIVE_MAX /\ USART_RECEIVE_MAX \in 0 .. USART_RECEIVE_MAX
          /\ USART_RECEIVE_MAX \in 1 .. 255 /\ USART_RECEIVE_MAX # 0
      BY <2>1, MaxAssumption, SMT DEF ComOK, ComType
    <2>3. /\ HandleOK(huart') /\ huart'.DMAState = "BUSY" /\ huart'.M0AR = com'.DMA_buff
          /\ huart'.at = 0 /\ huart'.NDTR = USART_RECEIVE_MAX
      BY <1>2, <1>5, <2>1, <2>2, ReceiveLemma DEF HandleOK
    <2>4. DmaStaysInBuffer' /\ huart'.NDTR <= com'.DMA_Receive_Size
      BY <2>1, <2>2, <2>3, SMT DEF DmaStaysInBuffer, Running, InDmaBuff, ComOK
    <2>5. /\ PROCESSED \notin com'.USART_State
          /\ PROCESSING \in com'.USART_State <=> PROCESSING \in com.USART_State
          /\ FULL \in com'.USART_State <=> PROCESSING \in com.USART_State
          /\ ~(com'.DMA_Receive_Count > 0)
      <3>1. FULL \in com.USART_State => PROCESSING \in com.USART_State
        BY DEF Kept, Handshake
      <3>2. QED
        BY <2>1, <3>1, SMT DEF PROCESSING, FULL, PROCESSED
    <2>6. Handshake'
      BY <1>3, <2>1, <2>2, <2>5, Zenon DEF Kept, Handshake
    <2>7. QED
      BY <1>3, <2>1, <2>3, <2>4, <2>5, <2>6, Assemble
  <1>6. QED
    BY <1>4, <1>5 DEF DMA_IRQHandler, h

\* The exchange in receive_str_manage keeps the invariant.
LEMMA ManageSwapStep ==
  ASSUME Kept, ManageSwap
  PROVE  Kept'
  <1>1. /\ ComOK(com) /\ HandleOK(huart) /\ com \in ComType /\ com.buff # com.DMA_buff
    BY KeptRecords DEF ComOK
  <1>2. UNCHANGED <<line, mem, arg, received, delivered, lost>> /\ pc = "poll" /\ pc' = "test"
    BY DEF ManageSwap
  <1>3. PROCESSING \notin com.USART_State /\ FULL \notin com.USART_State
    BY <1>2, SMT DEF Kept, Handshake
  <1>4. CASE com' = com /\ huart' = huart
    BY <1>2, <1>3, <1>4, SMT DEF Kept, TypeOK, DmaStaysInBuffer, Handshake, Bookkeeping, Running,
                                 InDmaBuff
  <1>5. CASE /\ com' = HandOver(com)
             /\ huart' = HAL_UART_Receive_DMA(HAL_UART_DMAStop(huart), com'.DMA_buff, 0,
                                              com'.DMA_Receive_Size)
    <2>1. /\ ComOK(com')
          /\ com'.DMA_Receive_Size = USART_RECEIVE_MAX /\ com'.DMA_Receive_Count = 0
          /\ com'.USART_State = com.USART_State \ {PROCESSED, PENDING}
      BY <1>1, <1>5, HandOverLemma
    <2>2. /\ com'.DMA_buff \in Buffers
          /\ 0 \in 0 .. USART_RECEIVE_MAX /\ USART_RECEIVE_MAX \in 0 .. USART_RECEIVE_MAX
          /\ USART_RECEIVE_MAX \in 1 .. 255 /\ USART_RECEIVE_MAX # 0
      BY <2>1, MaxAssumption, SMT DEF ComOK, ComType
    <2>3. /\ HandleOK(HAL_UART_DMAStop(huart)) /\ HAL_UART_DMAStop(huart).RxState = "READY"
          /\ HAL_UART_DMAStop(huart).DMAState # "BUSY"
          /\ HAL_UART_DMAStop(huart).NDTR = huart.NDTR
      BY <1>1, StopLemma
    <2>4. /\ HandleOK(huart')
          /\ \/ huart'.DMAState = "BUSY" /\ huart'.M0AR = com'.DMA_buff /\ huart'.at = 0
                /\ huart'.NDTR = USART_RECEIVE_MAX
             \/ huart'.DMAState = "ABORT" /\ huart'.NDTR = huart.NDTR
      BY <1>5, <2>1, <2>2, <2>3, ReceiveLemma
    <2>5. DmaStaysInBuffer' /\ huart'.NDTR <= com'.DMA_Receive_Size
      BY <1>1, <2>1, <2>2, <2>4, SMT DEF DmaStaysInBuffer, Running, InDmaBuff, ComOK, HandleOK,
                                         HandleType
    <2>6. PROCESSING \notin com'.USART_State /\ FULL \notin com'.USART_State
          /\ PROCESSED \notin com'.USART_State /\ ~(com'.DMA_Receive_Count > 0)
      BY <1>3, <2>1, SMT DEF PROCESSING, FULL, PROCESSED, PENDING
    <2>7. Handshake' /\ Bookkeeping'
      BY <1>2, <2>1, <2>4, <2>5, <2>6, Zenon DEF Handshake, Bookkeeping, ComOK, HandleOK
    <2>8. TypeOK'
      BY <1>2, <2>1, <2>4, Zenon DEF Kept, TypeOK, ComOK, HandleOK
    <2>9. QED
      BY <2>5, <2>7, <2>8 DEF Kept
  <1>6. QED
    BY <1>4, <1>5 DEF ManageSwap

\* The test before the callback keeps the invariant.
LEMMA ManageCallStep ==
  ASSUME Kept, ManageCall
  PROVE  Kept'
  <1>1. /\ com \in ComType /\ PROCESSING \notin com.USART_State /\ FULL \notin com.USART_State
    BY SMT DEF ManageCall, Kept, TypeOK, Handshake
  <1>2. CASE com.receive_count # 0
    <2>1. /\ com' = [com EXCEPT !.USART_State = com.USART_State \cup {PROCESSING}]
          /\ arg' = [buf |-> com.buff, len |-> com.receive_count] /\ pc' = "call"
          /\ UNCHANGED <<huart, line, mem, received, delivered, lost>>
      BY <1>2 DEF ManageCall
    <2>2. com.USART_State \cup {PROCESSING} \in SUBSET StateBits
      BY <1>1, SMT DEF ComType, StateBits
    <2>3. com' \in ComType
      BY <1>1, <2>1, <2>2, SetState, Zenon
    <2>4. /\ com'.buff = com.buff /\ com'.DMA_buff = com.DMA_buff
          /\ com'.receive_count = com.receive_count
          /\ com'.DMA_Receive_Count = com.DMA_Receive_Count
          /\ com'.DMA_Receive_Size = com.DMA_Receive_Size
          /\ com'.USART_State = com.USART_State \cup {PROCESSING}
      BY <1>1, <2>1, SMT DEF ComType
    <2>5. arg' \in ArgType
      BY <1>1, <2>1, SMT DEF ComType, ArgType
    <2>6. TypeOK'
      BY <2>1, <2>3, <2>5, Zenon DEF Kept, TypeOK
    <2>7. DmaStaysInBuffer' /\ Bookkeeping'
      BY <2>1, <2>4, SMT DEF Kept, DmaStaysInBuffer, Bookkeeping, Running, InDmaBuff
    <2>8. Handshake'
      <3>1. /\ PROCESSING \in com'.USART_State
            /\ \A x \in {PROCESSED, FULL} : x \in com'.USART_State <=> x \in com.USART_State
        BY <2>4, SMT DEF PROCESSING, FULL, PROCESSED
      <3>2. QED
        BY <1>1, <1>2, <2>1, <2>4, <3>1, Zenon DEF Kept, Handshake
    <2>9. QED
      BY <2>6, <2>7, <2>8 DEF Kept
  <1>3. CASE com.receive_count = 0
    <2>1. UNCHANGED <<com, arg, huart, line, mem, received, delivered, lost>> /\ pc' = "poll"
      BY <1>3 DEF ManageCall
    <2>2. QED
      BY <1>1, <2>1, SMT DEF Kept, TypeOK, DmaStaysInBuffer, Handshake, Bookkeeping, Running,
                             InDmaBuff
  <1>4. QED
    BY <1>2, <1>3

\* The flags set after the callback keep the invariant.
LEMMA ManageFinishStep ==
  ASSUME Kept, ManageFinish
  PROVE  Kept'
  <1>1. /\ com \in ComType /\ pc = "return" /\ pc' = "poll"
        /\ UNCHANGED <<huart, line, mem, arg, received, delivered, lost>>
    BY DEF ManageFinish, Kept, TypeOK
  <1>2. /\ com' \in ComType
        /\ com'.buff = com.buff /\ com'.DMA_buff = com.DMA_buff
        /\ com'.DMA_Receive_Count = com.DMA_Receive_Count
        /\ com'.DMA_Receive_Size = com.DMA_Receive_Size
        /\ PROCESSING \notin com'.USART_State /\ FULL \notin com'.USART_State
        /\ PROCESSED \in com'.USART_State => com'.receive_count = 0
        /\ PENDING \in com.USART_State => PENDING \in com'.USART_State
    <2>1. CASE FULL \in com.USART_State
      <3>1. com' = [com EXCEPT !.USART_State = com.USART_State \ {FULL, PROCESSING}]
        BY <2>1 DEF ManageFinish
      <3>2. com.USART_State \ {FULL, PROCESSING} \in SUBSET StateBits
        BY <1>1, SMT DEF ComType
      <3>3. com' \in ComType
        BY <1>1, <3>1, <3>2, SetState, Zenon
      <3>4. /\ com'.buff = com.buff /\ com'.DMA_buff = com.DMA_buff
            /\ com'.DMA_Receive_Count = com.DMA_Receive_Count
            /\ com'.DMA_Receive_Size = com.DMA_Receive_Size
            /\ com'.receive_count = com.receive_count
            /\ com'.USART_State = com.USART_State \ {FULL, PROCESSING}
        BY <1>1, <3>1, SMT DEF ComType
      <3>5. QED
        BY <3>3, <3>4, SMT DEF Kept, Handshake, FULL, PROCESSING, PENDING
    <2>2. CASE FULL \notin com.USART_State
      <3>1. com' = [com EXCEPT !.receive_count = 0,
                               !.USART_State = (com.USART_State \cup {PROCESSED}) \ {PROCESSING}]
        BY <2>2 DEF ManageFinish
      <3>2. /\ (com.USART_State \cup {PROCESSED}) \ {PROCESSING} \in SUBSET StateBits
            /\ 0 \in 0 .. USART_RECEIVE_MAX
            /\ [com EXCEPT !.receive_count = 0].USART_State = com.USART_State
        BY <1>1, MaxAssumption, SMT DEF ComType, StateBits
      <3>3. com' \in ComType
        <4>1. [com EXCEPT !.receive_count = 0] \in ComType
          BY <1>1, <3>2, SetReceiveCount, Zenon
        <4>2. QED
          BY <3>1, <3>2, <4>1, SetState, Zenon
      <3>4. /\ com'.buff = com.buff /\ com'.DMA_buff = com.DMA_buff
            /\ com'.DMA_Receive_Count = com.DMA_Receive_Count
            /\ com'.DMA_Receive_Size = com.DMA_Receive_Size
            /\ com'.receive_count = 0
            /\ com'.USART_State = (com.USART_State \cup {PROCESSED}) \ {PROCESSING}
        BY <1>1, <3>1, SMT DEF ComType
      <3>5. QED
        BY <2>2, <3>3, <3>4, SMT DEF FULL, PROCESSED, PROCESSING, PENDING
    <2>3. QED
      BY <2>1, <2>2
  <1>3. TypeOK'
    BY <1>1, <1>2, SMT DEF Kept, TypeOK
  <1>4. DmaStaysInBuffer' /\ Handshake' /\ Bookkeeping'
    BY <1>1, <1>2, SMT DEF Kept, DmaStaysInBuffer, Handshake, Bookkeeping, Running, InDmaBuff
  <1>5. QED
    BY <1>3, <1>4 DEF Kept

-----------------------------------------------------------------------------
\* Every step keeps what does not depend on the argument of the callback.
LEMMA KeptStep ==
  ASSUME Kept, [Next]_vars
  PROVE  Kept'
  <1>1. CASE \E noisy \in BOOLEAN : ByteArrives(noisy)
    BY <1>1, ByteArrivesStep
  <1>2. CASE LineIdle
    BY <1>2, LineIdleStep
  <1>3. CASE USART_IRQHandler
    BY <1>3, UsartIrqStep
  <1>4. CASE DMA_IRQHandler
    BY <1>4, DmaIrqStep
  <1>5. CASE Manage
    BY <1>5, ManageSwapStep, ManageCallStep, CallbackStep, ManageFinishStep DEF Manage
  <1>6. CASE UNCHANGED vars
    BY <1>6, Zenon DEF vars, Kept, TypeOK, DmaStaysInBuffer, Handshake, Bookkeeping, Running,
                       InDmaBuff
  <1>7. QED
    BY <1>1, <1>2, <1>3, <1>4, <1>5, <1>6 DEF Next

\* The argument of the callback is what the main loop has last read, until a handler
\* that gets the DMA buffer full sets FULL.
LEMMA ArgumentStep ==
  ASSUME IInv, [Next]_vars
  PROVE  Argument'
  <1>1. /\ Kept /\ Argument /\ ComOK(com) /\ com \in ComType /\ com.buff # com.DMA_buff
        /\ InDmaBuff \in 0 .. USART_RECEIVE_MAX
    <2>1. Kept /\ Argument /\ ComOK(com) /\ InDmaBuff \in com.DMA_Receive_Count .. USART_RECEIVE_MAX
      BY KeptRecords DEF IInv
    <2>2. QED
      BY <2>1, SMT DEF ComOK, ComType
  <1>2. CASE \/ \E noisy \in BOOLEAN : ByteArrives(noisy)
             \/ LineIdle \/ Callback \/ UNCHANGED vars
    <2>1. UNCHANGED <<com, arg>> /\ (pc' \in {"call", "return"} => pc \in {"call", "return"})
      BY <1>2 DEF ByteArrives, LineIdle, Callback, vars
    <2>2. QED
      BY <1>1, <2>1 DEF Argument
  <1>3. CASE USART_IRQHandler
    <2> DEFINE counted == [com EXCEPT !.DMA_Receive_Count = U16(InDmaBuff)]
    <2>1. UNCHANGED <<pc, arg>>
          /\ \/ com' = com
             \/ PROCESSED \in com.USART_State /\ com' = HandOver(counted)
             \/ com' = Hold(counted)
      BY <1>3 DEF USART_IRQHandler
    <2>2. /\ counted \in ComType /\ counted.buff # counted.DMA_buff
          /\ counted.buff = com.buff /\ counted.receive_count = com.receive_count
          /\ counted.USART_State = com.USART_State
      <3>1. U16(InDmaBuff) = InDmaBuff
        BY <1>1, NoWrap
      <3>2. counted \in ComType
        BY <1>1, <3>1, SetDMACount, Zenon
      <3>3. QED
        BY <1>1, <3>2, SMT DEF ComType
    <2> HIDE DEF counted
    <2>3. CASE PROCESSED \in com.USART_State /\ com' = HandOver(counted)
      <3>1. PROCESSING \notin com.USART_State
        BY <1>1, <2>3 DEF Kept, Handshake
      <3>2. PROCESSING \notin com'.USART_State
        BY <2>2, <2>3, <3>1, HandOverLemma
      <3>3. QED
        BY <1>1, <2>1, <3>2 DEF Argument
    <2>4. CASE com' = Hold(counted)
      <3>1. com'.buff = com.buff /\ com'.receive_count = com.receive_count
            /\ com'.USART_State = com.USART_State \cup {PENDING}
        BY <2>2, <2>4, HoldLemma
      <3>2. \A x \in {PROCESSING, FULL} : x \in com'.USART_State <=> x \in com.USART_State
        BY <3>1, SMT DEF PROCESSING, FULL, PENDING
      <3>3. QED
        BY <1>1, <2>1, <3>1, <3>2 DEF Argument
    <2>5. QED
      BY <1>1, <2>1, <2>3, <2>4 DEF Argument
  <1>4. CASE DMA_IRQHandler
    <2>1. UNCHANGED <<pc, arg>> /\ (com' = com \/ com' = TakeFull(com))
      BY <1>4 DEF DMA_IRQHandler
    <2>2. CASE com' = TakeFull(com)
      <3>1. com'.USART_State = (IF PROCESSING \in com.USART_State
                                THEN com.USART_State \cup {FULL} ELSE com.USART_State)
                                 \ {PROCESSED}
        BY <1>1, <2>2, TakeFullLemma
      <3>2. PROCESSING \in com'.USART_State => FULL \in com'.USART_State
        BY <3>1, SMT DEF PROCESSING, FULL, PROCESSED
      <3>3. QED
        BY <1>1, <2>1, <3>2 DEF Argument
    <2>3. QED
      BY <1>1, <2>1, <2>2 DEF Argument
  <1>5. CASE ManageSwap \/ ManageFinish
    <2>1. pc' \in {"test", "poll"}
      BY <1>5 DEF ManageSwap, ManageFinish
    <2>2. PROCESSING \notin com'.USART_State
      <3>1. Kept'
        BY <1>1, <1>5, ManageSwapStep, ManageFinishStep
      <3>2. QED
        BY <2>1, <3>1 DEF Kept, Handshake
    <2>3. QED
      BY <2>1, <2>2 DEF Argument
  <1>6. CASE ManageCall
    <2>1. CASE com.receive_count # 0
      <3>1. com' = [com EXCEPT !.USART_State = com.USART_State \cup {PROCESSING}]
            /\ arg' = [buf |-> com.buff, len |-> com.receive_count]
        BY <1>6, <2>1 DEF ManageCall
      <3>2. com'.buff = com.buff /\ com'.receive_count = com.receive_count
        BY <1>1, <3>1, SMT DEF ComType
      <3>3. QED
        BY <2>1, <3>1, <3>2 DEF Argument
    <2>2. CASE com.receive_count = 0
      <3>1. UNCHANGED <<com, arg>> /\ pc = "test" /\ pc' = "poll"
        BY <1>6, <2>2 DEF ManageCall
      <3>2. QED
        BY <1>1, <3>1 DEF Argument
    <2>3. QED
      BY <2>1, <2>2
  <1>7. QED
    BY <1>2, <1>3, <1>4, <1>5, <1>6 DEF Next, Manage

\* Every step keeps the invariant.
LEMMA NextStep ==
  ASSUME IInv, [Next]_vars
  PROVE  IInv'
  BY KeptStep, ArgumentStep DEF IInv

\* The hazards that do not depend on the bytes themselves are excluded for every
\* buffer size, interrupt order and latency: IInv holds in every reachable state
\* of the handlers and receive_str_manage.
THEOREM InvariantHolds == Spec => []IInv
  <1>1. Init => IInv
    BY InitStep
  <1>2. IInv /\ [Next]_vars => IInv'
    BY NextStep
  <1>3. QED
    BY <1>1, <1>2, PTL DEF Spec

\* No counter of STUsart leaves the range of a buffer, so buff_shift never wraps.
THEOREM TypeCorrect == Spec => []TypeOK
  BY InvariantHolds, PTL DEF IInv, Kept

\* A running stream writes behind the counted bytes of DMA_buff, never past its end.
THEOREM DmaInBounds == Spec => []DmaStaysInBuffer
  BY InvariantHolds, PTL DEF IInv, Kept

\* The flags of USART_State tell the truth about both buffers.
THEOREM HandshakeHolds == Spec => []Handshake
  BY InvariantHolds, PTL DEF IInv, Kept

\* The bytes given to the callback stay as they are until the DMA buffer has got
\* full: no restart of the reception lets the stream write into buff.
THEOREM CallbackDataKept == Spec => CallbackDataStable
  <1>1. IInv /\ [Next]_vars =>
          [(pc = "call" /\ FULL \notin com'.USART_State) =>
             \A i \in 0 .. arg.len - 1 : mem'[arg.buf][i] = mem[arg.buf][i]]_vars
    <2> SUFFICES ASSUME IInv, Next, pc = "call", FULL \notin com'.USART_State,
                        NEW i \in 0 .. arg.len - 1
                 PROVE  mem'[arg.buf][i] = mem[arg.buf][i]
      OBVIOUS
    <2>1. CASE mem' = mem
      BY <2>1
    <2>2. CASE mem' # mem
      <3>1. PICK noisy \in BOOLEAN : ByteArrives(noisy)
        BY <2>2 DEF Next, LineIdle, USART_IRQHandler, DMA_IRQHandler, Manage, ManageSwap,
                    ManageCall, Callback, ManageFinish
      <3>2. /\ Streaming(huart) /\ com' = com
            /\ mem' = [mem EXCEPT ![huart.M0AR][huart.at] = received + 1]
        BY <2>2, <3>1 DEF ByteArrives
      <3>3. arg.buf = com.buff
        <4>1. PROCESSING \in com.USART_State /\ FULL \notin com.USART_State
          BY <3>2, Zenon DEF IInv, Kept, Handshake
        <4>2. QED
          BY <4>1 DEF IInv, Argument
      <3>4. huart.M0AR # com.buff
        BY <3>2 DEF IInv, Kept, DmaStaysInBuffer, Streaming
      <3>5. mem'[com.buff] = mem[com.buff]
        BY <3>2, <3>4, SMT DEF IInv, Kept, TypeOK, ComType
      <3>6. QED
        BY <3>3, <3>5
    <2>3. QED
      BY <2>1, <2>2
  <1>2. QED
    BY <1>1, InvariantHolds, PTL DEF Spec, CallbackDataStable

-----------------------------------------------------------------------------
(* When line errors are handled before the next byte (Latency # 2), the     *)
(* receive path keeps the byte stream intact and implements RxStream.       *)

\* What does not depend on the argument of the callback.
StreamKept == Kept /\ RestartsSucceed /\ StreamIntact

\* The bytes in either buffer are a number.
LEMMA Counts ==
  ASSUME Kept
  PROVE  /\ InDmaBuff \in 0 .. USART_RECEIVE_MAX /\ InUserBuff \in 0 .. USART_RECEIVE_MAX
         /\ com.receive_count \in 0 .. USART_RECEIVE_MAX
         /\ Len(delivered) \in Nat /\ received \in Nat
  <1>1. /\ ComOK(com) /\ InDmaBuff \in com.DMA_Receive_Count .. USART_RECEIVE_MAX
        /\ USART_RECEIVE_MAX \in 1 .. 255
    BY KeptRecords, MaxAssumption
  <1>2. com.receive_count \in 0 .. USART_RECEIVE_MAX
        /\ com.DMA_Receive_Count \in 0 .. USART_RECEIVE_MAX
    BY <1>1, SMT DEF ComOK, ComType
  <1>3. InUserBuff \in 0 .. USART_RECEIVE_MAX
    BY <1>1, <1>2, SMT DEF InUserBuff
  <1>4. InDmaBuff \in 0 .. USART_RECEIVE_MAX
    BY <1>1, <1>2, SMT
  <1>5. delivered \in Seq(Nat) /\ received \in Nat
    BY DEF Kept, TypeOK
  <1>6. Len(delivered) \in Nat
    BY <1>5, LenProperties
  <1>7. QED
    BY <1>2, <1>3, <1>4, <1>5, <1>6

\* A step that moves no byte leaves the stream as it was.
LEMMA BytesStay ==
  ASSUME StreamIntact, UNCHANGED <<mem, received, delivered>>, ~lost' => ~lost,
         com'.buff = com.buff, com'.DMA_buff = com.DMA_buff,
         InUserBuff' = InUserBuff, InDmaBuff' = InDmaBuff
  PROVE  StreamIntact'
  BY Zenon DEF StreamIntact

\* An exchange of the buffers puts the bytes of DMA_buff in the place of those
\* of buff, which must have been read.
LEMMA BytesHandedOver ==
  ASSUME Kept, StreamIntact, UNCHANGED <<mem, received, delivered>>,
         ~lost' => ~lost /\ InUserBuff = 0,
         com'.buff = com.DMA_buff,
         InUserBuff' = InDmaBuff, InDmaBuff' = 0
  PROVE  StreamIntact'
  <1>1. CASE lost'
    BY <1>1, Zenon DEF StreamIntact
  <1>2. CASE ~lost'
    <2>1. /\ InDmaBuff \in Nat /\ Len(delivered) \in Nat
      BY Counts, MaxAssumption, SMT
    <2>2. /\ received = Len(delivered) + InDmaBuff
          /\ \A i \in 1 .. Len(delivered) : delivered[i] = i
          /\ \A i \in 0 .. InDmaBuff - 1 : mem[com.DMA_buff][i] = Len(delivered) + 1 + i
      BY <1>2, <2>1, SMT DEF StreamIntact
    <2>3. received' = Len(delivered') + InUserBuff' + InDmaBuff'
      BY <2>1, <2>2, SMT
    <2>4. \A i \in 0 .. InDmaBuff' - 1 : FALSE
      BY SMT
    <2>5. QED
      BY <2>2, <2>3, <2>4, Zenon DEF StreamIntact
  <1>3. QED
    BY <1>1, <1>2

-----------------------------------------------------------------------------
(* One lemma for each action. *)

\* com_init starts with nothing received.
LEMMA InitStream == Init => StreamInv
  <1> SUFFICES ASSUME Init PROVE StreamInv
    OBVIOUS
  <1>1. IInv
    BY InitStep
  <1>2. RestartsSucceed
    BY SMT DEF Init, RestartsSucceed, ErrorPending
  <1>3. StreamIntact
    <2>1. /\ received = 0 /\ Len(delivered) = 0 /\ InUserBuff = 0 /\ InDmaBuff = 0
      BY MaxAssumption, SMT DEF Init, InUserBuff, InDmaBuff
    <2>2. QED
      BY <2>1, SMT DEF StreamIntact
  <1>4. QED
    BY <1>1, <1>2, <1>3 DEF StreamInv

\* A stored byte becomes the last unread one; any other byte counts as lost.
LEMMA ByteArrivesStream ==
  ASSUME Latency # 2, StreamKept, NEW noisy \in BOOLEAN, ByteArrives(noisy)
  PROVE  RestartsSucceed' /\ StreamIntact'
  <1>1. /\ Kept /\ StreamIntact /\ RestartsSucceed
        /\ HandleOK(huart) /\ ComOK(com) /\ huart \in HandleType
    BY KeptRecords DEF StreamKept, HandleOK
  <1>2. /\ huart'.RxState = huart.RxState /\ huart'.DMAState = huart.DMAState
        /\ huart'.IDLE = huart.IDLE
        /\ huart'.ERR = (huart.ERR \/ noisy)
    <2>1. CASE Streaming(huart)
      <3>1. huart' = [huart EXCEPT !.at = @ + 1, !.NDTR = @ - 1, !.ERR = huart.ERR \/ noisy]
        BY <2>1 DEF ByteArrives
      <3>2. QED
        BY <1>1, <3>1, SMT DEF HandleType
    <2>2. CASE ~Streaming(huart)
      <3>1. huart' = [huart EXCEPT !.ERR = huart.ERR \/ noisy]
        BY <2>2 DEF ByteArrives
      <3>2. QED
        BY <1>1, <3>1, SMT DEF HandleType
    <2>3. QED
      BY <2>1, <2>2
  <1>3. UNCHANGED <<com, pc, arg, delivered>> /\ received' = received + 1
    BY DEF ByteArrives
  <1>4. RestartsSucceed'
    <2>1. huart.IDLE => ~noisy /\ ~ErrorPending(huart) /\ huart.DMAState # "ABORT"
      <3>1. Latency \in {0, 1}
        BY IrqAssumption, SMT
      <3>2. QED
        BY <3>1, <1>1 DEF ByteArrives, InTime, NoIrq, UsartPending, RestartsSucceed
    <2>2. huart'.IDLE => ~ErrorPending(huart') /\ huart'.DMAState # "ABORT"
      BY <1>2, <2>1 DEF ErrorPending
    <2>3. ~lost' => ~lost
      BY DEF ByteArrives
    <2>4. QED
      BY <1>1, <1>2, <1>3, <2>2, <2>3 DEF RestartsSucceed
  <1>5. CASE ~Streaming(huart)
    <2>1. lost'
      BY <1>5 DEF ByteArrives
    <2>2. QED
      BY <1>4, <2>1, Zenon DEF StreamIntact
  <1>6. CASE Streaming(huart) /\ lost
    <2>1. lost'
      BY <1>6 DEF ByteArrives
    <2>2. QED
      BY <1>4, <2>1, Zenon DEF StreamIntact
  <1>7. CASE Streaming(huart) /\ ~lost
    <2> DEFINE D == com.DMA_buff
               k == InDmaBuff
    <2>1. /\ huart' = [huart EXCEPT !.at = @ + 1, !.NDTR = @ - 1, !.ERR = @ \/ noisy]
          /\ mem' = [mem EXCEPT ![huart.M0AR][huart.at] = received + 1]
      BY <1>7 DEF ByteArrives
    <2>2. huart.M0AR = D /\ huart.at = k /\ com.buff # D /\ D \in Buffers /\ com.buff \in Buffers
          /\ k \in Index
      BY <1>1, <1>7, MaxAssumption, SMT
         DEF Kept, DmaStaysInBuffer, Streaming, Running, ComOK, ComType, HandleType, Index
    <2>3. /\ InUserBuff' = InUserBuff /\ InDmaBuff' = k + 1
      <3>1. huart'.NDTR = huart.NDTR - 1 /\ huart.NDTR \in 0 .. USART_RECEIVE_MAX
        BY <1>1, <2>1, SMT DEF HandleType
      <3>2. InDmaBuff' = k + 1
        BY <1>1, <1>3, <3>1, MaxAssumption, SMT DEF InDmaBuff, ComOK, ComType
      <3>3. QED
        BY <1>3, <3>2 DEF InUserBuff
    <2>4. /\ mem'[com.buff] = mem[com.buff]
          /\ mem'[D][k] = received + 1
          /\ \A i \in Index \ {k} : mem'[D][i] = mem[D][i]
      BY <1>1, <2>1, <2>2, SMT DEF Kept, TypeOK
    <2>5. /\ received = Len(delivered) + InUserBuff + k
          /\ \A i \in 1 .. Len(delivered) : delivered[i] = i
          /\ \A i \in 0 .. InUserBuff - 1 : mem[com.buff][i] = Len(delivered) + 1 + i
          /\ \A i \in 0 .. k - 1 : mem[D][i] = Len(delivered) + InUserBuff + 1 + i
      BY <1>1, <1>7 DEF StreamIntact
    <2>6. /\ k \in 0 .. USART_RECEIVE_MAX /\ InUserBuff \in 0 .. USART_RECEIVE_MAX
          /\ Len(delivered) \in Nat
      BY <1>1, Counts
    <2> HIDE DEF D, k
    <2>7. \A i \in 0 .. (k + 1) - 1 : mem'[D][i] = Len(delivered) + InUserBuff + 1 + i
      <3> SUFFICES ASSUME NEW i \in 0 .. (k + 1) - 1
                   PROVE  mem'[D][i] = Len(delivered) + InUserBuff + 1 + i
        OBVIOUS
      <3>1. CASE i = k
        BY <2>4, <2>5, <2>6, <3>1, SMT
      <3>2. CASE i # k
        <4>1. i \in 0 .. k - 1 /\ i \in Index \ {k}
          BY <2>2, <2>6, <3>2, MaxAssumption, SMT DEF Index
        <4>2. QED
          BY <2>4, <2>5, <4>1, Zenon
      <3>3. QED
        BY <3>1, <3>2
    <2>8. received' = Len(delivered) + InUserBuff + (k + 1)
      BY <1>3, <2>5, <2>6, SMT
    <2>9. QED
      BY <1>3, <1>4, <2>3, <2>4, <2>5, <2>7, <2>8, Zenon DEF StreamIntact, D
  <1>8. QED
    BY <1>4, <1>5, <1>6, <1>7

\* The idle flag comes only after errors have been served.
LEMMA LineIdleStream ==
  ASSUME Latency # 2, StreamKept, LineIdle
  PROVE  RestartsSucceed' /\ StreamIntact'
  <1>1. Kept /\ StreamIntact /\ RestartsSucceed /\ HandleOK(huart) /\ huart \in HandleType
    BY KeptRecords DEF StreamKept, HandleOK
  <1>2. /\ huart'.RxState = huart.RxState /\ huart'.DMAState = huart.DMAState
        /\ huart'.ERR = huart.ERR /\ huart'.NDTR = huart.NDTR
    BY <1>1, SMT DEF LineIdle, HandleType
  <1>3. ~ErrorPending(huart) /\ huart.DMAState # "ABORT"
    <2>1. Latency \in {0, 1}
      BY IrqAssumption, SMT
    <2>2. QED
      BY <2>1 DEF LineIdle, InTime, NoIrq, UsartPending, DmaPending
  <1>4. UNCHANGED <<com, mem, pc, arg, received, delivered, lost>>
    BY DEF LineIdle
  <1>5. RestartsSucceed'
    BY <1>1, <1>2, <1>3, <1>4 DEF RestartsSucceed, ErrorPending
  <1>6. StreamIntact'
    BY <1>1, <1>2, <1>4, BytesStay DEF InUserBuff, InDmaBuff
  <1>7. QED
    BY <1>5, <1>6

\* The IDLE handler moves bytes from DMA_buff to buff only when buff has been read.
LEMMA UsartIrqStream ==
  ASSUME StreamKept, USART_IRQHandler
  PROVE  RestartsSucceed' /\ StreamIntact'
  <1> DEFINE h       == HAL_UART_IRQHandler(huart)
             cleared == [h EXCEPT !.IDLE = FALSE, !.ERR = FALSE]
             stopped == HAL_UART_DMAStop(cleared)
             counted == [com EXCEPT !.DMA_Receive_Count = U16(InDmaBuff)]
  <1>1. /\ Kept /\ StreamIntact /\ RestartsSucceed /\ HandleOK(huart)
        /\ com \in ComType /\ com.buff # com.DMA_buff
        /\ com.DMA_Receive_Count + com.DMA_Receive_Size = USART_RECEIVE_MAX
        /\ InDmaBuff \in 0 .. USART_RECEIVE_MAX /\ U16(InDmaBuff) = InDmaBuff
    BY KeptRecords, Counts, NoWrap DEF StreamKept, ComOK
  <1>2. UNCHANGED <<line, mem, pc, arg, received, delivered, lost>>
    BY DEF USART_IRQHandler
  <1>3. CASE ~huart.IDLE
    <2>1. ErrorPending(huart) /\ huart' = h /\ com' = com
      BY <1>3 DEF USART_IRQHandler, UsartPending
    <2>2. huart'.RxState = "READY" /\ huart'.NDTR = huart.NDTR /\ ~huart'.IDLE
      BY <1>1, <1>3, <2>1, ErrorLemma
    <2>3. RestartsSucceed'
      BY <1>1, <1>2, <2>1, <2>2 DEF RestartsSucceed
    <2>4. InUserBuff' = InUserBuff /\ InDmaBuff' = InDmaBuff
      BY <1>2, <2>1, <2>2 DEF InUserBuff, InDmaBuff
    <2>5. QED
      BY <1>1, <1>2, <2>1, <2>3, <2>4, BytesStay
  <1>4. CASE huart.IDLE
    <2>1. ~ErrorPending(huart) /\ huart.DMAState # "ABORT" /\ h = huart
      BY <1>1, <1>4, ErrorLemma DEF RestartsSucceed
    <2>2. /\ HandleOK(cleared) /\ cleared.NDTR = huart.NDTR /\ ~cleared.IDLE
          /\ cleared.DMAState # "ABORT"
      <3>1. [[huart EXCEPT !.IDLE = FALSE] EXCEPT !.ERR = FALSE] \in HandleType
        BY <1>1, SetIDLE, SetERR, Zenon DEF HandleOK
      <3>2. LET c == [huart EXCEPT !.IDLE = FALSE, !.ERR = FALSE]
            IN  /\ c.NDTR = huart.NDTR /\ c.DMAState = huart.DMAState
                /\ c.RxState = huart.RxState /\ c.IDLE = FALSE
        BY <1>1, SMT DEF HandleOK, HandleType
      <3>3. QED
        BY <1>1, <2>1, <3>1, <3>2, Zenon DEF HandleOK
    <2>3. /\ HandleOK(stopped) /\ stopped.RxState = "READY" /\ stopped.DMAState = "READY"
          /\ stopped.NDTR = huart.NDTR /\ ~stopped.IDLE
      BY <2>2, StopLemma
    <2>4. /\ counted \in ComType /\ counted.DMA_Receive_Count = InDmaBuff
          /\ counted.buff = com.buff /\ counted.DMA_buff = com.DMA_buff
          /\ counted.buff # counted.DMA_buff
          /\ counted.receive_count = com.receive_count
          /\ counted.USART_State = com.USART_State
      <3>1. counted \in ComType
        BY <1>1, SetDMACount, Zenon
      <3>2. QED
        BY <1>1, <3>1, SMT DEF ComType
    <2>5. \/ /\ PROCESSED \in com.USART_State
             /\ com' = HandOver(counted)
             /\ huart' = HAL_UART_Receive_DMA(stopped, com'.DMA_buff, 0, com'.DMA_Receive_Size)
          \/ /\ PROCESSED \notin com.USART_State
             /\ com' = Hold(counted)
             /\ huart' = HAL_UART_Receive_DMA(stopped, com'.DMA_buff,
                                              U8(com'.DMA_Receive_Count),
                                              com'.DMA_Receive_Size)
      BY <1>4 DEF USART_IRQHandler
    <2> HIDE DEF h, cleared, stopped, counted
    <2>6. CASE /\ PROCESSED \in com.USART_State
               /\ com' = HandOver(counted)
               /\ huart' = HAL_UART_Receive_DMA(stopped, com'.DMA_buff, 0, com'.DMA_Receive_Size)
      <3>1. /\ com'.DMA_buff \in Buffers /\ com'.buff = com.DMA_buff
            /\ com'.receive_count = InDmaBuff
            /\ com'.DMA_Receive_Size = USART_RECEIVE_MAX /\ com'.DMA_Receive_Count = 0
        BY <2>4, <2>6, HandOverLemma DEF ComOK, ComType
      <3>2. /\ 0 \in 0 .. USART_RECEIVE_MAX /\ USART_RECEIVE_MAX \in 0 .. USART_RECEIVE_MAX
            /\ USART_RECEIVE_MAX # 0
        BY MaxAssumption, SMT
      <3>3. /\ huart'.RxState = "BUSY_RX" /\ huart'.DMAState = "BUSY" /\ ~huart'.IDLE
            /\ huart'.NDTR = USART_RECEIVE_MAX
        BY <2>3, <2>6, <3>1, <3>2, ReceiveLemma
      <3>4. com.receive_count = 0 /\ pc \notin {"call", "return"}
        BY <1>1, <2>6, Zenon DEF Kept, Handshake
      <3>5. InUserBuff = 0 /\ InUserBuff' = InDmaBuff /\ InDmaBuff' = 0
        BY <1>2, <3>1, <3>3, <3>4, MaxAssumption, SMT DEF InUserBuff, InDmaBuff
      <3>6. RestartsSucceed'
        BY <1>2, <3>3, <3>4 DEF RestartsSucceed
      <3>7. QED
        BY <1>1, <1>2, <3>1, <3>5, <3>6, BytesHandedOver
    <2>7. CASE /\ PROCESSED \notin com.USART_State
               /\ com' = Hold(counted)
               /\ huart' = HAL_UART_Receive_DMA(stopped, com'.DMA_buff,
                                                U8(com'.DMA_Receive_Count),
                                                com'.DMA_Receive_Size)
      <3>1. /\ com'.DMA_buff \in Buffers /\ com'.buff = com.buff /\ com'.DMA_buff = com.DMA_buff
            /\ com'.receive_count = com.receive_count
            /\ com'.DMA_Receive_Count = InDmaBuff
            /\ com'.DMA_Receive_Size \in 0 .. USART_RECEIVE_MAX
            /\ com'.DMA_Receive_Count + com'.DMA_Receive_Size = USART_RECEIVE_MAX
            /\ com'.USART_State = com.USART_State \cup {PENDING}
        BY <2>4, <2>7, HoldLemma DEF ComOK, ComType
      <3>2. /\ U8(com'.DMA_Receive_Count) = InDmaBuff
        BY <1>1, <3>1, NoWrap
      <3>3. /\ ~huart'.IDLE
            /\ \/ /\ huart'.DMAState = "BUSY"
                  /\ huart'.NDTR = com'.DMA_Receive_Size
               \/ /\ huart'.RxState = "READY" /\ com'.DMA_Receive_Size = 0
                  /\ huart'.NDTR = huart.NDTR
        BY <1>1, <2>3, <2>7, <3>1, <3>2, ReceiveLemma
      <3>4. huart'.NDTR = com'.DMA_Receive_Size
        BY <1>1, <3>1, <3>3, MaxAssumption, SMT DEF InDmaBuff, ComType, HandleOK, HandleType
      <3>5. FULL \in com'.USART_State <=> FULL \in com.USART_State
        BY <3>1, SMT DEF FULL, PENDING
      <3>6. InUserBuff' = InUserBuff
        BY <1>2, <3>1, <3>5, Zenon DEF InUserBuff
      <3>7. InDmaBuff' = InDmaBuff
        BY <1>1, <3>1, <3>4, MaxAssumption, SMT DEF InDmaBuff
      <3>8. RestartsSucceed'
        BY <1>1, <1>2, <3>3, <3>5, Zenon DEF RestartsSucceed
      <3>9. QED
        BY <1>1, <1>2, <3>1, <3>6, <3>7, <3>8, BytesStay
    <2>8. QED
      BY <2>5, <2>6, <2>7
  <1>5. QED
    BY <1>3, <1>4

\* The forced exchange keeps the order of the bytes, or counts as a loss.
LEMMA DmaIrqStream ==
  ASSUME StreamKept, DMA_IRQHandler
  PROVE  RestartsSucceed' /\ StreamIntact'
  <1> DEFINE h == HAL_DMA_IRQHandler(huart)
  <1>1. /\ Kept /\ StreamIntact /\ RestartsSucceed /\ HandleOK(huart) /\ ComOK(com)
        /\ huart.RxState \in RxStates
    BY KeptRecords DEF StreamKept, HandleOK, HandleType
  <1>2. /\ HandleOK(h) /\ h.DMAState = "READY" /\ h.NDTR = huart.NDTR /\ h.IDLE = huart.IDLE
        /\ h.RxState = IF huart.DMAState = "ABORT" THEN huart.RxState ELSE "READY"
    BY <1>1, DmaIrqLemma
  <1>3. UNCHANGED <<line, mem, pc, arg, received, delivered>>
    BY DEF DMA_IRQHandler
  <1> HIDE DEF h
  <1>4. CASE huart.DMAState = "ABORT" /\ huart' = h /\ com' = com /\ lost' = lost
    <2>1. huart'.RxState = "READY"
      BY <1>1, <1>2, <1>4 DEF RestartsSucceed, RxStates
    <2>2. RestartsSucceed'
      BY <1>1, <1>2, <1>3, <1>4, <2>1 DEF RestartsSucceed, ErrorPending
    <2>3. InUserBuff' = InUserBuff /\ InDmaBuff' = InDmaBuff
      BY <1>2, <1>3, <1>4 DEF InUserBuff, InDmaBuff
    <2>4. QED
      BY <1>1, <1>3, <1>4, <2>2, <2>3, BytesStay
  <1>5. CASE /\ huart.DMAState # "ABORT"
             /\ com' = TakeFull(com)
             /\ huart' = HAL_UART_Receive_DMA(h, com'.DMA_buff, 0, com'.DMA_Receive_Size)
             /\ lost' = (lost \/ InUserBuff # 0)
    <2>1. /\ com'.DMA_buff \in Buffers /\ com'.buff = com.DMA_buff
          /\ com'.receive_count = USART_RECEIVE_MAX
          /\ com'.DMA_Receive_Size = USART_RECEIVE_MAX /\ com'.DMA_Receive_Count = 0
          /\ com'.USART_State = (IF PROCESSING \in com.USART_State
                                 THEN com.USART_State \cup {FULL} ELSE com.USART_State)
                                  \ {PROCESSED}
      BY <1>1, <1>5, TakeFullLemma DEF ComOK, ComType
    <2>2. /\ 0 \in 0 .. USART_RECEIVE_MAX /\ USART_RECEIVE_MAX \in 0 .. USART_RECEIVE_MAX
          /\ USART_RECEIVE_MAX \in 1 .. 255 /\ USART_RECEIVE_MAX # 0
      BY MaxAssumption, SMT
    <2>3. /\ huart'.RxState = "BUSY_RX" /\ huart'.DMAState = "BUSY" /\ ~huart'.ERR
          /\ huart'.NDTR = USART_RECEIVE_MAX
      BY <1>2, <1>5, <2>1, <2>2, ReceiveLemma
    <2>4. InDmaBuff = USART_RECEIVE_MAX
      <3>1. huart.NDTR = 0
        BY <1>5 DEF DMA_IRQHandler, DmaPending
      <3>2. QED
        BY <1>1, <2>2, <3>1, SMT DEF InDmaBuff, ComOK, ComType
    <2>5. ~lost' => ~lost /\ InUserBuff = 0
      BY <1>5
    <2>6. pc = "call" => InUserBuff # 0
      BY <1>1, Zenon DEF Kept, Handshake, InUserBuff
    <2>7. pc = "return" => FULL \in com'.USART_State
      <3>1. pc = "return" => PROCESSING \in com.USART_State
        BY <1>1, Zenon DEF Kept, Handshake
      <3>2. QED
        BY <2>1, <3>1, SMT DEF PROCESSING, FULL, PROCESSED
    <2>8. InUserBuff' = InDmaBuff
      BY <1>3, <2>1, <2>4, <2>7, Zenon DEF InUserBuff
    <2>9. InDmaBuff' = 0
      BY <2>1, <2>2, <2>3, SMT DEF InDmaBuff
    <2>10. RestartsSucceed'
      <3>1. ~(~lost' /\ pc' = "call")
        BY <1>3, <2>5, <2>6
      <3>2. QED
        BY <2>3, <3>1, Zenon DEF RestartsSucceed, ErrorPending
    <2>11. QED
      BY <1>1, <1>3, <2>1, <2>5, <2>8, <2>9, <2>10, BytesHandedOver
  <1>6. QED
    BY <1>4, <1>5 DEF DMA_IRQHandler, h

\* The exchange in receive_str_manage leaves no byte behind in DMA_buff.
LEMMA ManageSwapStream ==
  ASSUME StreamKept, ManageSwap
  PROVE  RestartsSucceed' /\ StreamIntact'
  <1>1. /\ Kept /\ StreamIntact /\ RestartsSucceed /\ HandleOK(huart) /\ ComOK(com)
        /\ com \in ComType /\ com.buff # com.DMA_buff
    BY KeptRecords DEF StreamKept, ComOK
  <1>2. /\ UNCHANGED <<line, mem, arg, received, delivered, lost>> /\ pc = "poll" /\ pc' = "test"
        /\ ~huart.IDLE /\ huart.DMAState # "ABORT"
    BY DEF ManageSwap, NoIrq, UsartPending, DmaPending
  <1>3. CASE com' = com /\ huart' = huart
    <2>1. InUserBuff' = InUserBuff /\ InDmaBuff' = InDmaBuff /\ RestartsSucceed'
      BY <1>1, <1>2, <1>3 DEF InUserBuff, InDmaBuff, RestartsSucceed
    <2>2. QED
      BY <1>1, <1>2, <1>3, <2>1, BytesStay
  <1>4. CASE /\ {PROCESSED, PENDING} \subseteq com.USART_State
             /\ com.DMA_Receive_Size = huart.NDTR
             /\ com' = HandOver(com)
             /\ huart' = HAL_UART_Receive_DMA(HAL_UART_DMAStop(huart), com'.DMA_buff, 0,
                                              com'.DMA_Receive_Size)
    <2>1. /\ com'.DMA_buff \in Buffers /\ com'.buff = com.DMA_buff
          /\ com'.receive_count = com.DMA_Receive_Count
          /\ com'.DMA_Receive_Size = USART_RECEIVE_MAX /\ com'.DMA_Receive_Count = 0
      BY <1>1, <1>4, HandOverLemma DEF ComOK, ComType
    <2>2. /\ 0 \in 0 .. USART_RECEIVE_MAX /\ USART_RECEIVE_MAX \in 0 .. USART_RECEIVE_MAX
          /\ USART_RECEIVE_MAX \in 1 .. 255 /\ USART_RECEIVE_MAX # 0
      BY MaxAssumption, SMT
    <2>3. /\ HandleOK(HAL_UART_DMAStop(huart)) /\ HAL_UART_DMAStop(huart).RxState = "READY"
          /\ HAL_UART_DMAStop(huart).DMAState = "READY"
          /\ ~HAL_UART_DMAStop(huart).IDLE
      BY <1>1, <1>2, StopLemma
    <2>4. /\ huart'.RxState = "BUSY_RX" /\ huart'.DMAState = "BUSY" /\ ~huart'.IDLE
          /\ huart'.NDTR = USART_RECEIVE_MAX
      BY <1>4, <2>1, <2>2, <2>3, ReceiveLemma
    <2>5. com.receive_count = 0
      BY <1>1, <1>4, Zenon DEF Kept, Handshake
    <2>6. /\ InUserBuff = 0 /\ InUserBuff' = com.DMA_Receive_Count
          /\ InDmaBuff = com.DMA_Receive_Count /\ InDmaBuff' = 0
      BY <1>1, <1>2, <1>4, <2>1, <2>2, <2>4, <2>5, SMT DEF InUserBuff, InDmaBuff, ComType
    <2>7. RestartsSucceed'
      BY <1>2, <2>4 DEF RestartsSucceed
    <2>8. QED
      BY <1>1, <1>2, <2>1, <2>6, <2>7, BytesHandedOver
  <1>5. QED
    BY <1>3, <1>4 DEF ManageSwap

\* The test before the callback moves no byte.
LEMMA ManageCallStream ==
  ASSUME StreamKept, ManageCall
  PROVE  RestartsSucceed' /\ StreamIntact'
  <1>1. /\ Kept /\ StreamIntact /\ RestartsSucceed /\ com \in ComType
    BY DEF StreamKept, Kept, TypeOK
  <1>2. /\ UNCHANGED <<huart, mem, received, delivered, lost>>
        /\ pc = "test" /\ pc' \in {"call", "poll"}
    BY DEF ManageCall
  <1>3. /\ com'.buff = com.buff /\ com'.DMA_buff = com.DMA_buff
        /\ com'.receive_count = com.receive_count
        /\ com'.DMA_Receive_Count = com.DMA_Receive_Count
        /\ com'.DMA_Receive_Size = com.DMA_Receive_Size
        /\ com'.USART_State \in {com.USART_State, com.USART_State \cup {PROCESSING}}
    BY <1>1, SMT DEF ManageCall, ComType
  <1>4. FULL \notin com'.USART_State
    <2>1. FULL \notin com.USART_State
      BY <1>1, <1>2, SMT DEF Kept, Handshake
    <2>2. QED
      BY <1>3, <2>1, SMT DEF FULL, PROCESSING
  <1>5. InUserBuff' = InUserBuff
    BY <1>2, <1>3, SMT DEF InUserBuff
  <1>6. InDmaBuff' = InDmaBuff
    BY <1>2, <1>3 DEF InDmaBuff
  <1>7. RestartsSucceed'
    BY <1>1, <1>2, <1>4 DEF RestartsSucceed
  <1>8. QED
    BY <1>1, <1>2, <1>3, <1>5, <1>6, <1>7, BytesStay

\* The flags after the callback make exactly the bytes read disappear.
LEMMA ManageFinishStream ==
  ASSUME StreamKept, ManageFinish
  PROVE  RestartsSucceed' /\ StreamIntact'
  <1>1. /\ Kept /\ StreamIntact /\ RestartsSucceed /\ com \in ComType
    BY DEF StreamKept, Kept, TypeOK
  <1>2. /\ UNCHANGED <<huart, mem, received, delivered, lost>>
        /\ pc = "return" /\ pc' = "poll"
    BY DEF ManageFinish
  <1>3. /\ com'.buff = com.buff /\ com'.DMA_buff = com.DMA_buff
        /\ com'.receive_count = IF FULL \in com.USART_State THEN com.receive_count ELSE 0
        /\ com'.DMA_Receive_Count = com.DMA_Receive_Count
        /\ com'.DMA_Receive_Size = com.DMA_Receive_Size
    BY <1>1, SMT DEF ManageFinish, ComType
  <1>4. InUserBuff' = InUserBuff
    BY <1>2, <1>3, SMT DEF InUserBuff
  <1>5. InDmaBuff' = InDmaBuff
    BY <1>2, <1>3 DEF InDmaBuff
  <1>6. RestartsSucceed'
    BY <1>1, <1>2 DEF RestartsSucceed
  <1>7. QED
    BY <1>1, <1>2, <1>3, <1>4, <1>5, <1>6, BytesStay

\* The callback reads the oldest unread bytes, as many as it was told.
LEMMA CallbackReads ==
  ASSUME StreamInv, Callback
  PROVE  /\ Len(delivered') = Len(delivered) + arg.len
         /\ \A i \in 1 .. Len(delivered) : delivered'[i] = delivered[i]
         /\ arg.len \in 1 .. USART_RECEIVE_MAX
         /\ ~lost => /\ arg.len = InUserBuff /\ InUserBuff' = 0
                     /\ \A i \in Len(delivered) + 1 .. Len(delivered') : delivered'[i] = i
  <1> DEFINE s == [i \in 1 .. arg.len |-> mem[arg.buf][i - 1]]
             d == Len(delivered)
  <1>1. /\ IInv /\ StreamIntact /\ RestartsSucceed /\ delivered \in Seq(Nat) /\ d \in Nat
    BY Counts DEF StreamInv, IInv, Kept, TypeOK
  <1>2. /\ pc = "call" /\ pc' = "return" /\ UNCHANGED <<com, mem, arg>>
        /\ delivered' = delivered \o s
    BY DEF Callback
  <1>3. arg.len \in 1 .. USART_RECEIVE_MAX /\ arg.buf \in Buffers
    <2>1. arg.len # 0
      BY <1>1, <1>2, SMT DEF IInv, Argument
    <2>2. arg \in ArgType
      BY <1>1 DEF IInv, Kept, TypeOK
    <2>3. QED
      BY <2>1, <2>2, MaxAssumption, SMT DEF ArgType
  <1>4. s \in Seq(Nat) /\ Len(s) = arg.len
    <2>1. \A i \in 1 .. arg.len : i - 1 \in Index
      BY <1>3, MaxAssumption, SMT DEF Index
    <2>2. \A i \in 1 .. arg.len : mem[arg.buf][i - 1] \in Nat
      BY <1>1, <1>3, <2>1, Zenon DEF IInv, Kept, TypeOK
    <2>3. arg.len \in Nat
      BY <1>3, MaxAssumption, SMT
    <2>4. \A f, n : n \in Nat /\ (\A i \in 1 .. n : f[i - 1] \in Nat)
                      => /\ [i \in 1 .. n |-> f[i - 1]] \in Seq(Nat)
                         /\ Len([i \in 1 .. n |-> f[i - 1]]) = n
      BY SMT
    <2>5. QED
      BY <2>2, <2>3, <2>4, Zenon
  <1>5. \A i \in 1 .. arg.len : s[i] = mem[arg.buf][i - 1]
    BY Zenon
  <1> HIDE DEF s
  <1>6. /\ Len(delivered') = d + arg.len
        /\ \A i \in 1 .. d + arg.len :
             delivered'[i] = IF i <= d THEN delivered[i] ELSE s[i - d]
    BY <1>1, <1>2, <1>4, ConcatProperties
  <1>7. \A i \in 1 .. d : delivered'[i] = delivered[i]
    BY <1>1, <1>3, <1>6, SMT
  <1>8. ASSUME ~lost
        PROVE  /\ arg.len = InUserBuff /\ InUserBuff' = 0
               /\ \A i \in d + 1 .. d + arg.len : delivered'[i] = i
    <2>1. FULL \notin com.USART_State /\ PROCESSING \in com.USART_State
      BY <1>1, <1>2, <1>8, Zenon DEF RestartsSucceed, IInv, Kept, Handshake
    <2>2. arg = [buf |-> com.buff, len |-> com.receive_count]
      BY <1>1, <2>1 DEF IInv, Argument
    <2>3. arg.len = InUserBuff /\ InUserBuff' = 0
      BY <1>2, <2>1, <2>2, Zenon DEF InUserBuff
    <2>4. \A i \in 0 .. arg.len - 1 : mem[arg.buf][i] = d + 1 + i
      BY <1>1, <1>8, <2>2, <2>3 DEF StreamIntact
    <2>5. ASSUME NEW i \in d + 1 .. d + arg.len
          PROVE  delivered'[i] = i
      <3>1. /\ i - d \in 1 .. arg.len /\ (i - d) - 1 \in 0 .. arg.len - 1
            /\ i \in 1 .. d + arg.len /\ ~(i <= d)
        BY <1>1, <1>3, SMT
      <3>2. delivered'[i] = mem[arg.buf][(i - d) - 1]
        BY <1>5, <1>6, <3>1
      <3>3. mem[arg.buf][(i - d) - 1] = d + 1 + ((i - d) - 1)
        BY <2>4, <3>1, Zenon
      <3>4. d + 1 + ((i - d) - 1) = i
        BY <1>1, SMT
      <3>5. QED
        BY <3>2, <3>3, <3>4
    <2>6. QED
      BY <2>3, <2>5
  <1>9. QED
    BY <1>3, <1>6, <1>7, <1>8

\* The callback turns unread bytes into delivered ones.
LEMMA CallbackStream ==
  ASSUME StreamInv, Callback
  PROVE  RestartsSucceed' /\ StreamIntact'
  <1>1. /\ IInv /\ StreamIntact /\ RestartsSucceed /\ Len(delivered) \in Nat
        /\ InDmaBuff \in 0 .. USART_RECEIVE_MAX /\ InUserBuff \in 0 .. USART_RECEIVE_MAX
    BY Counts DEF StreamInv, IInv
  <1>2. UNCHANGED <<com, huart, mem, received, lost>> /\ pc' = "return"
    BY DEF Callback
  <1>3. RestartsSucceed'
    BY <1>1, <1>2 DEF RestartsSucceed
  <1>4. CASE lost
    BY <1>2, <1>3, <1>4, Zenon DEF StreamIntact
  <1>5. CASE ~lost
    <2>1. /\ Len(delivered') = Len(delivered) + InUserBuff /\ InUserBuff' = 0
          /\ \A i \in 1 .. Len(delivered) : delivered'[i] = delivered[i]
          /\ \A i \in Len(delivered) + 1 .. Len(delivered') : delivered'[i] = i
      BY <1>5, CallbackReads
    <2>2. /\ received = Len(delivered) + InUserBuff + InDmaBuff
          /\ \A i \in 1 .. Len(delivered) : delivered[i] = i
          /\ \A i \in 0 .. InDmaBuff - 1 :
               mem[com.DMA_buff][i] = Len(delivered) + InUserBuff + 1 + i
      BY <1>1, <1>5 DEF StreamIntact
    <2>3. InDmaBuff' = InDmaBuff
      BY <1>2 DEF InDmaBuff
    <2>4. received' = Len(delivered') + InUserBuff' + InDmaBuff'
      BY <1>1, <1>2, <2>1, <2>2, <2>3, SMT
    <2>5. \A i \in 1 .. Len(delivered') : delivered'[i] = i
      BY <1>1, <2>1, <2>2, SMT
    <2>6. \A i \in 0 .. InUserBuff' - 1 : FALSE
      BY <2>1, SMT
    <2>7. \A i \in 0 .. InDmaBuff' - 1 :
            mem'[com'.DMA_buff][i] = Len(delivered') + InUserBuff' + 1 + i
      BY <1>1, <1>2, <2>1, <2>2, <2>3, SMT
    <2>8. QED
      BY <1>3, <2>4, <2>5, <2>6, <2>7, Zenon DEF StreamIntact
  <1>6. QED
    BY <1>4, <1>5

-----------------------------------------------------------------------------
\* Every step keeps the stream invariant.
LEMMA StreamStep ==
  ASSUME Latency # 2, StreamInv, [Next]_vars
  PROVE  StreamInv'
  <1>1. IInv' /\ StreamKept
    BY NextStep DEF StreamInv, StreamKept, IInv
  <1>2. RestartsSucceed' /\ StreamIntact'
    <2>1. CASE \E noisy \in BOOLEAN : ByteArrives(noisy)
      BY <1>1, <2>1, ByteArrivesStream
    <2>2. CASE LineIdle
      BY <1>1, <2>2, LineIdleStream
    <2>3. CASE USART_IRQHandler
      BY <1>1, <2>3, UsartIrqStream
    <2>4. CASE DMA_IRQHandler
      BY <1>1, <2>4, DmaIrqStream
    <2>5. CASE Manage
      BY <1>1, <2>5, ManageSwapStream, ManageCallStream, CallbackStream, ManageFinishStream DEF Manage
    <2>6. CASE UNCHANGED vars
      BY <2>6, Zenon DEF vars, StreamInv, RestartsSucceed, ErrorPending, StreamIntact, InUserBuff,
                         InDmaBuff
    <2>7. QED
      BY <2>1, <2>2, <2>3, <2>4, <2>5, <2>6 DEF Next
  <1>3. QED
    BY <1>1, <1>2 DEF StreamInv

\* No byte is lost, repeated or moved by the exchange of the two buffers.
THEOREM StreamHolds ==
  ASSUME Latency # 2
  PROVE  Spec => []StreamInv
  <1>1. Init => StreamInv
    BY InitStream
  <1>2. StreamInv /\ [Next]_vars => StreamInv'
    BY StreamStep
  <1>3. QED
    BY <1>1, <1>2, PTL DEF Spec

\* While nothing is lost the two buffers hold exactly the unread bytes, in order.
THEOREM BytesIntact ==
  ASSUME Latency # 2
  PROVE  Spec => []StreamIntact
  <1>1. StreamInv => StreamIntact
    BY DEF StreamInv
  <1>2. QED
    BY <1>1, StreamHolds, PTL

\* The receive path implements RxStream: a byte on the line is an Arrive, a forced
\* exchange over unread data a Lose, the callback a Deliver, and every other step
\* of the handlers and of receive_str_manage is invisible.
THEOREM Refinement ==
  ASSUME Latency # 2
  PROVE  Spec => ImplementsStream
  <1>1. Init => Stream!Init
    BY DEF Init, Stream!Init
  <1>2. StreamInv /\ [Next]_vars => [Stream!Next]_(Stream!streamVars)
    <2> SUFFICES ASSUME StreamInv, [Next]_vars
                 PROVE  [Stream!Next]_(Stream!streamVars)
      OBVIOUS
    <2>1. ASSUME NEW noisy \in BOOLEAN, ByteArrives(noisy)
          PROVE  Stream!Next
      BY <2>1 DEF ByteArrives, Stream!Next, Stream!Arrive
    <2>2. CASE LineIdle \/ USART_IRQHandler \/ ManageSwap \/ ManageCall \/ ManageFinish
               \/ UNCHANGED vars
      BY <2>2 DEF LineIdle, USART_IRQHandler, ManageSwap, ManageCall, ManageFinish, vars,
                  Stream!streamVars
    <2>3. CASE DMA_IRQHandler
      <3>1. UNCHANGED <<received, delivered>> /\ lost' \in {lost, TRUE}
        <4>1. lost \in BOOLEAN
          BY DEF StreamInv, IInv, Kept, TypeOK
        <4>2. CASE huart.DMAState = "ABORT"
          BY <2>3, <4>2, Zenon DEF DMA_IRQHandler
        <4>3. CASE huart.DMAState # "ABORT"
          <5>1. lost' = (lost \/ InUserBuff # 0) /\ UNCHANGED <<received, delivered>>
            BY <2>3, <4>3, Zenon DEF DMA_IRQHandler
          <5>2. QED
            BY <4>1, <5>1
        <4>4. QED
          BY <4>2, <4>3
      <3>2. CASE lost' = lost
        BY <3>1, <3>2 DEF Stream!streamVars
      <3>3. CASE lost' = TRUE
        BY <3>1, <3>3 DEF Stream!Next, Stream!Lose
      <3>4. QED
        BY <3>1, <3>2, <3>3
    <2>4. CASE Callback
      <3>1. /\ Len(delivered') = Len(delivered) + arg.len
            /\ \A i \in 1 .. Len(delivered) : delivered'[i] = delivered[i]
            /\ arg.len \in 1 .. USART_RECEIVE_MAX
            /\ ~lost => /\ arg.len = InUserBuff
                        /\ \A i \in Len(delivered) + 1 .. Len(delivered') : delivered'[i] = i
        BY <2>4, CallbackReads
      <3>2. UNCHANGED <<received, lost>>
        BY <2>4 DEF Callback
      <3>3. /\ InDmaBuff \in 0 .. USART_RECEIVE_MAX /\ InUserBuff \in 0 .. USART_RECEIVE_MAX
            /\ Len(delivered) \in Nat /\ received \in Nat
        BY Counts DEF StreamInv, IInv
      <3>4. Len(delivered') \in Len(delivered) + 1 .. Len(delivered) + USART_RECEIVE_MAX
        BY <3>1, <3>3, MaxAssumption, SMT
      <3>5. ~lost => Len(delivered') <= received
        <4>1. ~lost => received = Len(delivered) + InUserBuff + InDmaBuff
          BY DEF StreamInv, StreamIntact
        <4>2. QED
          BY <3>1, <3>3, <4>1, MaxAssumption, SMT
      <3>6. Stream!Deliver
        BY <3>1, <3>2, <3>4, <3>5, Zenon DEF Stream!Deliver
      <3>7. QED
        BY <3>6 DEF Stream!Next
    <2>5. QED
      BY <2>1, <2>2, <2>3, <2>4 DEF Next, Manage
  <1>3. QED
    BY <1>1, <1>2, StreamHolds, PTL DEF Spec, ImplementsStream, Stream!Spec
=============================================================================
