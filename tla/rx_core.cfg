SPECIFICATION FairSpec
CONSTANTS
  USART_RECEIVE_MAX = 3
  MaxBytes = 7
  UsartFirst = FALSE
  Latency = 1
INVARIANTS TypeOK DmaStaysInBuffer Handshake StreamIntact StreamInv
PROPERTIES CallbackDataStable ImplementsStream ReceptionRestarts
