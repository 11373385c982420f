SPECIFICATION EchoFairSpec
CONSTANTS
  USART_RECEIVE_MAX = 2
  MaxBytes = 5
  UsartFirst = TRUE
  Latency = 0
INVARIANTS ReceptionSound
PROPERTIES EchoIntact TransmitterFree
