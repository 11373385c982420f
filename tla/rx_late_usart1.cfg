SPECIFICATION Spec
CONSTANTS
  USART_RECEIVE_MAX = 3
  MaxBytes = 6
  UsartFirst = TRUE
  Latency = 2
INVARIANTS IInv
