SPECIFICATION FairSpec
CONSTANTS
  USART_RECEIVE_MAX = 6
  MaxBytes = 6
  UsartFirst = TRUE
  Latency = 0
PROPERTIES EventuallyRead
