SPECIFICATION StepsSpec
CONSTANTS
  USART_RECEIVE_MAX = 2
  MaxBytes = 4
  UsartFirst = FALSE
  Latency = 0
  Open = {"70", "84", "97", "callback", "101"}
INVARIANTS TwoBuffers
