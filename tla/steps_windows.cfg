SPECIFICATION StepsSpec
CONSTANTS
  USART_RECEIVE_MAX = 3
  MaxBytes = 7
  UsartFirst = FALSE
  Latency = 1
  Open = {"70", "97", "callback", "101", "99", "100", "103"}
INVARIANTS IntactAtRest
