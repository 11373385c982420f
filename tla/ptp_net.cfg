SPECIFICATION FairSpec
CONSTANTS
  PBUF_QUEUE_SIZE = 2
  MaxPackets = 5
  Pool = 4
INVARIANTS TypeOK FirstInFirstOut NoOtherLeak CountIsLow
PROPERTIES PacketsTaken
