SPECIFICATION FairSpec
CONSTANTS
  Own <- OwnDS
  Announces <- AnnouncedDS
  Capacity = 2
  MaxMessages = 3
  QueueSize = 2
  SeqIds = {0, 1}
  Second = 5
  HalfRange = 16
  HalfLong = 1048576
INVARIANTS TypeOK TimersMatchState ParentMatchesState RoleMatchesClass
PROPERTIES LoopEnds Settles
