SPECIFICATION FairSpec
CONSTANTS
  Capacity = 14
  Cut = Cut
  Earlier = Earlier
  BlockSize = 2
  MaxInput = 5
  HeaderSize = 3
  BlockHeaderSize = 2
INVARIANTS OkDecodes FailedRunPublishesNothing CancelIsHonoured DoneReportedOnce
PROPERTIES RunEnds
CHECK_DEADLOCK FALSE
