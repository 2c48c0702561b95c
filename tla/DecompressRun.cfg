SPECIFICATION Spec
CONSTANTS
  Capacity = 3
  Cut = Cut
  Earlier = Earlier
  InputSize = 3
  BlockSize = 2
  Wrong = 9
  HeaderChanges <- MCHeaderChanges
  Archives <- MCArchives
INVARIANTS ResultIsMeaning FailedRunPublishesNothing AllocationBounded CancelIsHonoured DamageIsNoticed WrittenIsRead
CHECK_DEADLOCK FALSE
