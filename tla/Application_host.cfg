SPECIFICATION ApplicationFairSpec
CONSTANTS
  Threads = {t1, f1}
  Frames = {f1}
  MaxJobs = 2
  Configs <- MCConfigs
  DefaultConfig <- MCDefault
  MaxBlockSize = 2
  MaxWindowSize = 2
  RunErrors = {}
  SetupErrors = {}
  Reentrant = {}
  HasFreeRTOS = FALSE
  None = None
INVARIANTS NoUseAfterDestroy
PROPERTIES DeinitInsideRunHangs CallsReturn ReportedAllTheSame DestructorReturns JobsAreFreed
CHECK_DEADLOCK FALSE
