SPECIFICATION ApplicationFairSpec
CONSTANTS
  Threads = {t1}
  Frames = {}
  MaxJobs = 1
  Configs <- MCConfigs
  DefaultConfig <- MCDefault
  MaxBlockSize = 2
  MaxWindowSize = 2
  RunErrors = {}
  SetupErrors = {"NoMemory", "InternalError"}
  Reentrant = {}
  HasFreeRTOS = TRUE
  None = None
PROPERTIES JobsAreFreed
CHECK_DEADLOCK FALSE
