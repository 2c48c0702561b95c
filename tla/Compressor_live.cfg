SPECIFICATION FairSpec
CONSTANTS
  Threads = {t1, t2}
  MaxJobs = 1
  Configs <- MCConfigs
  DefaultConfig <- MCDefault
  MaxBlockSize = 2
  MaxWindowSize = 2
  RunErrors = {"ReadFailed", "NoMemory"}
  SetupErrors = {"NoMemory"}
  Reentrant = {1}
  None = None
PROPERTIES JobsComplete DeinitReturns ImplementsJobSlot
