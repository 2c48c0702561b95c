SPECIFICATION StorageSpec
CONSTANTS
  MaxSessions = 3
  MaxFaults = 1
  MaxCrashes = 2
  Absent = Absent
  Tasks = {sink, other}
  Sink = sink
  Paths <- MCPaths
  Files <- MCFiles
INVARIANTS DestinationWhole LeavesNothing OpenedWhereItExists RefusedForAReason
PROPERTIES OnlyRecoveryLoses EndsAsReported
CHECK_DEADLOCK FALSE
