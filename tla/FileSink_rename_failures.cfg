SPECIFICATION Spec
CONSTANTS
  MaxSessions = 1
  MaxFaults = 2
  MaxCrashes = 0
  Absent = Absent
PROPERTY RenameFailuresPreserve
CHECK_DEADLOCK FALSE
