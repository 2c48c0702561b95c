SPECIFICATION Spec
CONSTANTS
  TokenBase = 2
  Stale = Stale
  Inputs <- MCInputs
  Windows <- MCWindows
  Slots <- MCSlots
  Hashes <- MCHashes
  Damaged <- MCDamaged
  MaxOutput = 8
INVARIANTS TypeOK NothingStale ReadsWhatIsEmitted RoundTrip
PROPERTIES Terminates
CHECK_DEADLOCK FALSE
