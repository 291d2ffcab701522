SPECIFICATION ScanSpec
CONSTANTS
  Universe <- MCUniverse
  MaxCandidates = 3
INVARIANTS OrderIrrelevant NoSourceHidden
CHECK_DEADLOCK FALSE
