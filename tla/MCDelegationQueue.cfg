CONSTANTS
  Calls = {c1, c2, c3}
  Keys = {k1, k2, k3}
  Limit = 2
  None = None
SPECIFICATION FairSpec
CHECK_DEADLOCK FALSE
INVARIANTS
  MutualExclusion
  WaitsOnlyForItsReason
PROPERTIES
  NoOvertaking
  ImplementsLock
  EveryCallEnds
