CONSTANTS
  t1 = t1
  t2 = t2
  Tasks = {t1, t2}
  Runtimes = {"native"}
  Limit = 2
  LinuxUser = FALSE
  Responses = {}
  None = None
  MaxDeps = 1
  MaxStops = 2
  MaxAsks = 1
  MaxCrashes = 1
SPECIFICATION FairSpec
CONSTRAINT FirstIsT1
CHECK_DEADLOCK FALSE
PROPERTIES
  EventuallySettles
INVARIANTS
  ExecutedOnce
  NoCollateralCancel
  CancelWins
  LineageSound
