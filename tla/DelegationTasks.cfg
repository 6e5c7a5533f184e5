CONSTANTS
  Tasks = {t1, t2, t3}
  Runtimes = {"native", "codex", "claude"}
  Limit = 2
  LinuxUser = FALSE
  Responses = {r1}
  None = None
  MaxDeps = 1
  MaxStops = 1
  MaxAsks = 0
  MaxCrashes = 0
SPECIFICATION TasksSpec
SYMMETRY Symmetry
CHECK_DEADLOCK FALSE
INVARIANTS
  TypeOK
  DependentsUseRealResults
  ExecutingTasksCompatible
PROPERTIES
  SupersededNeverCompletes
