SPECIFICATION PartsSpec
CONSTANTS
  chat = chat
  once = once
  recurring = recurring
  Turns <- MCTurns
  Sessions <- MCSessions
  Globals <- MCGlobals
  SessionOf <- MCSessionOf
  GlobalOf <- MCGlobalOf
  LaneLimit <- MCLaneLimit
  Jobs = {once, recurring}
  OneShots = {once}
  DeletedAfterRun = {}
  MaxConcurrentRuns = 1
  MaxMissed = 2
  MaxRetries = 1
  Chats <- MCChats
  MaxChats = 1
  MaxEdits = 1
  MaxMoments = 1
  MaxStarts = 2
  Keys = {k1, k2, k3}
  Limit = 2
  MaxWaiting = 4
  KeepTurns = 1
  MaxTurns = 2
  MaxOthers = 2
  MaxChunk = 3
  RecentLogs = 1
  MaxMessages = 3
  MaxDays = 2
  MaxMishaps = 2
  n1 = n1
  n2 = n2
  c1 = c1
  c2 = c2
  c3 = c3
  Nodes = {n1, n2}
  Conns = {c1, c2, c3}
  Invokes = {i1, i2}
  HostOf <- MCHostOf
  Nobody = Nobody
  LiveTasks = {w1, w2}
  Wishes = {x}
  MaxSaid = 2
  MaxRequests = 2
  MaxPlan = 1
  Reminders = {r1, r2}
  MaxBoots = 2
  Talks = {s1, s2}
  Wants = {coffee}
  MaxUtterances = 2
  MaxRows = 2
SYMMETRY Alike
CONSTRAINT RestartsAreSparse
INVARIANTS
  PartsTypeOK
  TurnsSerialized
  NoIdlePlace
  TimerArmed
  MarkIsExecution
  DrainedIsClean
  LoopStartsChosen
  HistoryKept
  ToolsArePaired
  MemoryFaithful
  InvokesReachable
  ResultsAnnounced
  PlansAreCurrent
  RemindersAreHeld
  DeclinedStaysQuiet
CHECK_DEADLOCK FALSE
