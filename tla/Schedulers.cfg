SPECIFICATION SchedulersSpec
CONSTANTS
  t1 = t1
  t2 = t2
  t3 = t3
  Turns = {t1, t2, t3}
  Sessions = {"a", "b"}
  Globals = {"Main", "Cron"}
  SessionOf <- MCSessionOf
  GlobalOf <- MCGlobalOf
  LaneLimit <- MCLaneLimit
  MaxChunk = 3
  RecentLogs = 1
  MaxMessages = 3
  MaxDays = 2
  MaxMishaps = 1
  Reminders = {r1, r2}
  MaxBoots = 2
PROPERTIES
  TurnsSettle
  RequestServed
  MemoryCatchesUp
  RemindersAreSpoken
CHECK_DEADLOCK FALSE
