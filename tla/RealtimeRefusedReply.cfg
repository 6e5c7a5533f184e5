CONSTANTS
  i1 = i1
  i2 = i2
  Intents <- Pair
  Responses = {1, 2, 3}
  EventIds = {1, 2, 3, 4, 5, 6, 7}
  Holds = {}
  Batch = 3
  OtherErrors = TRUE
  MaxReplies = 1
  MaxInFlight = 2
SPECIFICATION Spec
INVARIANT
  FlushIsScheduled
