CONSTANTS
  Reminders = {r1}
  MaxBoots = 1
SPECIFICATION IntentionsSpec
CHECK_DEADLOCK FALSE
INVARIANTS
  NeverHalfArmed
