SPECIFICATION HeartbeatSpec
INVARIANTS
  ReloadKeepsWake
