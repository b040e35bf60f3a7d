SPECIFICATION StorageSpec
CONSTANTS
  BatchSize = 2
  PendingMax = 2
  MaxAttempts = 2
  Backoff = 1
  MaxSaves = 4
  Horizon = 1
  MaxBoots = 1
PROPERTY
  ShutdownKeepsDecisions
CHECK_DEADLOCK FALSE
