SPECIFICATION FairBreakerSpec
CONSTANTS
  Request = {r1, r2, r3}
  Limit = 2
  Cooldown = 2
  DurableDb = TRUE
  Horizon = 4
  MaxBoots = 1
INVARIANTS
  BreakerTypeOK
  LockDiscipline
  TripSavedFromMemory
  NoReaccumulation
  WindowBounded
  PersistedWindowIsCurrent
PROPERTIES
  EveryHandlerLeaves
  ImplementsContract
