SPECIFICATION BreakerSpec
CONSTANTS
  Request = {r1, r2}
  Limit = 2
  Cooldown = 2
  DurableDb = FALSE
  Horizon = 4
  MaxBoots = 1
PROPERTIES
  RestartKeepsWindow
