SPECIFICATION FairGatewaySpec
CONSTANTS
  Request = {r1, r2}
  Limit = 2
  Cooldown = 1
  DurableDb = TRUE
  Horizon = 1
  MaxBoots = 1
  Trace = {t1}
  RuleAction = {"ALLOW", "SUSPEND", "ESCALATE", "DENY"}
  RevokeMax = 1
  HookOn = TRUE
INVARIANTS
  GatewayTypeOK
  HandlerInBreaker
  FailClosed
PROPERTIES
  EveryRequestAnswered
