SPECIFICATION Spec
CONSTANTS
  FirstId = d1
  SecondId = d2
  MetaId = {d1, d2}
  Mentions <- MCMentions
  MaxMetaRows = 1
  MaxMetaErrors = 1
  HookAgent = {"a", "b"}
  ContextWindow = 2
  HookBody <- MCHookBody
  HookAnswer <- MCHookAnswer
  Instance = {i1, i2, i3}
  NoInstance = NoInstance
  Ttl = 2
  Tolerance = 1
  MaxFileErrors = 1
  MaxRepoEdits = 3
  BrokenPolicy = {3}
  MaxCycles = 2
  StepDigits = 2
  Radix = 2
  MaxSteps = 4
  Endpoint = {"p"}
  AnyEndpoint = "any"
  BaseFile <- MCBaseFile
  LlmRules <- MCLlmRules
  MinCount = 1
  MaxDeploys = 2
  Candidates = {"c1", "c2", "c3"}
  Quality = {0, 1}
  Cost = {0, 1, 2}
  MaxRounds = 2
  MaxLoopRuns = 2
INVARIANTS
  TrailKeepsEvidence
  OnlyVerifiedIsCommitted
  QuietCycleLeavesFresh
  LoadReturnsRecorded
  FailedTraceIsNotOk
  LastContentSurvives
  
  FrontierIsParetoSet
PROPERTIES
  SplitIsBounded
  TakeoverAfterExpiry
CHECK_DEADLOCK FALSE
