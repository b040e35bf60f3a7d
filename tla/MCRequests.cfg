SPECIFICATION Spec
CONSTANTS
  TenantConfig <- MCTenants
  ApiKey = {"k2", "s", Absent}
  ShortKey = {"s"}
  ClockSkew = 1
  MaxRows = 2
  MaxSigned = 1
  TraceHorizon = 2
  Absent = Absent
  TooLong = TooLong
  Unsigned = Unsigned
  NullParent = NullParent
  EmptyText = EmptyText
  GateBody <- MCGateBody
  Hint <- MCHint
  JsonKey = {"arguments"}
  Alias <- MCAlias
  TypeHint <- MCTypeHint
  Code <- MCCode
  DangerFunc <- MCDangerFunc
  QueriedFunc <- MCQueriedFunc
  Builtins <- MCBuiltins
  AliasMark <- MCAliasMark
  Quote = {"'"}
  Formatted = Formatted
  MaxFragments = 2
  MaxDepth = 2
  MaxCodeLen = 3
  Truncated = "cut"
  NoLang = NoLang
  GateKey <- MCFieldName
  PolicyFile <- MCFile
  PolicyBody <- MCBody
  PolicyPath <- MCPath
  PolicyTenant <- MCTenant
  PolicyMethod <- MCMethod
  UpperOf <- MCUpperOf
  EmptyFile = EmptyFile
  Raised = Raised
  FieldName <- MCFieldName
  IdentOf <- MCIdent
  NoBody = NoBody
  NoTenant = "none"
  NoCondition = NoCondition
  NoRule = NoRule
  NoRequest = NoRequest
  AstBlock = AstBlock
  ChatBody <- MCChatBody
  NormName <- MCNormName
  DangerNorms = {"rm"}
  LethalityOf <- MCLethality
  DefaultLethality = 6
  NoTool = NoTool
  ProtoDir <- MCProtoDir
  ProtoBody <- MCProtoBody
  Spelled = {"a", "b", "c"}
  MaxSpots = 2
  Worker = {w1, w2}
  MaxEdits = 3
  LethWorker = {w1, w2}
  LethMaxEdits = 2
INVARIANTS
  ChainsAreVouched
  GateSeesCode
  CodeIsJudgedByItsEffect
  FirstMatchWins
  GeneratedAgrees
  ToolsAreJudged
  VerdictFollowsDeclarations
  ScanTellsWhatPasses
  QuietEditTakesEffect
  WeightsCatchUp
CHECK_DEADLOCK FALSE
