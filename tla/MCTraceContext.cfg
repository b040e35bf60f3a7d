SPECIFICATION TraceContextSpec
CONSTANTS
  TenantConfig <- MCTenants
  ApiKey = {"k2", "s", Absent}
  ShortKey = {"s"}
  ClockSkew = 1
  MaxRows = 2
  MaxSigned = 1
  TraceHorizon = 2
  Absent = Absent
  TooLong = TooLong
  Unsigned = Unsigned
  NullParent = NullParent
  EmptyText = EmptyText
INVARIANT NoParentIsRoot
CHECK_DEADLOCK FALSE
