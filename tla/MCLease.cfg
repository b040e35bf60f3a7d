SPECIFICATION LeaseSpec
CONSTANTS
  Instance = {i1, i2, i3}
  NoInstance = NoInstance
  Ttl = 1
  Tolerance = 1
  MaxFileErrors = 1
PROPERTIES
  CrashedIsReplaced
CHECK_DEADLOCK FALSE
