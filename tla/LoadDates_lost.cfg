CONSTANTS
  a = a
  b = b
  c = c
  d = d
  Loaders = {a, b, c}
  Names = {a, b, c}
  NameOf <- OwnName
  MaxInFlight = 2
  MaxTime = 5
SPECIFICATION Spec
PROPERTY OthersKept
CHECK_DEADLOCK FALSE
