CONSTANTS
  a = a
  b = b
  c = c
  d = d
  Loaders = {a, b, c}
  Names = {a, b, c}
  NameOf <- TwoRuns
  MaxInFlight = 1
  MaxTime = 7
SPECIFICATION Spec
INVARIANTS TypeOK IdsUnique
PROPERTIES ImplementsRegistry
CHECK_DEADLOCK FALSE
