CONSTANTS
  p1 = p1
  p2 = p2
  delta = delta
  Procs = {p1, p2}
  Inherits = {p2}
  Deltas = {delta}
  Csvs = {"csv"}
  Chain <- TwoQueries
  MaxDepth = 3
  MaxRuns = 3
SPECIFICATION Spec
INVARIANTS TypeOK SessionsInOrder FailurePropagates
PROPERTIES LoadedWhole CreatedIsReady
CHECK_DEADLOCK FALSE
