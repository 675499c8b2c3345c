CONSTANTS
  BATCH_SIZE = 2
  Published = 5
  MaxChanges = 2
SPECIFICATION Spec
INVARIANTS TypeOK PagesFit NoRepeats
CHECK_DEADLOCK FALSE
