CONSTANTS
  r1 = r1
  r2 = r2
  Runs = {r1}
  Contents = {"raw1", "raw2"}
  MaxChanges = 1
  MaxKills = 1
SPECIFICATION FairSpec
PROPERTY PublicConverges
CHECK_DEADLOCK FALSE
