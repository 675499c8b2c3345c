CONSTANTS
  r1 = r1
  r2 = r2
  Runs = {r1}
  Contents = {"raw1", "raw2"}
  MaxChanges = 3
  MaxKills = 1
SPECIFICATION FairSpec
INVARIANTS TypeOK
PROPERTIES EndsPublic GoldConverges PublicConvergesUncut
CHECK_DEADLOCK FALSE
