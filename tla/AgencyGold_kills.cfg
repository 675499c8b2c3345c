CONSTANTS
  r1 = r1
  Runs = {r1}
  Versions = {"v1", "v2"}
  LocalFiles <- GoodAndBad
  MaxChanges = 2
  MaxKills = 1
SPECIFICATION FairSpec
INVARIANTS TypeOK
PROPERTIES OneFile LoadedIsDated GoldConverges
CHECK_DEADLOCK FALSE
