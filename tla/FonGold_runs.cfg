CONSTANTS
  r1 = r1
  Runs = {r1}
  Contents = {"fon1", "fon2"}
  LocalFiles = {"fon2"}
  Publish = {TRUE, FALSE}
  MaxUploads = 3
  MaxManual = 1
  MaxKills = 1
SPECIFICATION FairSpec
INVARIANTS TypeOK LoadDateSound
PROPERTIES GoldConverges DateConverges PublicFollows
CHECK_DEADLOCK FALSE
