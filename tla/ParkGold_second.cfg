CONSTANTS
  p1 = p1
  p2 = p2
  other = other
  Park = park_gold
  Loaders = {p1, other}
  Parks = {p1}
  Names = {park_gold, other}
  NameOf <- ParkOrOwn
  Granule = 2
  MaxInFlight = 2
  MaxTime = 6
SPECIFICATION ParkSpec
PROPERTY SkippedIsDone
CHECK_DEADLOCK FALSE
