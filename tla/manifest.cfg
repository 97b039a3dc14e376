SPECIFICATION FairSpec
CONSTANTS
  Ids = {1, 2}
  Texts = {x}
  Clients = {c1}
  Readers = {r1, r2}
  Limit = 1
  Starts <- NowOrLater
  Absent = Absent
  Importing = TRUE
  MaxTime = 3
INVARIANTS TypeOK NothingMissed
PROPERTIES ManifestMoves 
