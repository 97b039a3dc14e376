SPECIFICATION Spec
CONSTANTS
  Ids = {1, 2}
  Texts = {x}
  Clients = {c1}
  Readers = {r1, r2}
  Limit = 2
  Starts <- NowOrLater
  Absent = Absent
  Importing = FALSE
  MaxTime = 3
INVARIANTS NothingStale
