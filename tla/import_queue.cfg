SPECIFICATION Spec
CONSTANTS
  r1 = r1
  r2 = r2
  Replicas = {r1, r2}
  NoOne = NoOne
  LastDay = 2
  Attempts = 2
  Kept = 1
  MaxStalls = 1
  MaxCrashes = 2
INVARIANTS TypeOK OneWorkerPerJob StartsBounded FailuresAreHeardOf NotRepeated
PROPERTIES JobsEnd
