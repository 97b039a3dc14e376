SPECIFICATION Spec
CONSTANTS
  Datasets = {beaches}
  Beaches = beaches
  Sites <- SitePair
  Codes <- SitePair
  Classes = {good}
  Absent = Absent
  Refreshers = {cron}
  MinCount = 1
  KeepNum = 3
  KeepDen = 4
  MinReport = 1
  OverlapNum = 1
  OverlapDen = 2
  b1 = b1
  b2 = b2
  b3 = b3
  x = x
PROPERTIES ReplacementsPassTheRails
