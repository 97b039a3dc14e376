SPECIFICATION Spec
CONSTANTS
  Zones <- ZonePair
  ManualKeys = {m1}
  Admins = {a1}
  Incs <- TwoIncs
  Terms = {t1}
  Shapes = {s1}
  Dates <- OneDate
  NoDate = NoDate
  Replies = {r1, r2}
  Plain = {r1}
  Structured = {r1, r2}
  Brief = Brief
  Absent = Absent
  MaxReports = 0
  Workers = {w1}
  Layers = {l1}
  LayerOf <- OneLayer
  BatchSize = 1
  MinZones = 1
  RetainNum = 3
  RetainDen = 5
  SourceZones <- OneState
  t1 = t1
  t2 = t2
  s1 = s1
  s2 = s2
  r1 = r1
  r2 = r2
  l1 = l1
  l2 = l2
  m1 = m1
PROPERTIES SnapshotPublished
