SPECIFICATION Spec
CONSTANTS
  Zones <- OneZone
  ManualKeys = {}
  Admins = {a1}
  Incs <- TwoIncs
  Terms = {t1, t2}
  Shapes = {s1}
  Dates <- TwoDates
  NoDate = NoDate
  Replies = {r1}
  Plain = {r1}
  Structured = {r1}
  Brief = Brief
  Absent = Absent
  MaxReports = 0
  Workers = {w1}
  Layers = {l1}
  LayerOf <- OneLayer
  BatchSize = 1
  MinZones = 1
  RetainNum = 3
  RetainDen = 5
  SourceZones <- ReviewSource
  t1 = t1
  t2 = t2
  s1 = s1
  s2 = s2
  r1 = r1
  r2 = r2
  l1 = l1
  l2 = l2
  m1 = m1
INVARIANTS TypeOK PublicZonesAreHonest
PROPERTIES FirstDatesKept
