SPECIFICATION Spec
CONSTANTS
  Zones <- OneZone
  ManualKeys = {}
  Admins = {a1}
  Incs <- TwoIncs
  Terms = {t1, t2}
  Shapes = {s1}
  Dates <- OneDate
  NoDate = NoDate
  Replies = {r1}
  Plain = {r1}
  Structured = {r1}
  Brief = Brief
  Absent = Absent
  MaxReports = 1
  Workers = {w1, w2}
  Layers = {l1}
  LayerOf <- OneLayer
  BatchSize = 1
  MinZones = 1
  RetainNum = 3
  RetainDen = 5
  SourceZones <- TwoTerms
  t1 = t1
  t2 = t2
  s1 = s1
  s2 = s2
  r1 = r1
  r2 = r2
  l1 = l1
  l2 = l2
  m1 = m1
SYMMETRY WorkerSymmetry
INVARIANTS PublicZonesAreHonest
PROPERTIES ReportsSurviveRewrites
