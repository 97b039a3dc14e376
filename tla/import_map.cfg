SPECIFICATION FairSpec
CONSTANTS
  Zones <- ZoneTriple
  ManualKeys = {}
  Admins = {}
  Incs <- OneInc
  Terms = {t1, t2}
  Shapes = {s1}
  Dates <- OneDate
  NoDate = NoDate
  Replies = {r2}
  Plain = {}
  Structured = {r2}
  Brief = Brief
  Absent = Absent
  MaxReports = 0
  Workers = {w1}
  Layers = {l1}
  LayerOf <- OneLayer
  BatchSize = 2
  MinZones = 1
  RetainNum = 3
  RetainDen = 5
  SourceZones <- TwoTerms
  t1 = t1
  t2 = t2
  s1 = s1
  s2 = s2
  r1 = r1
  r2 = r2
  l1 = l1
  l2 = l2
  m1 = m1
PROPERTIES NeverBlanked ReplacesMapAtOnce MapConverges
