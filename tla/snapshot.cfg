SPECIFICATION MCSpec
CONSTANTS
  Layers = {swimmers, wrecks}
  Folders = {north, south, sunk, trees}
  LayerOf <- MCLayerOf
  Title <- MCTitle
  Names = {reef, Reef, marker, other}
  Identity <- MCIdentity
  VertexMark = {marker}
  Allowed <- MCAllowed
  Pointed = {wrecks}
  Notes = {early, late}
  early = early
  late = late
  Absent = Absent
  Sea = {1, 2, 3}
  Shapes <- MCShapes
  Offered <- MCOffered
  MaxRead = 2
  swimmers = swimmers
  wrecks = wrecks
  north = north
  south = south
  sunk = sunk
  trees = trees
  reef = reef
  Reef = Reef
  marker = marker
  other = other
  Bounds <- MCBounds
  NoGeometry = NoGeometry
  Unnamed = Unnamed
  Words = {pier, Unnamed}
  Features <- MCFeatures
  MaxFeatures = 4
  pier = pier
  Statements <- MCStatements
  Dates = {june, july}
  NoSuchDay = NoSuchDay
  Unstated = Unstated
  MaxStated = 3
  june = june
  july = july
INVARIANTS EveryShapeOnce FactsOfFirstNote MatchedLayersHaveZones LayerIsWhatCanBeShown IdsTellApart FactsAsStated
CHECK_DEADLOCK FALSE
