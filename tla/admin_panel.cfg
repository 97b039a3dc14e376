SPECIFICATION Spec
CONSTANTS
  Positions = {a, b, c, far}
  World = {a, b, c}
  Half = Half
  Blank = Blank
  MaxParts = 2
  MaxDrawn = 4
  NoticeLayers = {notices, review}
  RefLayers = {beaches}
  MaxLoads = 2
  Count = 3
  Limit = 1
  NoText = NoText
  source = source
  subKey = subKey
  Sources = {source}
  SubKeys = {subKey}
  a = a
  notices = notices
  review = review
  beaches = beaches
  b = b
  c = c
  far = far
INVARIANTS PanelTypeOK PreviewShowsWhatIsSent RefusedOnlyForBounds StoredPartsAreShown SavedOnce PagesListTheQueue ButtonsMatchTheMap
PROPERTIES RefusedDrawingKept RowsLeaveWhenDecided OnlyWithASession
SYMMETRY InBoundsSymmetry
