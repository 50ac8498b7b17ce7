SPECIFICATION DocsSpec
CONSTANTS
  d1 = d1 d2 = d2 d3 = d3 b1 = b1 f1 = f1 f2 = f2
  None = None
  Docs <- MCDocs
  Blobs <- MCBlobs
  Bodies <- MCBodies
  Home = "home"
  Guest = "guest"
  Plans = {f1}
  Limit = 1
  Batch = 2
  MaxWrites = 4
  OneWriter = TRUE
SYMMETRY Symm
INVARIANT NamedBytesStay
INVARIANT SearchIsExact
INVARIANT ListingIsComplete
CHECK_DEADLOCK FALSE
