CONSTANTS
  a = a
  b = b
  c = c
  Keys = {a, b, c}
  Workers = {w1}
  Owners <- MCOwners
  Full <- MCFull
  Types <- MCTypes
  Paths <- MCPaths
  Vias = {b, "x2"}
  Reports <- MCReports
  Known = {a, b}
  Owned = {b, c}
  Batch = 1
  MaxRows = 2
  MaxFailures = 1
SPECIFICATION FairSpec
INVARIANT HopsKnown
PROPERTIES DanglingCleanedUp AmbiguousCleanedUp EdgesSettle
