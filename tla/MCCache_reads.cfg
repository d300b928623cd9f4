CONSTANTS
  Readers = {r1,r2}
  Workers = {w1}
  Messages = {"status", "neighbors", "cleanup"}
  Keys = {"observer"}
  CategoryTtl <- MCCategoryTtl
  GlobalTtl = 1
  DefaultTtl = 3
  Delay = 1
  MaxTime = 4
  MaxMessages = 1
  MaxFailures = 1
SPECIFICATION Spec
SYMMETRY Symmetry
VIEW Seen
INVARIANT UpsertVisible
PROPERTY BoundedStaleness
