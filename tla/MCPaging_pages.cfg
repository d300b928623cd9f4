CONSTANTS
  Packets = {"p", "q", "r"}
  Observers = {1, 2, 3}
  Sites = {"A", "B"}
  Requested = {"A", "B"}
  Stored <- MCStored
  Known = {1, 4, 5}
  Times = {3, 4, 5, 6, 7}
  Arrivals = {4, 7}
  Tick = 2
  Limit = 2
  Factor = 1
  MaxInserts = 2
CHECK_DEADLOCK FALSE
SPECIFICATION FairSpec
INVARIANTS NothingSkipped 
PROPERTIES PagingEnds 
