CONSTANTS
  Packets = {"p", "q"}
  Observers = {1, 2, 3, 4, 5, 6, 7, 8, 9, 10, 11, 12, 13, 14, 15, 16, 17, 18}
  Sites = {"A"}
  Requested = {"A"}
  Stored <- MCCrowd
  Known = {}
  Times = {1, 2, 3, 4, 5, 6, 7, 8, 9, 10, 11, 12, 13, 14, 15, 16, 17, 18}
  Arrivals = {}
  Tick = 1
  Limit = 1
  Factor = 8
  MaxInserts = 0
CHECK_DEADLOCK FALSE
SPECIFICATION Spec
INVARIANT NothingStranded
