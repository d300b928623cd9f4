CONSTANTS
  Workers = {w1, w2}
  Observers = {p1}
  Iatas = {i1}
  Packets = {h1}
  Names = {"a"}
  Kinds = {"packet", "status"}
  PacketTTL = 0
  MaxMessages = 2
  MaxTime = 2
  MaxFailures = 1
  MaxRestarts = 1
CHECK_DEADLOCK FALSE
SPECIFICATION Spec
SYMMETRY Symmetry
INVARIANTS CountConserved RowsFirst NewOnce
PROPERTY NeverRegresses
