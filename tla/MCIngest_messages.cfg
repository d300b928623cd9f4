CONSTANTS
  Workers = {w1, w2}
  Observers = {o1, o2}
  Packets = {h1}
  Payload <- MCPayload
  Text = {h1}
  Adverts = {}
  Traces = {}
  Multihop = {}
  Scoped = {}
  MaxMessages = 3
  MaxFailures = 2
  MaxRestarts = 1
CHECK_DEADLOCK FALSE
SPECIFICATION FairSpec
INVARIANTS ToldOnce MarkedHasMessage FirstOnce
PROPERTIES Surfaces MessageFeed OwedIsSent BootEnds
