CONSTANTS
  Workers = {w1, w2}
  Observers = {o1}
  Packets = {h1, h2, h3}
  Payload <- MCPayload
  Text = {h1}
  Adverts = {h2}
  Traces = {h3}
  Multihop = {h3}
  Scoped = {h2}
  MaxMessages = 3
  MaxFailures = 1
  MaxRestarts = 1
CHECK_DEADLOCK FALSE
SPECIFICATION Spec
SYMMETRY Symmetry
INVARIANT AnnouncedOnce
PROPERTY ObservationFeed
