CONSTANTS
  Clients = {c1}
  SubIds = {"all"}
  Kinds = {"packet"}
  ScopeOf <- MCScopeOf
  SubscribeCap = 2
  UnsubscribeCap = 1
  RemoveCap = 1
  BroadcastCap = 1
  SendCap = 1
  LaggedCap = 1
  MaxEvents = 1
  MaxConfigures = 0
CHECK_DEADLOCK FALSE
SPECIFICATION Spec
INVARIANT RemoveScopeRemoves
