CONSTANTS
  Clients = {c1}
  SubIds = {"some"}
  Kinds = {"packet"}
  ScopeOf <- MCScopeOf
  SubscribeCap = 2
  UnsubscribeCap = 1
  RemoveCap = 1
  BroadcastCap = 1
  SendCap = 2
  LaggedCap = 1
  MaxEvents = 5
  MaxConfigures = 1
CHECK_DEADLOCK FALSE
SPECIFICATION FairSpec
INVARIANTS OrderedOnce LossAccounting NoSilentLoss SubscribeSettles
PROPERTIES FeedSpec FanoutCompletes DisconnectCloses
