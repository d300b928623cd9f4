CONSTANTS
  Clients = {c1, c2}
  SubIds = {"all"}
  Kinds = {"packet"}
  ScopeOf <- MCScopeOf
  SubscribeCap = 1
  UnsubscribeCap = 1
  RemoveCap = 1
  BroadcastCap = 1
  SendCap = 1
  LaggedCap = 1
  MaxEvents = 1
  MaxConfigures = 0
  Ips = {ip1}
  IpOf <- MCIpOf
  MaxConns = 1
CHECK_DEADLOCK FALSE
SPECIFICATION WsFairSpec
INVARIANTS LimiterExact NeverDeaf ClosedNeverServed
PROPERTIES CutOffIsReleased
