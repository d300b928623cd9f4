CONSTANTS
  Hashes = {h}
  Workers = {w1}
  ChannelFilters = {"channel"}
  TraceFilters = {}
  Retention = 8
  PacketTtl = 1
  Refresh = 1
  Drift = 0
  FlushGap = 1
  CleanGap = 1
  Delay = 1
  MaxTime = 12
  MaxFailures = 1
SPECIFICATION Spec
INVARIANTS NoOrphan FilterInStep GoneInTime
