CONSTANTS
  Peers = {c1}
  Paths = {"ready", "page"}
  Limit = 1
  CacheTTL = 2
  LoadTicks = 1
  NoEntry = NoEntry
  Slots = {r1, r2}
  PoolSize = 1
  None = None
SPECIFICATION Spec
INVARIANTS ProbeReports503
CHECK_DEADLOCK FALSE
