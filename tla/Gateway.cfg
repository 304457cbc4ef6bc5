CONSTANTS
  Peers = {c1}
  Paths = {"ready", "page"}
  Limit = 1
  CacheTTL = 2
  LoadTicks = 1
  NoEntry = NoEntry
  Slots = {r1, r2}
  PoolSize = 1
  None = None
SPECIFICATION FairSpec
INVARIANTS TypeOK NoLeak ProbeIsTruthful PageIsRecent
PROPERTIES EveryRequestAnswered
CHECK_DEADLOCK FALSE
