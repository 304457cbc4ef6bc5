CONSTANTS
  Slots = {r1, r2}
  Users = {alice}
  TTL <- MCTTL
  Patience = 1
  Development = TRUE
  ReplyFirst = TRUE
  None = None
SPECIFICATION FairSpec
INVARIANTS TypeOK AccessLapses ActsWithinLifetime
PROPERTIES NoRenewalOnceClosed ClosedAccountGoesQuiet
CHECK_DEADLOCK FALSE
