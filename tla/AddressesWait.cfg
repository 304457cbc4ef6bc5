CONSTANTS
  Requests = {r1, r2}
  Users = {bob}
  Patient = {}
  AddrIds = {a1, a2, a3}
  ReplyFirst = TRUE
  None = None
SPECIFICATION FairSpec
PROPERTIES EveryRequestEnds
CHECK_DEADLOCK FALSE
