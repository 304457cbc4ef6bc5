CONSTANTS
  Requests = {r1, r2}
  Users = {alice, bob}
  Patient = {alice}
  AddrIds = {a1, a2, a3}
  ReplyFirst = TRUE
  None = None
SPECIFICATION Spec
INVARIANTS OneDefault
SYMMETRY Symmetry
CHECK_DEADLOCK FALSE
