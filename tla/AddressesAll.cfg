CONSTANTS
  Requests = {r1, r2, r3}
  Users = {alice, bob}
  Patient = {alice}
  AddrIds = {a1, a2, a3}
  ReplyFirst = FALSE
  None = None
SPECIFICATION Spec
INVARIANTS TypeOK OneDefaultIfServedInTurn NeverStuck
PROPERTIES OnlyOwnerWrites DefaultLostOnlyOnPurpose ImplementsBook
SYMMETRY Symmetry
CHECK_DEADLOCK FALSE
