CONSTANTS
  Requests = {r1, r2, r3}
  UserIds = {a, b}
  Emails = {e1, e2}
  u1 = u1  u2 = u2  p1 = p1  p2 = p2  d1 = d1  d2 = d2
  Uids = {u1}
  Passwords = {p1}
  Names = {}
  Digests = {d1}
  Digest <- MCDigest
  LowerUid <- MCLowerUid
  Ops = {"register", "firebase", "update_me", "delete_me"}
  ReplyFirst = TRUE
  None = None
  Unset = Unset
SYMMETRY Symmetry
SPECIFICATION Spec
INVARIANTS TypeOK UniqueKeys ReservedKeysExclusive NeverStuck
PROPERTIES DeletedForever NewEmailUnverified
CHECK_DEADLOCK FALSE
