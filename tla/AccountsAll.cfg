CONSTANTS
  Requests = {r1, r2}
  UserIds = {a}
  Emails = {e1, e2}
  u1 = u1  u2 = u2  p1 = p1  p2 = p2  d1 = d1  d2 = d2
  Uids = {u1}
  Passwords = {p1, p2}
  Names = {}
  Digests = {d1, d2}
  Digest <- MCDigest
  LowerUid <- MCLowerUid
  Ops = {"register", "login", "firebase", "refresh", "get_me", "update_me", "reset_request", "reset_confirm", "change_password", "delete_me", "suspend"}
  ReplyFirst = FALSE
  None = None
  Unset = Unset
SPECIFICATION Spec
INVARIANTS TokenHasAccount
PROPERTIES ImplementsDirectory ErasureSettles SuspensionSticks NoStaleOverwrite
CHECK_DEADLOCK FALSE
