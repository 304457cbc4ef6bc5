CONSTANTS
  Requests = {r1, r2}
  UserIds = {a, b}
  Emails = {e1}
  u1 = u1  u2 = u2  p1 = p1  p2 = p2  d1 = d1  d2 = d2
  Uids = {u1}
  Passwords = {p1}
  Names = {}
  Digests = {d1}
  Digest <- MCDigest
  LowerUid <- MCLowerUid
  Ops = {"register"}
  ReplyFirst = FALSE
  None = None
  Unset = Unset
SPECIFICATION Spec
INVARIANTS DuplicateAnswers409
CHECK_DEADLOCK FALSE
