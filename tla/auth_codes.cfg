SPECIFICATION Spec
CONSTANTS
  Requests = {r1}
  Users = {u1, u2}
  Sessions = {s1, s2}
  Procs = {p1, p2}
  Nil = Nil
  Second = 1
  RequestTTL = 2
  SessionTTL = 2
  RequestRetention = 0
  Channels = {"browser"}
  Modes = {"default", "silent", "interactive"}
  MaxAges <- NoMaxAge
  Statuses = {}
  Deletions = FALSE
  MaxCodes = 2
  MaxTime = 3
  MayFail = TRUE
SYMMETRY Symmetry
CHECK_DEADLOCK FALSE
INVARIANTS TypeOK IssuedOnce AuthTimeIsHonest
