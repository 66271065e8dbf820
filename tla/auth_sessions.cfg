SPECIFICATION Spec
CONSTANTS
  Requests = {r1, r2}
  Users = {u1}
  Sessions = {s1}
  Procs = {p1}
  Nil = Nil
  Second = 2
  RequestTTL = 1
  SessionTTL = 3
  RequestRetention = 0
  Channels = {"browser", "mcp"}
  Modes = {"default", "silent", "interactive"}
  MaxAges <- AnyMaxAge
  Statuses = {"active"}
  Deletions = TRUE
  MaxCodes = 1
  MaxTime = 3
  MayFail = FALSE
SYMMETRY Symmetry
CHECK_DEADLOCK FALSE
INVARIANTS InteractiveIsFresh MaxAgeIsHonoured
PROPERTIES OnlyInteractionRecovers
