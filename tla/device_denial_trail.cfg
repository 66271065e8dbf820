SPECIFICATION Spec
CONSTANTS
  Codes = {c1}
  Users = {u1}
  Sessions = {s1}
  Procs = {p1, p2}
  Nil = Nil
  CodeTTL = 1
  SessionTTL = 2
  PollInterval = 1
  CodeRetention = 0
  Closable = {}
  Policies <- EveryoneAdmitted
  MaxTime = 2
  MayFail = TRUE
SYMMETRY Symmetry
CHECK_DEADLOCK FALSE
INVARIANT DenialTrailIsTrue
