SPECIFICATION FairSpec
CONSTANTS
  Codes = {c1}
  Users = {u1}
  Sessions = {s1}
  Procs = {p1, p2}
  Nil = Nil
  CodeTTL = 2
  SessionTTL = 2
  PollInterval = 2
  CodeRetention = 0
  Closable = {u1}
  Policies <- AnyPolicy
  MaxTime = 2
  MayFail = FALSE
CHECK_DEADLOCK FALSE
INVARIANTS ClosedAccountGetsNothing
PROPERTIES ApprovedCodeDelivers PendingAnswersAreSpaced
