SPECIFICATION FairSpec
CONSTANTS
  People = {h1, h2}
  Emails = {e1}
  EmailOf <- SharedEmail
  AccountIds = {a1, a2}
  Procs = {p1, p2}
  Replicas = {w1, w2}
  Nil = Nil
  DeletionDelay = 1
  MaxTime = 2
  MaxFaults = 2
CHECK_DEADLOCK FALSE
INVARIANTS TypeOK OneAccountPerPerson IdentityIsKept
PROPERTIES DeletionWaits ClosedStaysClosed DueAccountsGo
