SPECIFICATION FairSpec
CONSTANTS
  Tokens = {t1, t2, t3}
  Families = {f1}
  Users = {u1}
  Clients = {web, app}
  GraceClients = {app}
  Procs = {p1, p2}
  Nil = Nil
  RefreshTTL = 1
  ReuseGrace = 1
  MaxIssued = 2
  RevokedRetention = 1
  ExpiredRetention = 0
  TombstoneMargin = 0
  DeletionDelay = 1
  MaxConns = 3
  MaxWait = 0
  MaxTime = 1
  AdminStatuses = {"disabled"}
  MayFail = FALSE
PROPERTIES ImplementsGrants RequestsFinish ReplayEndsFamily
CHECK_DEADLOCK FALSE
