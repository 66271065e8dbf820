SPECIFICATION FairSpec
CONSTANTS
  Tokens = {t1, t2, t3}
  Families = {f1}
  Users = {u1}
  Clients = {app}
  GraceClients = {app}
  Procs = {p1, p2}
  Nil = Nil
  RefreshTTL = 1
  ReuseGrace = 1
  MaxIssued = 1
  RevokedRetention = 1
  ExpiredRetention = 0
  TombstoneMargin = 0
  DeletionDelay = 1
  MaxConns = 2
  MaxWait = 0
  MaxTime = 1
  AdminStatuses = {}
  MayFail = FALSE
PROPERTIES RequestsFinish
CHECK_DEADLOCK FALSE
