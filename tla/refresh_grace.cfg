SPECIFICATION Spec
CONSTANTS
  Tokens = {t1, t2, t3, t4}
  Families = {f1}
  Users = {u1}
  Clients = {app}
  GraceClients = {app}
  Procs = {p1, p2}
  Nil = Nil
  RefreshTTL = 2
  ReuseGrace = 1
  MaxIssued = 2
  RevokedRetention = 1
  ExpiredRetention = 0
  TombstoneMargin = 0
  DeletionDelay = 1
  MaxConns = 0
  MaxWait = 0
  MaxTime = 3
  AdminStatuses = {}
  MayFail = TRUE
SYMMETRY Symmetry
INVARIANTS EndedFamilyStaysDead ChildrenBounded FamilyLockOrders
CHECK_DEADLOCK FALSE
