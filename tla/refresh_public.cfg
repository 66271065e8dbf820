SPECIFICATION Spec
CONSTANTS
  Tokens = {t1, t2, t3}
  Families = {f1}
  Users = {u1}
  Clients = {web}
  GraceClients = {}
  Procs = {p1, p2}
  Nil = Nil
  RefreshTTL = 2
  ReuseGrace = 0
  MaxIssued = 3
  RevokedRetention = 2
  ExpiredRetention = 0
  TombstoneMargin = 0
  DeletionDelay = 2
  MaxConns = 0
  MaxWait = 1
  MaxTime = 3
  AdminStatuses = {"active", "disabled"}
  MayFail = TRUE
SYMMETRY Symmetry
INVARIANTS TypeOK PublicGrantIsLinear DeletedUserHasNoTokens
PROPERTIES RevocationIsFinal
CHECK_DEADLOCK FALSE
