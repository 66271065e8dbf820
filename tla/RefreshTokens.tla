--------------------------- MODULE RefreshTokens ---------------------------
(***************************************************************************)
(* The refresh-token store of authgate: issuance, rotation, reuse          *)
(* detection, the reuse grace of confidential clients, /oauth/revoke, the  *)
(* user-wide revocation of an account-deletion request, user lifecycle and *)
(* the retention cleanup.                                                  *)
(*                                                                         *)
(* Every request is a process that runs the transactions of its handler.   *)
(* The tables hold committed data only: a transaction writes them in its   *)
(* commit step.  The family and user locks it holds until then are read    *)
(* off its control state; row locks are taken one by one and kept in held. *)
(* Postgres runs these transactions under READ COMMITTED: each statement   *)
(* sees what was committed when the statement started, which is why a      *)
(* handler with several statements has several steps here.                 *)
(***************************************************************************)
EXTENDS Integers, FiniteSets

CONSTANTS
  Tokens,              \* refresh-token rows that can ever be inserted
  Families,            \* family ids that can ever be drawn
  Users,
  Clients,
  GraceClients,        \* static confidential clients with a secret
  Procs,               \* concurrent requests
  Nil,                 \* an absent reference
  RefreshTTL,          \* refresh_token_ttl
  ReuseGrace,          \* REFRESH_TOKEN_REUSE_GRACE_SEC, 0 turns it off
  MaxIssued,           \* refreshReuseGraceMaxIssued
  RevokedRetention,    \* revokedRefreshRetention
  ExpiredRetention,    \* expiredRefreshRetention
  TombstoneMargin,     \* familyTombstoneMargin
  DeletionDelay,       \* the 30 days between deletion request and deletion
  MaxConns,            \* DB_MAX_OPEN_CONNS, 0 is no limit
  MaxWait,             \* bound: no transaction outlives this many ticks
  MaxTime,             \* bound: the last clock value explored
  AdminStatuses,       \* bound: the statuses an operator sets
  MayFail              \* whether a transaction may roll back half way

ASSUME NilAssumption ==
  /\ Nil \notin Tokens
  /\ Nil \notin Families
  /\ Nil \notin Users
  /\ Nil \notin Clients

ASSUME ClientAssumption == GraceClients \subseteq Clients

ASSUME TimeAssumption ==
  /\ RefreshTTL \in Nat \ {0}
  /\ ReuseGrace \in Nat
  /\ MaxIssued \in Nat \ {0}
  /\ RevokedRetention \in Nat
  /\ ExpiredRetention \in Nat
  /\ TombstoneMargin \in Nat
  /\ DeletionDelay \in Nat
  /\ MaxConns \in Nat
  /\ MaxWait \in Nat
  /\ MaxTime \in Nat
  /\ MayFail \in BOOLEAN

ASSUME AdminAssumption == AdminStatuses \subseteq {"active", "disabled"}

(***************************************************************************)
(* The configured durations leave room for slow transactions: minutes of   *)
(* waiting against retention periods of days.                              *)
(***************************************************************************)
ASSUME RetentionAssumption ==
  /\ ReuseGrace + 2 * MaxWait <= RefreshTTL + TombstoneMargin
  /\ ReuseGrace + 2 * MaxWait <= RevokedRetention
  /\ ReuseGrace + 2 * MaxWait <= RefreshTTL + ExpiredRetention
  /\ 2 * MaxWait <= DeletionDelay

VARIABLES
  now,        \* s.clock.Now()
  rows,       \* table refresh_tokens (rows that cleanup removed are kept as "purged")
  tombs,      \* table refresh_token_families: revoked_at of the tombstone, or Null
  status,     \* users.status
  scheduled,  \* users.deletion_scheduled_at, or Null
  req,        \* control state and locals of each request
  endedAt     \* history: when a family was first tombstoned, or Null

vars == <<now, rows, tombs, status, scheduled, req, endedAt>>

----------------------------------------------------------------------------
(* Types                                                                   *)

Null == -1

Time == Nat \cup {Null}

Status == {"active", "pending_deletion", "disabled", "deleted"}

Row == [state   : {"unissued", "stored", "purged"},
        family  : Families \cup {Nil},
        user    : Users \cup {Nil},
        client  : Clients \cup {Nil},
        parent  : Tokens \cup {Nil},
        expires : Time,
        revoked : Time,
        used    : Time]

NoRow == [state |-> "unissued", family |-> Nil, user |-> Nil, client |-> Nil,
          parent |-> Nil, expires |-> Null, revoked |-> Null, used |-> Null]

(***************************************************************************)
(* granting   CreateAccessAndRefreshTokens for a fresh grant (a code or a  *)
(*            device code whose user was checked when it was redeemed)     *)
(* validated  TokenRequestByRefreshToken has returned                      *)
(* redeeming  CreateAccessAndRefreshTokens waits for the family lock       *)
(* locked     it holds the family lock and waits for the row               *)
(* loaded     consumeRefreshToken holds family and row lock, row validated *)
(* issuing    it decided to issue; the child row is not committed yet      *)
(* auditing   refused by the grace; its audit row needs a connection       *)
(* revoking   revokeRefreshGrant waits for the family lock                 *)
(* ending     RevokeRefreshFamily, under the family lock, and tombstone    *)
(* deleting   RequestDeletion has marked the user; user-wide UPDATE        *)
(* repeating  RequestDeletion of a user already pending: the UPDATE only   *)
(* purging    CleanupRunner.DeleteUser has marked the user; DELETE         *)
(***************************************************************************)
PC == {"idle", "granting", "validated", "redeeming", "locked", "loaded", "issuing",
       "auditing", "revoking", "ending", "deleting", "repeating", "purging"}

Request == [pc     : PC,
            tok    : Tokens \cup {Nil},     \* the presented token
            fam    : Families \cup {Nil},
            user   : Users \cup {Nil},
            client : Clients \cup {Nil},
            begun  : Time,                  \* clock read when the transaction began
            at     : Time,                  \* the date it writes under the family lock
            grace  : BOOLEAN,               \* graceChild
            snap   : SUBSET Tokens,         \* rows its UPDATE or DELETE set out to change
            held   : SUBSET Tokens]         \* rows it has locked

Idle == [pc |-> "idle", tok |-> Nil, fam |-> Nil, user |-> Nil, client |-> Nil,
         begun |-> Null, at |-> Null, grace |-> FALSE, snap |-> {}, held |-> {}]

TypeOK ==
  /\ now \in Nat
  /\ rows \in [Tokens -> Row]
  /\ tombs \in [Families -> Time]
  /\ status \in [Users -> Status]
  /\ scheduled \in [Users -> Time]
  /\ req \in [Procs -> Request]
  /\ endedAt \in [Families -> Time]

----------------------------------------------------------------------------
(* Tables and locks.  A definition named X_Bug is X with one mistake in it; *)
(* it belongs to no specification and shows that a property can fail.       *)

Stored(t) == rows[t].state = "stored"

Live(t) == Stored(t) /\ rows[t].revoked = Null

InFamily(f) == {t \in Tokens : rows[t].state # "unissued" /\ rows[t].family = f}

(* Every token ever rotated from t, the removed ones included. *)
Children(t) == {c \in Tokens : rows[c].state # "unissued" /\ rows[c].parent = t}

(* pg_advisory_xact_lock(family), held to the end of the transaction. *)
HasFamily(p) == req[p].pc \in {"locked", "loaded", "issuing", "auditing", "ending"}

FamilyFree_Bug(f) == TRUE

FamilyFree(f) == \A q \in Procs : HasFamily(q) => req[q].fam # f

RowFree(t) == \A q \in Procs : t \notin req[q].held

(* The users row a transaction has updated stays locked until it commits. *)
UserFree(u) == \A q \in Procs : req[q].pc \in {"deleting", "purging"} => req[q].user # u

(* A row that references the user is inserted under FOR KEY SHARE, which   *)
(* waits only for an UPDATE of a unique column: DeleteUser's, of the email *)
(* hash.                                                                   *)
UserKeyFree(u) == \A q \in Procs : req[q].pc = "purging" => req[q].user # u

(* Every open transaction has a connection of the pool. *)
InTransaction == {p \in Procs : req[p].pc \notin {"idle", "validated"}}

ConnFree == MaxConns = 0 \/ Cardinality(InTransaction) < MaxConns

(* UPDATE ... SET revoked_at = at WHERE <in S> AND revoked_at IS NULL *)
RevokeLive(S, at) ==
  [t \in Tokens |-> IF t \in S /\ Live(t) THEN [rows[t] EXCEPT !.revoked = at]
                                          ELSE rows[t]]

(* tombstoneRefreshFamily: ON CONFLICT (family_id) DO NOTHING *)
Tombstone(f, at) ==
  /\ tombs' = [tombs EXCEPT ![f] = IF @ = Null THEN at ELSE @]
  /\ endedAt' = [endedAt EXCEPT ![f] = IF @ = Null THEN now ELSE @]

Finish(p) == req' = [req EXCEPT ![p] = Idle]

(* Bound: a request that may insert a row starts only while a row and a     *)
(* family id remain for it, so that no request stops for want of an id.     *)
Room ==
  LET busy == {p \in Procs : req[p].pc \in {"granting", "validated", "redeeming",
                                            "locked", "loaded", "issuing"}}
  IN  Cardinality(busy) < Cardinality({t \in Tokens : rows[t].state = "unissued"})

FamilyRoom ==
  Cardinality({p \in Procs : req[p].pc = "granting"})
    < Cardinality({f \in Families : InFamily(f) = {}})

----------------------------------------------------------------------------
Init ==
  /\ now = 0
  /\ rows = [t \in Tokens |-> NoRow]
  /\ tombs = [f \in Families |-> Null]
  /\ status = [u \in Users |-> "active"]
  /\ scheduled = [u \in Users |-> Null]
  /\ req = [p \in Procs |-> Idle]
  /\ endedAt = [f \in Families |-> Null]

(* A transaction has MaxWait ticks from its first clock reading. *)
Tick ==
  /\ now < MaxTime
  /\ \A p \in Procs : req[p].pc # "idle" => now < req[p].begun + MaxWait
  /\ now' = now + 1
  /\ UNCHANGED <<rows, tombs, status, scheduled, req, endedAt>>

----------------------------------------------------------------------------
(* A fresh grant                                                           *)

(***************************************************************************)
(* AuthRequestByCode / resolveDeviceAuthorization checked the user; the    *)
(* issuing transaction does not look at the user again.                    *)
(***************************************************************************)
GrantBegin(p, u, c) ==
  /\ req[p].pc = "idle"
  /\ Room /\ FamilyRoom /\ ConnFree
  /\ status[u] = "active"
  /\ req' = [req EXCEPT ![p] = [Idle EXCEPT !.pc = "granting", !.user = u,
                                            !.client = c, !.begun = now]]
  /\ UNCHANGED <<now, rows, tombs, status, scheduled, endedAt>>

(* Subtracts the lifetime. *)
GrantCommit_Bug(p, t, f) ==
  /\ req[p].pc = "granting"
  /\ UserKeyFree(req[p].user)
  /\ rows[t].state = "unissued"
  /\ InFamily(f) = {}
  /\ rows' = [rows EXCEPT ![t] =
       [state |-> "stored", family |-> f, user |-> req[p].user,
        client |-> req[p].client, parent |-> Nil,
        expires |-> req[p].begun - RefreshTTL, revoked |-> Null, used |-> Null]]
  /\ Finish(p)
  /\ UNCHANGED <<now, tombs, status, scheduled, endedAt>>

GrantCommit(p, t, f) ==
  /\ req[p].pc = "granting"
  /\ UserKeyFree(req[p].user)
  /\ rows[t].state = "unissued"
  /\ InFamily(f) = {}
  /\ rows' = [rows EXCEPT ![t] =
       [state |-> "stored", family |-> f, user |-> req[p].user,
        client |-> req[p].client, parent |-> Nil,
        expires |-> req[p].begun + RefreshTTL, revoked |-> Null, used |-> Null]]
  /\ Finish(p)
  /\ UNCHANGED <<now, tombs, status, scheduled, endedAt>>

----------------------------------------------------------------------------
(* Redemption of a refresh token                                           *)

(* validateRefreshTokenRequest.  A refusal by resource or access policy is  *)
(* a rollback, like any other error: Rollback below.                        *)
Redeemable(t) ==
  /\ now < rows[t].expires
  /\ status[rows[t].user] = "active"

(* A refusal here changes nothing. *)
TokenRequestByRefreshToken(p, t) ==
  /\ req[p].pc = "idle"
  /\ Room /\ ConnFree
  /\ Stored(t)
  /\ RowFree(t)
  /\ Redeemable(t)
  /\ req' = [req EXCEPT ![p] = [Idle EXCEPT !.pc = "validated", !.tok = t,
                                            !.begun = now]]
  /\ UNCHANGED <<now, rows, tombs, status, scheduled, endedAt>>

(* Finds the family with FOR UPDATE. *)
RedeemBegin_Bug(p) ==
  LET t == req[p].tok IN
  /\ req[p].pc = "validated"
  /\ RowFree(t)
  /\ IF Stored(t)
     THEN req' = [req EXCEPT ![p] = [Idle EXCEPT !.pc = "redeeming", !.tok = t, !.held = {t},
                                        !.fam = rows[t].family, !.begun = now]]
     ELSE Finish(p)
  /\ UNCHANGED <<now, rows, tombs, status, scheduled, endedAt>>

(* CreateAccessAndRefreshTokens reads the clock, begins its transaction and *)
(* finds the family; a row that is gone is refused.                         *)
RedeemBegin(p) ==
  LET t == req[p].tok IN
  /\ req[p].pc = "validated"
  /\ ConnFree
  /\ IF Stored(t)
     THEN req' = [req EXCEPT ![p] = [Idle EXCEPT !.pc = "redeeming", !.tok = t,
                                        !.fam = rows[t].family, !.begun = now]]
     ELSE Finish(p)
  /\ UNCHANGED <<now, rows, tombs, status, scheduled, endedAt>>

(* LockRefreshFamily *)
RedeemLock(p) ==
  /\ req[p].pc = "redeeming"
  /\ FamilyFree(req[p].fam)
  /\ req' = [req EXCEPT ![p].pc = "locked"]
  /\ UNCHANGED <<now, rows, tombs, status, scheduled, endedAt>>

(* A refused request leaves its transaction open. *)
RedeemLoad_Bug(p) ==
  LET t == req[p].tok IN
  /\ req[p].pc = "locked"
  /\ RowFree(t)
  /\ Stored(t) /\ Redeemable(t)
  /\ req' = [req EXCEPT ![p].pc = "loaded", ![p].at = now, ![p].held = {t},
                        ![p].user = rows[t].user]
  /\ UNCHANGED <<now, rows, tombs, status, scheduled, endedAt>>

(* loadRefreshTokenForUpdate, validateRefreshTokenRequest *)
RedeemLoad(p) ==
  LET t == req[p].tok IN
  /\ req[p].pc = "locked"
  /\ RowFree(t)
  /\ IF Stored(t) /\ Redeemable(t)
     THEN req' = [req EXCEPT ![p].pc = "loaded", ![p].at = now, ![p].held = {t},
                            ![p].user = rows[t].user]
     ELSE Finish(p)
  /\ UNCHANGED <<now, rows, tombs, status, scheduled, endedAt>>

UsedOrRevoked(t) == rows[t].revoked # Null \/ rows[t].used # Null

(* HasRevokedUnredeemedRefreshTokenInFamily *)
RevokedOnPurpose(f) ==
  \E t \in InFamily(f) : Stored(t) /\ rows[t].revoked # Null /\ rows[t].used = Null

(* refreshReuseGraceDecision: everything but the number of children. *)
GraceApplies(t, at) ==
  /\ ReuseGrace > 0
  /\ rows[t].used # Null
  /\ rows[t].revoked = rows[t].used
  /\ rows[t].client \in GraceClients
  /\ at - rows[t].used <= ReuseGrace
  /\ tombs[rows[t].family] = Null
  /\ ~RevokedOnPurpose(rows[t].family)

(* CountRefreshTokenChildren counts rows, so only the stored children. *)
GraceExhausted(t) ==
  Cardinality({c \in Children(t) : Stored(c)}) >= MaxIssued

Replayed(t) == UsedOrRevoked(t) \/ tombs[rows[t].family] # Null

(* Relies on the first check: a row redeemed meanwhile is issued for again. *)
DecideIssue_Bug(p) ==
  /\ req[p].pc = "loaded"
  /\ req' = [req EXCEPT ![p].pc = "issuing"]
  /\ UNCHANGED <<now, rows, tombs, status, scheduled, endedAt>>

(* The grace for everyone. *)
DecideIssueGrace_Bug(p) ==
  /\ req[p].pc = "loaded"
  /\ req' = [req EXCEPT ![p].pc = "issuing", ![p].grace = Replayed(req[p].tok)]
  /\ UNCHANGED <<now, rows, tombs, status, scheduled, endedAt>>

(* Redeem the token, for the first time or under the grace. *)
DecideIssue(p) ==
  LET t == req[p].tok IN
  /\ req[p].pc = "loaded"
  /\ Replayed(t) => GraceApplies(t, req[p].at) /\ ~GraceExhausted(t)
  /\ req' = [req EXCEPT ![p].pc = "issuing", ![p].grace = Replayed(t)]
  /\ UNCHANGED <<now, rows, tombs, status, scheduled, endedAt>>

(* graceRefuse: refused, the family is left alone. *)
DecideGraceRefuse(p) ==
  LET t == req[p].tok IN
  /\ req[p].pc = "loaded"
  /\ Replayed(t)
  /\ GraceApplies(t, req[p].at)
  /\ GraceExhausted(t)
  /\ req' = [req EXCEPT ![p].pc = "auditing"]
  /\ UNCHANGED <<now, rows, tombs, status, scheduled, endedAt>>

(* auditRefreshReuseGrace writes through the pool, and only then does the   *)
(* deferred rollback end the transaction.                                   *)
AuditGraceRefusal(p) ==
  /\ req[p].pc = "auditing"
  /\ ConnFree
  /\ Finish(p)
  /\ UNCHANGED <<now, rows, tombs, status, scheduled, endedAt>>

LiveIn(f) == {t \in InFamily(f) : Live(t)}

(* Revokes the presented token instead of its family. *)
DetectReuse_Bug(p) ==
  LET t == req[p].tok IN
  /\ req[p].pc = "loaded"
  /\ Replayed(t)
  /\ ~GraceApplies(t, req[p].at)
  /\ req' = [req EXCEPT ![p].pc = "ending", ![p].snap = LiveIn(req[p].fam) \cap {t}]
  /\ UNCHANGED <<now, rows, tombs, status, scheduled, endedAt>>

(* Refuses the replay without revoking anything. *)
DetectReuseRefuse_Bug(p) ==
  LET t == req[p].tok IN
  /\ req[p].pc = "loaded"
  /\ Replayed(t)
  /\ ~GraceApplies(t, req[p].at)
  /\ Finish(p)
  /\ UNCHANGED <<now, rows, tombs, status, scheduled, endedAt>>

(* Reuse detection: revokeRefreshFamilyOnReuse starts. *)
DetectReuse(p) ==
  LET t == req[p].tok IN
  /\ req[p].pc = "loaded"
  /\ Replayed(t)
  /\ ~GraceApplies(t, req[p].at)
  /\ req' = [req EXCEPT ![p].pc = "ending", ![p].snap = LiveIn(req[p].fam)]
  /\ UNCHANGED <<now, rows, tombs, status, scheduled, endedAt>>

(* Commit of the rotation: the parent is used and revoked in one step (a   *)
(* grace child leaves the parent as it is), the child inherits everything. *)
IssueChild(p, c) ==
  LET t == req[p].tok
      marked == [rows EXCEPT ![t].used = req[p].at, ![t].revoked = req[p].at]
  IN
  /\ req[p].pc = "issuing"
  /\ UserKeyFree(req[p].user)
  /\ rows[c].state = "unissued"
  /\ rows' = [(IF req[p].grace THEN rows ELSE marked) EXCEPT ![c] =
       [state |-> "stored", family |-> rows[t].family, user |-> rows[t].user,
        client |-> rows[t].client, parent |-> t,
        expires |-> req[p].begun + RefreshTTL, revoked |-> Null, used |-> Null]]
  /\ Finish(p)
  /\ UNCHANGED <<now, tombs, status, scheduled, endedAt>>

----------------------------------------------------------------------------
(* /oauth/revoke                                                           *)

(* lookupRefreshGrant; an unknown token, or another client's, is a no-op. *)
RevokeBegin(p, t, c) ==
  /\ req[p].pc = "idle"
  /\ ConnFree
  /\ Stored(t)
  /\ rows[t].client = c
  /\ req' = [req EXCEPT ![p] = [Idle EXCEPT !.pc = "revoking", !.begun = now, !.at = now,
                                  !.fam = rows[t].family, !.user = rows[t].user]]
  /\ UNCHANGED <<now, rows, tombs, status, scheduled, endedAt>>

(* LockRefreshFamily; RevokeRefreshFamily starts. *)
RevokeLock(p) ==
  /\ req[p].pc = "revoking"
  /\ FamilyFree(req[p].fam)
  /\ req' = [req EXCEPT ![p].pc = "ending", ![p].snap = LiveIn(req[p].fam)]
  /\ UNCHANGED <<now, rows, tombs, status, scheduled, endedAt>>

----------------------------------------------------------------------------
(* Statements over several rows                                            *)

(* What the WHERE clause asks of a row, again when its lock is granted. *)
Matches(p, t) == IF req[p].pc = "purging" THEN Stored(t) ELSE Live(t)

(* The rows are locked one after the other, in no order that SQL promises; *)
(* one that does not match any more is passed over.                        *)
LockRow(p, t) ==
  /\ t \in req[p].snap \ req[p].held
  /\ RowFree(t)
  /\ req' = IF Matches(p, t) THEN [req EXCEPT ![p].held = @ \cup {t}]
                             ELSE [req EXCEPT ![p].snap = @ \ {t}]
  /\ UNCHANGED <<now, rows, tombs, status, scheduled, endedAt>>

AllLocked(p) == req[p].snap \subseteq req[p].held

(* RevokeRefreshFamily is done; tombstoneRefreshFamily, commit. *)
EndFamily(p) ==
  /\ req[p].pc = "ending"
  /\ AllLocked(p)
  /\ UserKeyFree(req[p].user)
  /\ rows' = RevokeLive(req[p].snap, req[p].at)
  /\ Tombstone(req[p].fam, req[p].at)
  /\ Finish(p)
  /\ UNCHANGED <<now, status, scheduled>>

----------------------------------------------------------------------------
(* User lifecycle                                                          *)

LiveOf(u) == {t \in Tokens : Live(t) /\ rows[t].user = u}

(***************************************************************************)
(* RequestDeletion updates the users row, if it is active, and starts the  *)
(* user-wide UPDATE of refresh_tokens.  That statement takes no family     *)
(* lock: it sees the rows committed when it starts.                        *)
(***************************************************************************)
RequestDeletionBegin(p, u) ==
  /\ req[p].pc = "idle"
  /\ ConnFree
  /\ \E pc \in {"deleting", "repeating"} :
       /\ IF pc = "deleting" THEN UserFree(u) /\ status[u] = "active"
                             ELSE status[u] = "pending_deletion"
       /\ req' = [req EXCEPT ![p] = [Idle EXCEPT !.pc = pc, !.user = u, !.begun = now,
                                                 !.snap = LiveOf(u)]]
  /\ UNCHANGED <<now, rows, tombs, status, scheduled, endedAt>>

RequestDeletionCommit(p) ==
  LET u == req[p].user IN
  /\ req[p].pc \in {"deleting", "repeating"}
  /\ AllLocked(p)
  /\ rows' = RevokeLive(req[p].snap, req[p].begun)
  /\ IF req[p].pc = "deleting"
     THEN /\ status' = [status EXCEPT ![u] = "pending_deletion"]
          /\ scheduled' = [scheduled EXCEPT ![u] = req[p].begun + DeletionDelay]
     ELSE UNCHANGED <<status, scheduled>>
  /\ Finish(p)
  /\ UNCHANGED <<now, tombs, endedAt>>

RecoverUser(u) ==
  /\ UserFree(u)
  /\ status[u] = "pending_deletion"
  /\ status' = [status EXCEPT ![u] = "active"]
  /\ scheduled' = [scheduled EXCEPT ![u] = Null]
  /\ UNCHANGED <<now, rows, tombs, req, endedAt>>

(* The unconditional UPDATE behind DisableUser and SetUserStatus: an        *)
(* operator closes an account or opens it again.                            *)
SetUserStatus(u, s) ==
  /\ UserFree(u)
  /\ status[u] # s
  /\ status' = [status EXCEPT ![u] = s]
  /\ UNCHANGED <<now, rows, tombs, scheduled, req, endedAt>>

----------------------------------------------------------------------------
(* Cleanup; every row on its own, as batches and failed steps allow.  The   *)
(* rows that a batch has locked while it waits for others are left out.     *)

Purge(S) == [t \in Tokens |-> IF t \in S /\ Stored(t)
                              THEN [rows[t] EXCEPT !.state = "purged"]
                              ELSE rows[t]]

(* No retention: the cutoff is the current time. *)
DeleteRevokedRefreshToken_Bug(t) ==
  /\ Stored(t)
  /\ RowFree(t)
  /\ rows[t].revoked # Null
  /\ rows[t].revoked < now
  /\ rows' = Purge({t})
  /\ UNCHANGED <<now, tombs, status, scheduled, req, endedAt>>

DeleteRevokedRefreshToken(t) ==
  /\ Stored(t)
  /\ RowFree(t)
  /\ rows[t].revoked # Null
  /\ rows[t].revoked < now - RevokedRetention
  /\ rows' = Purge({t})
  /\ UNCHANGED <<now, tombs, status, scheduled, req, endedAt>>

DeleteExpiredRefreshToken(t) ==
  /\ Stored(t)
  /\ RowFree(t)
  /\ rows[t].expires < now - ExpiredRetention
  /\ rows' = Purge({t})
  /\ UNCHANGED <<now, tombs, status, scheduled, req, endedAt>>

DeleteStaleRefreshTokenFamily(f) ==
  /\ tombs[f] # Null
  /\ tombs[f] < now - (RefreshTTL + TombstoneMargin)
  /\ tombs' = [tombs EXCEPT ![f] = Null]
  /\ UNCHANGED <<now, rows, status, scheduled, req, endedAt>>

(* Does not wait for deletion_scheduled_at. *)
DeleteUserBegin_Bug(p, u) ==
  /\ req[p].pc = "idle"
  /\ UserFree(u)
  /\ status[u] = "pending_deletion"
  /\ req' = [req EXCEPT ![p] = [Idle EXCEPT !.pc = "purging", !.user = u, !.begun = now,
                 !.snap = {t \in Tokens : Stored(t) /\ rows[t].user = u}]]
  /\ UNCHANGED <<now, rows, tombs, status, scheduled, endedAt>>

(* CleanupRunner.DeleteUser: the guarded UPDATE, then the DELETE starts. *)
DeleteUserBegin(p, u) ==
  /\ req[p].pc = "idle"
  /\ ConnFree
  /\ UserFree(u)
  /\ status[u] = "pending_deletion"
  /\ scheduled[u] < now
  /\ req' = [req EXCEPT ![p] = [Idle EXCEPT !.pc = "purging", !.user = u, !.begun = now,
                 !.snap = {t \in Tokens : Stored(t) /\ rows[t].user = u}]]
  /\ UNCHANGED <<now, rows, tombs, status, scheduled, endedAt>>

DeleteUserCommit(p) ==
  LET u == req[p].user IN
  /\ req[p].pc = "purging"
  /\ AllLocked(p)
  /\ rows' = Purge(req[p].snap)
  /\ status' = [status EXCEPT ![u] = "deleted"]
  /\ scheduled' = [scheduled EXCEPT ![u] = Null]
  /\ Finish(p)
  /\ UNCHANGED <<now, tombs, endedAt>>

----------------------------------------------------------------------------
(* A crash, a cancelled request, a database error, a refusal by policy or  *)
(* scope: the deferred tx.Rollback() drops the writes and the locks.       *)
Rollback(p) ==
  /\ MayFail
  /\ req[p].pc # "idle"
  /\ Finish(p)
  /\ UNCHANGED <<now, rows, tombs, status, scheduled, endedAt>>

(* p waits for a lock that q holds. *)
Blocks(q, p) ==
  /\ q # p
  /\ \/ req[p].pc \in {"redeeming", "revoking"} /\ HasFamily(q) /\ req[q].fam = req[p].fam
     \/ req[p].pc = "locked" /\ req[p].tok \in req[q].held
     \/ \E t \in req[p].snap \ req[p].held : t \in req[q].held
     \/ /\ req[p].pc \in {"granting", "issuing", "ending"} /\ AllLocked(p)
        /\ req[q].pc = "purging" /\ req[q].user = req[p].user

(* Everyone in S waits for someone in S. *)
Deadlocked(S) == S # {} /\ \A p \in S : \E q \in S : Blocks(q, p)

(* Postgres: after deadlock_timeout one of the waiting transactions fails. *)
BreakDeadlock(p) ==
  /\ \E S \in SUBSET Procs : p \in S /\ Deadlocked(S)
  /\ Finish(p)
  /\ UNCHANGED <<now, rows, tombs, status, scheduled, endedAt>>

Grant(p) ==
  \/ \E u \in Users, c \in Clients : GrantBegin(p, u, c)
  \/ \E t \in Tokens, f \in Families : GrantCommit(p, t, f)

Redeem(p) ==
  \/ \E t \in Tokens : TokenRequestByRefreshToken(p, t)
  \/ RedeemBegin(p)
  \/ RedeemLock(p)
  \/ RedeemLoad(p)
  \/ DecideIssue(p)
  \/ DecideGraceRefuse(p)
  \/ AuditGraceRefusal(p)
  \/ DetectReuse(p)
  \/ \E c \in Tokens : IssueChild(p, c)

RevokeToken(p) ==
  \/ \E t \in Tokens, c \in Clients : RevokeBegin(p, t, c)
  \/ RevokeLock(p)

RequestDeletion(p) ==
  \/ \E u \in Users : RequestDeletionBegin(p, u)
  \/ RequestDeletionCommit(p)

DeleteUser(p) ==
  \/ \E u \in Users : DeleteUserBegin(p, u)
  \/ DeleteUserCommit(p)

Lifecycle(u) ==
  \/ RecoverUser(u)
  \/ \E s \in AdminStatuses : SetUserStatus(u, s)

Cleanup ==
  \/ \E t \in Tokens : DeleteRevokedRefreshToken(t) \/ DeleteExpiredRefreshToken(t)
  \/ \E f \in Families : DeleteStaleRefreshTokenFamily(f)

Next ==
  \/ Tick
  \/ \E p \in Procs : \/ Grant(p) \/ Redeem(p) \/ RevokeToken(p)
                      \/ (\E t \in Tokens : LockRow(p, t)) \/ EndFamily(p)
                      \/ RequestDeletion(p) \/ DeleteUser(p)
                      \/ BreakDeadlock(p) \/ Rollback(p)
  \/ \E u \in Users : Lifecycle(u)
  \/ Cleanup

Spec == Init /\ [][Next]_vars

(***************************************************************************)
(* Fairness: a handler that can run runs on.  Advisory and row locks are   *)
(* granted in queue order by Postgres and connections by database/sql,     *)
(* hence strong fairness for the steps that wait for one.                  *)
(***************************************************************************)
Progress(p) ==
  \/ DecideIssue(p)
  \/ DecideGraceRefuse(p)
  \/ DetectReuse(p)
  \/ RequestDeletionCommit(p)
  \/ DeleteUserCommit(p)
  \/ BreakDeadlock(p)

WaitingStep(p) ==
  \/ \E t \in Tokens, f \in Families : GrantCommit(p, t, f)
  \/ RedeemBegin(p)
  \/ RedeemLock(p)
  \/ RedeemLoad(p)
  \/ AuditGraceRefusal(p)
  \/ \E c \in Tokens : IssueChild(p, c)
  \/ RevokeLock(p)
  \/ \E t \in Tokens : LockRow(p, t)
  \/ EndFamily(p)

Fairness == \A p \in Procs : WF_vars(Progress(p)) /\ SF_vars(WaitingStep(p))

FairSpec == Spec /\ Fairness

----------------------------------------------------------------------------
(* Properties                                                              *)

(* A family that reuse detection or /oauth/revoke has ended never holds a  *)
(* usable token again: no rotation in flight, grace or cleanup of its      *)
(* tombstone brings it back (consumeRefreshToken, revokeRefreshGrant).     *)
EndedFamilyStaysDead ==
  \A f \in Families : endedAt[f] # Null => \A t \in InFamily(f) : ~Live(t)

(* A public client's grant is one chain: concurrent redemptions of one     *)
(* token never leave two usable tokens behind.                             *)
PublicGrantIsLinear ==
  \A s, t \in Tokens :
    /\ Live(s) /\ Live(t)
    /\ rows[s].family = rows[t].family
    /\ rows[s].client \notin GraceClients
    => s = t

(* However often and however concurrently a token is presented, it yields  *)
(* at most one token, or MaxIssued under the grace, over its whole life:   *)
(* children that cleanup removed count too (refreshReuseGraceDecision).    *)
ChildrenBounded ==
  \A t \in Tokens :
    Cardinality(Children(t)) <= IF rows[t].client \in GraceClients THEN MaxIssued ELSE 1

KeepsRevocations ==
  \A t \in Tokens :
    rows[t].revoked # Null =>
      /\ rows'[t].revoked = rows[t].revoked
      /\ rows'[t].used = rows[t].used

(* used_at and revoked_at are written once, also when a user-wide          *)
(* revocation races a rotation: a rotation never claims a row another      *)
(* request revoked, a revocation never re-dates a redeemed one.            *)
RevocationIsFinal == [][KeepsRevocations]_vars

(* DeleteUser leaves no refresh token behind, although grants and rotations *)
(* that passed their user check earlier may still be in flight.             *)
DeletedUserHasNoTokens ==
  \A t \in Tokens : Stored(t) => status[rows[t].user] # "deleted"

(* Redemptions and revocations take the family lock before any row, so     *)
(* that they never wait for each other in a circle.  A circle of requests  *)
(* needs one of the statements that go by user and not by family.          *)
FamilyLockOrders ==
  \A S \in SUBSET Procs :
    Deadlocked(S) => \E p \in S : req[p].pc \in {"deleting", "repeating", "purging"}

(* Every request ends, or Postgres ends it: locks, taken one by one, are    *)
(* given back in the end, and nobody waits for a connection for ever.       *)
RequestsFinish == \A p \in Procs : req[p].pc # "idle" ~> req[p].pc = "idle"

(* A public client's redeemed token that is presented again ends the       *)
(* family, unless the token or the account became unusable first.          *)
ReplayEndsFamily ==
  \A p \in Procs, t \in Tokens, f \in Families :
    /\ req[p].pc = "redeeming" /\ req[p].tok = t /\ req[p].fam = f
    /\ rows[t].used # Null /\ rows[t].client \notin GraceClients
    ~> endedAt[f] # Null \/ ~Stored(t) \/ ~Redeemable(t)

(***************************************************************************)
(* The store implements the grants of RefreshGrants: a usable token is a   *)
(* stored row without revoked_at.                                          *)
(***************************************************************************)
Kind(f) ==
  IF InFamily(f) = {} THEN "closed"
  ELSE IF \E t \in InFamily(f) : rows[t].client \in GraceClients THEN "lenient"
  ELSE "strict"

Grants == INSTANCE RefreshGrants WITH
  live  <- [f \in Families |-> {t \in InFamily(f) : Live(t)}],
  spent <- {t \in Tokens : rows[t].state # "unissued"},
  kind  <- [f \in Families |-> Kind(f)],
  ended <- {f \in Families : endedAt[f] # Null}

(* Every step of the transactions is a step of the abstract grants, or     *)
(* invisible to them.                                                      *)
ImplementsGrants == Grants!Spec

=============================================================================
