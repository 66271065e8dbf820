------------------------ MODULE RefreshTokensProofs ------------------------
(***************************************************************************)
(* Proofs about RefreshTokens, for every number of tokens, families,       *)
(* users, clients and concurrent requests and for all durations that       *)
(* satisfy RetentionAssumption.                                            *)
(***************************************************************************)
EXTENDS RefreshTokens, TLAPS

USE DEF Null, Time

(* Requests in these states carry the presented token. *)
Presents(p) == req[p].pc \in {"validated", "redeeming", "locked", "loaded", "issuing"}

TokenPresented == \A p \in Procs : Presents(p) => req[p].tok \in Tokens

Typed == TypeOK /\ TokenPresented

LEMMA TypedInit == Init => Typed
BY TimeAssumption DEF Init, Typed, TypeOK, TokenPresented, Presents, Row, NoRow,
  Status, Request, Idle, PC

(* RevokeLive and Purge keep the table a table. *)
LEMMA RevokeLiveType ==
  ASSUME TypeOK, NEW S, NEW at \in Time
  PROVE  RevokeLive(S, at) \in [Tokens -> Row]
BY DEF RevokeLive, TypeOK, Row, Live, Stored

LEMMA PurgeType ==
  ASSUME TypeOK, NEW S
  PROVE  Purge(S) \in [Tokens -> Row]
BY DEF Purge, TypeOK, Row, Stored

LEMMA FinishType ==
  ASSUME Typed, NEW p \in Procs, Finish(p)
  PROVE  /\ req' \in [Procs -> Request]
         /\ TokenPresented'
BY DEF Finish, Typed, TypeOK, TokenPresented, Presents, Request, Idle, PC

LEMMA TombstoneType ==
  ASSUME TypeOK, NEW f, NEW at \in Time, Tombstone(f, at)
  PROVE  tombs' \in [Families -> Time] /\ endedAt' \in [Families -> Time]
BY DEF Tombstone, TypeOK

LEMMA TypedStep == Typed /\ [Next]_vars => Typed'
<1> SUFFICES ASSUME Typed, [Next]_vars PROVE Typed' OBVIOUS
<1> USE DEF Typed
<1>1. CASE Tick
  BY <1>1 DEF Tick, TypeOK, TokenPresented, Presents
<1>2. ASSUME NEW p \in Procs, NEW u \in Users, NEW c \in Clients, GrantBegin(p, u, c)
      PROVE  Typed'
  BY <1>2 DEF GrantBegin, TypeOK, TokenPresented, Presents, Request, Idle, PC
<1>3. ASSUME NEW p \in Procs, NEW t \in Tokens, NEW f \in Families, GrantCommit(p, t, f)
      PROVE  Typed'
  <2>1. req[p].begun + RefreshTTL \in Time
    BY TimeAssumption DEF TypeOK, Request
  <2>2. rows' \in [Tokens -> Row]
    BY <1>3, <2>1 DEF GrantCommit, TypeOK, Row, Request
  <2> QED BY <1>3, <2>2, FinishType DEF GrantCommit, TypeOK
<1>4. ASSUME NEW p \in Procs, NEW t \in Tokens, TokenRequestByRefreshToken(p, t)
      PROVE  Typed'
  BY <1>4 DEF TokenRequestByRefreshToken, TypeOK, TokenPresented, Presents, Request, Idle, PC
<1>5. ASSUME NEW p \in Procs, RedeemBegin(p) PROVE Typed'
  <2>1. CASE Stored(req[p].tok)
    <3>1. rows[req[p].tok].family \in Families \cup {Nil} /\ req[p].tok \in Tokens
      BY <1>5 DEF RedeemBegin, TypeOK, TokenPresented, Presents, Row
    <3> DEFINE r == [Idle EXCEPT !.pc = "redeeming", !.tok = req[p].tok,
                       !.fam = rows[req[p].tok].family, !.begun = now]
    <3>2. r \in Request /\ r.tok = req[p].tok
      BY <3>1 DEF TypeOK, Request, Idle, PC
    <3> HIDE DEF r
    <3>3. req' = [req EXCEPT ![p] = r] /\ UNCHANGED <<now, rows, tombs, status, scheduled, endedAt>>
      BY <1>5, <2>1 DEF RedeemBegin, r
    <3> QED BY <3>1, <3>2, <3>3 DEF TypeOK, TokenPresented, Presents
  <2>2. CASE ~Stored(req[p].tok)
    BY <1>5, <2>2, FinishType DEF RedeemBegin, TypeOK
  <2> QED BY <2>1, <2>2
<1>6. ASSUME NEW p \in Procs, RedeemLoad(p) PROVE Typed'
  <2>1. CASE Stored(req[p].tok) /\ Redeemable(req[p].tok)
    <3>1. req[p].pc = "locked" /\ req[p].tok \in Tokens
      BY <1>6 DEF RedeemLoad, TokenPresented, Presents
    <3>2. rows[req[p].tok].user \in Users \cup {Nil}
      BY <3>1 DEF TypeOK, Row
    <3> DEFINE u == rows[req[p].tok].user
               r == [req[p] EXCEPT !.pc = "loaded", !.at = now, !.held = {req[p].tok}, !.user = u]
    <3>3. req' = [req EXCEPT ![p].pc = "loaded", ![p].at = now, ![p].held = {req[p].tok},
                             ![p].user = u]
      BY <1>6, <2>1 DEF RedeemLoad
    <3> HIDE DEF u
    <3>4. r \in Request
      <4>1. u \in Users \cup {Nil} /\ now \in Time /\ {req[p].tok} \in SUBSET Tokens
            /\ req[p] \in Request
        BY <3>1, <3>2 DEF u, TypeOK
      <4> QED BY <4>1 DEF Request, PC
    <3>5. req' = [req EXCEPT ![p] = r] /\ r.tok = req[p].tok
      BY <3>3 DEF TypeOK, Request
    <3>6. UNCHANGED <<now, rows, tombs, status, scheduled, endedAt>>
      BY <1>6 DEF RedeemLoad
    <3> HIDE DEF r
    <3> QED BY <3>1, <3>4, <3>5, <3>6 DEF TypeOK, TokenPresented, Presents
  <2>2. CASE ~(Stored(req[p].tok) /\ Redeemable(req[p].tok))
    BY <1>6, <2>2, FinishType DEF RedeemLoad, TypeOK
  <2> QED BY <2>1, <2>2
<1>7. ASSUME NEW p \in Procs, DecideIssue(p) PROVE Typed'
  <2> DEFINE g == Replayed(req[p].tok)
  <2>1. g \in BOOLEAN
    BY DEF Replayed, UsedOrRevoked
  <2> HIDE DEF g
  <2>2. /\ req[p].pc = "loaded"
        /\ req' = [req EXCEPT ![p].pc = "issuing", ![p].grace = g]
        /\ UNCHANGED <<now, rows, tombs, status, scheduled, endedAt>>
    BY <1>7 DEF DecideIssue, g
  <2>3. [req[p] EXCEPT !.pc = "issuing", !.grace = g] \in Request
    BY <2>1 DEF TypeOK, Request, PC
  <2>4. req' = [req EXCEPT ![p] = [req[p] EXCEPT !.pc = "issuing", !.grace = g]]
    BY <2>2 DEF TypeOK, Request
  <2>5. req' \in [Procs -> Request]
    BY <2>3, <2>4 DEF TypeOK
  <2>6. req[p].tok \in Tokens
    BY <2>2 DEF TokenPresented, Presents
  <2>7. \A q \in Procs : req'[q].tok = req[q].tok /\ (q # p => req'[q] = req[q])
    BY <2>2 DEF TypeOK, Request
  <2> QED BY <2>2, <2>5, <2>6, <2>7 DEF TypeOK, TokenPresented, Presents
<1>8. ASSUME NEW p \in Procs,
             RedeemLock(p) \/ DecideGraceRefuse(p) \/ AuditGraceRefusal(p)
      PROVE  Typed'
  <2>1. CASE RedeemLock(p)
    BY <2>1 DEF RedeemLock, TypeOK, TokenPresented, Presents, Request, PC
  <2>2. CASE DecideGraceRefuse(p)
    BY <2>2 DEF DecideGraceRefuse, TypeOK, TokenPresented, Presents, Request, PC
  <2>3. CASE AuditGraceRefusal(p)
    BY <2>3, FinishType DEF AuditGraceRefusal, TypeOK
  <2> QED BY <1>8, <2>1, <2>2, <2>3
<1>9. ASSUME NEW p \in Procs, DetectReuse(p) \/ RevokeLock(p) PROVE Typed'
  <2>1. LiveIn(req[p].fam) \in SUBSET Tokens
    BY DEF LiveIn, InFamily
  <2>2. /\ req' = [req EXCEPT ![p].pc = "ending", ![p].snap = LiveIn(req[p].fam)]
        /\ UNCHANGED <<now, rows, tombs, status, scheduled, endedAt>>
    BY <1>9 DEF DetectReuse, RevokeLock
  <2> DEFINE S == LiveIn(req[p].fam)
             r == [req[p] EXCEPT !.pc = "ending", !.snap = S]
  <2> HIDE DEF S
  <2>3. r \in Request /\ req' = [req EXCEPT ![p] = r] /\ r.pc = "ending"
    BY <2>1, <2>2 DEF S, TypeOK, Request, PC
  <2> HIDE DEF r
  <2> QED BY <2>2, <2>3 DEF TypeOK, TokenPresented, Presents
<1>10. ASSUME NEW p \in Procs, NEW c \in Tokens, IssueChild(p, c) PROVE Typed'
  <2> DEFINE t == req[p].tok
             base == IF req[p].grace THEN rows
                     ELSE [rows EXCEPT ![t].used = req[p].at, ![t].revoked = req[p].at]
  <2>1. t \in Tokens /\ req[p].at \in Time /\ req[p].begun + RefreshTTL \in Time
    BY <1>10, TimeAssumption DEF IssueChild, TokenPresented, Presents, TypeOK, Request
  <2>2. base \in [Tokens -> Row]
    BY <2>1 DEF TypeOK, Row
  <2>3. [state |-> "stored", family |-> rows[t].family, user |-> rows[t].user,
         client |-> rows[t].client, parent |-> t,
         expires |-> req[p].begun + RefreshTTL, revoked |-> Null, used |-> Null] \in Row
    BY <2>1 DEF TypeOK, Row
  <2>4. rows' \in [Tokens -> Row]
    BY <1>10, <2>2, <2>3 DEF IssueChild
  <2> QED BY <1>10, <2>4, FinishType DEF IssueChild, TypeOK
<1>11. ASSUME NEW p \in Procs, NEW t \in Tokens, NEW c \in Clients, RevokeBegin(p, t, c)
       PROVE  Typed'
  <2>1. rows[t].family \in Families \cup {Nil} /\ rows[t].user \in Users \cup {Nil}
    BY DEF TypeOK, Row
  <2> QED BY <1>11, <2>1 DEF RevokeBegin, TypeOK, TokenPresented, Presents, Request, Idle, PC
<1>12. ASSUME NEW p \in Procs, EndFamily(p) PROVE Typed'
  <2>1. req[p].at \in Time
    BY DEF TypeOK, Request
  <2> QED BY <1>12, <2>1, FinishType, RevokeLiveType, TombstoneType DEF EndFamily, TypeOK
<1>13. ASSUME NEW p \in Procs, NEW u \in Users, RequestDeletionBegin(p, u) \/ DeleteUserBegin(p, u)
       PROVE  Typed'
  <2>1. ASSUME NEW S \in SUBSET Tokens, NEW pc \in {"deleting", "repeating", "purging"},
               req' = [req EXCEPT ![p] = [Idle EXCEPT !.pc = pc, !.user = u, !.begun = now,
                                                      !.snap = S]],
               UNCHANGED <<now, rows, tombs, status, scheduled, endedAt>>
        PROVE  Typed'
    BY <2>1 DEF TypeOK, TokenPresented, Presents, Request, Idle, PC
  <2>2. LiveOf(u) \in SUBSET Tokens
    BY DEF LiveOf
  <2>3. CASE RequestDeletionBegin(p, u)
    BY <2>1, <2>2, <2>3 DEF RequestDeletionBegin
  <2>4. CASE DeleteUserBegin(p, u)
    BY <2>1, <2>4 DEF DeleteUserBegin
  <2> QED BY <1>13, <2>3, <2>4
<1>14. ASSUME NEW p \in Procs, RequestDeletionCommit(p) PROVE Typed'
  <2>1. req[p].begun \in Time /\ req[p].begun + DeletionDelay \in Time
    BY TimeAssumption DEF TypeOK, Request
  <2>2. rows' \in [Tokens -> Row]
    BY <1>14, <2>1, RevokeLiveType DEF RequestDeletionCommit
  <2>3. status' \in [Users -> Status] /\ scheduled' \in [Users -> Time]
    BY <1>14, <2>1 DEF RequestDeletionCommit, TypeOK, Status
  <2> QED BY <1>14, <2>2, <2>3, FinishType DEF RequestDeletionCommit, TypeOK
<1>19. ASSUME NEW p \in Procs, DeleteUserCommit(p) PROVE Typed'
  <2>1. rows' \in [Tokens -> Row]
    BY <1>19, PurgeType DEF DeleteUserCommit
  <2>2. status' \in [Users -> Status] /\ scheduled' \in [Users -> Time]
    BY <1>19 DEF DeleteUserCommit, TypeOK, Status
  <2> QED BY <1>19, <2>1, <2>2, FinishType DEF DeleteUserCommit, TypeOK
<1>20. ASSUME NEW p \in Procs, NEW t \in Tokens, LockRow(p, t) PROVE Typed'
  BY <1>20 DEF LockRow, TypeOK, TokenPresented, Presents, Request
<1>15. ASSUME NEW p \in Procs, Rollback(p) \/ BreakDeadlock(p) PROVE Typed'
  BY <1>15, FinishType DEF Rollback, BreakDeadlock, TypeOK
<1>16. ASSUME NEW u \in Users, Lifecycle(u) PROVE Typed'
  <2>1. CASE RecoverUser(u)
    BY <2>1 DEF RecoverUser, TypeOK, Status, TokenPresented, Presents
  <2>2. CASE \E s \in AdminStatuses : SetUserStatus(u, s)
    BY <2>2, AdminAssumption DEF SetUserStatus, TypeOK, Status, TokenPresented, Presents
  <2> QED BY <1>16, <2>1, <2>2 DEF Lifecycle
<1>17. CASE Cleanup
  <2>1. ASSUME NEW t \in Tokens, DeleteRevokedRefreshToken(t) PROVE Typed'
    BY <2>1, PurgeType DEF DeleteRevokedRefreshToken, TypeOK, TokenPresented, Presents
  <2>2. ASSUME NEW t \in Tokens, DeleteExpiredRefreshToken(t) PROVE Typed'
    BY <2>2, PurgeType DEF DeleteExpiredRefreshToken, TypeOK, TokenPresented, Presents
  <2>3. ASSUME NEW f \in Families, DeleteStaleRefreshTokenFamily(f) PROVE Typed'
    BY <2>3 DEF DeleteStaleRefreshTokenFamily, TypeOK, TokenPresented, Presents
  <2> QED BY <1>17, <2>1, <2>2, <2>3 DEF Cleanup
<1>18. CASE UNCHANGED vars
  BY <1>18 DEF vars, TypeOK, TokenPresented, Presents
<1> QED
  BY <1>1, <1>2, <1>3, <1>4, <1>5, <1>6, <1>7, <1>8, <1>9, <1>10, <1>11, <1>12,
     <1>13, <1>14, <1>15, <1>16, <1>17, <1>18, <1>19, <1>20
  DEF Next, Grant, Redeem, RevokeToken, RequestDeletion, DeleteUser

(* The tables and the requests stay well formed in every behaviour of the  *)
(* store: times never leave their range, requests always know their token. *)
THEOREM TypeCorrect == Spec => []TypeOK
<1>1. Typed => TypeOK
  BY DEF Typed
<1> QED BY TypedInit, TypedStep, <1>1, PTL DEF Spec

----------------------------------------------------------------------------
(***************************************************************************)
(* The inductive invariant behind EndedFamilyStaysDead.  It relates the    *)
(* clock, the tombstone and the history: a tombstone is dated at most      *)
(* MaxWait before the family really ended, so by the time cleanup drops it *)
(* no redeemed token of the family is inside the grace any more, not even  *)
(* for a request that read the clock MaxWait ago.                          *)
(***************************************************************************)
RowsWellFormed ==
  \A t \in Tokens :
    /\ rows[t].state = "unissued" => rows[t].revoked = Null
    /\ rows[t].state # "unissued" =>
         /\ rows[t].family \in Families
         /\ rows[t].used # Null => rows[t].revoked = rows[t].used /\ rows[t].used <= now

(* The presented row is locked and has passed its checks. *)
Holds(p) == req[p].pc \in {"loaded", "issuing"}

Timed(p) ==
  req[p].pc # "idle" =>
    /\ req[p].begun \in Nat
    /\ req[p].begun <= now
    /\ now <= req[p].begun + MaxWait
    /\ req[p].pc \in {"loaded", "issuing", "revoking", "ending"} =>
         req[p].begun <= req[p].at /\ req[p].at <= now

KnowsFamily(p) ==
  /\ req[p].pc \in {"redeeming", "locked", "loaded", "issuing"} =>
       rows[req[p].tok].state # "unissued" /\ req[p].fam = rows[req[p].tok].family
  /\ Holds(p) => Stored(req[p].tok)
  /\ req[p].pc \in {"revoking", "ending"} => \E t \in Tokens : t \in InFamily(req[p].fam)

(* The statement of an ending family sets out to revoke all that is live in *)
(* it, and nobody adds to that before its commit.                           *)
KnowsRows(p) ==
  /\ req[p].pc \notin {"ending", "deleting", "repeating", "purging"} => req[p].snap = {}
  /\ req[p].pc \notin {"loaded", "issuing", "auditing", "ending", "deleting", "repeating", "purging"} =>
       req[p].held = {}
  /\ Holds(p) => req[p].tok \in req[p].held
  /\ HasFamily(p) => req[p].held \subseteq InFamily(req[p].fam)
  /\ req[p].pc = "ending" =>
       LiveIn(req[p].fam) \subseteq req[p].snap /\ req[p].snap \subseteq InFamily(req[p].fam)

(* The row under a first redemption is untouched until its commit. *)
RedeemsOnce(p) ==
  req[p].pc = "issuing" /\ ~req[p].grace =>
    rows[req[p].tok].revoked = Null /\ rows[req[p].tok].used = Null

Good(p) == Timed(p) /\ KnowsFamily(p) /\ KnowsRows(p) /\ RedeemsOnce(p)

FamilyLockExclusive ==
  \A p, q \in Procs : HasFamily(p) /\ HasFamily(q) /\ req[p].fam = req[q].fam => p = q

RowLockExclusive ==
  \A p, q \in Procs : \A t \in Tokens : t \in req[p].held /\ t \in req[q].held => p = q

EndedOnce ==
  \A f \in Families :
    /\ tombs[f] # Null => endedAt[f] # Null /\ endedAt[f] <= tombs[f] + MaxWait
    /\ endedAt[f] # Null =>
         /\ endedAt[f] <= now
         /\ \E t \in Tokens : t \in InFamily(f)
         /\ \A t \in InFamily(f) : ~Live(t) /\ rows[t].used <= endedAt[f]
         /\ \A p \in Procs : req[p].pc = "issuing" => req[p].fam # f
         /\ tombs[f] = Null => endedAt[f] + ReuseGrace + MaxWait < now

Rest == /\ RowsWellFormed /\ (\A p \in Procs : Good(p))
        /\ FamilyLockExclusive /\ RowLockExclusive /\ EndedOnce

Inv == Typed /\ Rest

LEMMA InvInit == Init => Inv
<1> SUFFICES ASSUME Init PROVE Inv OBVIOUS
<1>1. Typed
  BY TypedInit
<1>2. \A p \in Procs : req[p].pc = "idle" /\ req[p].snap = {} /\ req[p].held = {}
  BY DEF Init, Idle
<1>3. \A t \in Tokens : rows[t].state = "unissued" /\ rows[t].revoked = Null
  BY DEF Init, NoRow
<1>4. \A f \in Families : tombs[f] = Null /\ endedAt[f] = Null
  BY DEF Init
<1>5. \A p \in Procs : Good(p)
  BY <1>2 DEF Good, Timed, KnowsFamily, KnowsRows, RedeemsOnce, Holds, HasFamily
<1> QED BY <1>1, <1>2, <1>3, <1>4, <1>5 DEF Inv, Rest, RowsWellFormed,
      FamilyLockExclusive, RowLockExclusive, EndedOnce, HasFamily

(* An idle request satisfies whatever is asked of it. *)
LEMMA FinishFacts ==
  ASSUME Typed, NEW p \in Procs, Finish(p)
  PROVE  /\ req'[p].pc = "idle" /\ req'[p].snap = {} /\ req'[p].held = {}
         /\ \A q \in Procs : q # p => req'[q] = req[q]
BY DEF Finish, Typed, TypeOK, Idle

LEMMA IdleIsGood ==
  ASSUME NEW p \in Procs, req'[p].pc = "idle", req'[p].snap = {}, req'[p].held = {}
  PROVE  Good(p)'
BY DEF Good, Timed, KnowsFamily, KnowsRows, RedeemsOnce, Holds, HasFamily

(* A step of p alone: the tables and the clock stay as they are.  New      *)
(* locks were free, and nobody starts to issue into an ended family.       *)
LEMMA LocalStep ==
  ASSUME Inv, NEW p \in Procs, Good(p)',
         UNCHANGED <<now, rows, tombs, endedAt>>,
         \A q \in Procs : q # p => req'[q] = req[q],
         HasFamily(p)' => \/ HasFamily(p) /\ req'[p].fam = req[p].fam
                          \/ FamilyFree(req'[p].fam),
         \A t \in Tokens : t \in req'[p].held => t \in req[p].held \/ RowFree(t),
         req'[p].pc = "issuing" => \A f \in Families : req'[p].fam = f => endedAt[f] = Null
  PROVE  Rest'
<1> USE DEF Inv, Rest
<1>1. RowsWellFormed'
  BY DEF RowsWellFormed
<1>2. ASSUME NEW q \in Procs, q # p PROVE Good(q)'
  <2>1. Good(q) /\ req'[q] = req[q] /\ rows' = rows /\ now' = now
    BY <1>2
  <2>2. LiveIn(req[q].fam)' = LiveIn(req[q].fam)
    BY <2>1 DEF LiveIn, InFamily, Live, Stored
  <2> QED BY <2>1, <2>2 DEF Good, Timed, KnowsFamily, KnowsRows, RedeemsOnce, Holds, HasFamily,
             Stored, InFamily
<1>3. FamilyLockExclusive'
  BY DEF FamilyLockExclusive, FamilyFree, HasFamily
<1>4. RowLockExclusive'
  BY DEF RowLockExclusive, RowFree
<1>5. EndedOnce'
  BY DEF EndedOnce, InFamily, Live, Stored
<1> QED BY <1>1, <1>2, <1>3, <1>4, <1>5

LEMMA QuietFinish ==
  ASSUME Inv, NEW p \in Procs, Finish(p), UNCHANGED <<now, rows, tombs, endedAt>>
  PROVE  Rest'
<1>1. /\ req'[p].pc = "idle" /\ req'[p].snap = {} /\ req'[p].held = {}
      /\ \A q \in Procs : q # p => req'[q] = req[q]
  BY FinishFacts DEF Inv
<1>2. Good(p)' /\ ~HasFamily(p)'
  BY <1>1, IdleIsGood DEF HasFamily
<1> QED BY <1>1, <1>2, LocalStep

(* A request that starts. *)
LEMMA BeginStep ==
  ASSUME Inv, NEW p \in Procs, UNCHANGED <<now, rows, tombs, endedAt>>,
         \A q \in Procs : q # p => req'[q] = req[q],
         req'[p].begun = now, req'[p].held = {},
         \/ req'[p].pc \in {"granting", "validated"} /\ req'[p].snap = {}
         \/ req'[p].pc \in {"deleting", "repeating", "purging"}
         \/ /\ req'[p].pc = "redeeming" /\ req'[p].snap = {}
            /\ rows[req'[p].tok].state # "unissued" /\ req'[p].fam = rows[req'[p].tok].family
         \/ /\ req'[p].pc = "revoking" /\ req'[p].snap = {} /\ req'[p].at = now
            /\ \E t \in Tokens : t \in InFamily(req'[p].fam)
  PROVE  Rest'
<1>1. now \in Nat /\ now <= now + MaxWait
  BY TimeAssumption DEF Inv, Typed, TypeOK
<1>2. Timed(p)'
  BY <1>1 DEF Timed
<1>3. KnowsFamily(p)'
  BY DEF KnowsFamily, Holds, InFamily
<1>4. KnowsRows(p)' /\ RedeemsOnce(p)' /\ ~HasFamily(p)'
  BY DEF KnowsRows, RedeemsOnce, Holds, HasFamily
<1> QED BY <1>2, <1>3, <1>4, LocalStep DEF Good

LEMMA BeginSteps ==
  ASSUME Inv, NEW p \in Procs,
         \/ \E u \in Users, c \in Clients : GrantBegin(p, u, c)
         \/ \E t \in Tokens : TokenRequestByRefreshToken(p, t)
         \/ RedeemBegin(p)
         \/ \E t \in Tokens, c \in Clients : RevokeBegin(p, t, c)
         \/ \E u \in Users : RequestDeletionBegin(p, u) \/ DeleteUserBegin(p, u)
  PROVE  Rest'
<1>0. Typed /\ req \in [Procs -> Request]
  BY DEF Inv, Typed, TypeOK
<1>1. ASSUME NEW u \in Users, NEW c \in Clients, GrantBegin(p, u, c) PROVE Rest'
  <2>1. /\ req'[p].pc = "granting" /\ req'[p].begun = now /\ req'[p].held = {} /\ req'[p].snap = {}
        /\ \A q \in Procs : q # p => req'[q] = req[q]
    BY <1>0, <1>1 DEF GrantBegin, Idle
  <2> QED BY <1>1, <2>1, BeginStep DEF GrantBegin
<1>2. ASSUME NEW t \in Tokens, TokenRequestByRefreshToken(p, t) PROVE Rest'
  <2>1. /\ req'[p].pc = "validated" /\ req'[p].begun = now /\ req'[p].held = {} /\ req'[p].snap = {}
        /\ \A q \in Procs : q # p => req'[q] = req[q]
    BY <1>0, <1>2 DEF TokenRequestByRefreshToken, Idle
  <2> QED BY <1>2, <2>1, BeginStep DEF TokenRequestByRefreshToken
<1>3. CASE RedeemBegin(p)
  <2>1. CASE Stored(req[p].tok)
    <3> DEFINE r == [Idle EXCEPT !.pc = "redeeming", !.tok = req[p].tok,
                                 !.fam = rows[req[p].tok].family, !.begun = now]
    <3>1. /\ r.pc = "redeeming" /\ r.begun = now /\ r.held = {} /\ r.snap = {}
          /\ r.tok = req[p].tok /\ r.fam = rows[req[p].tok].family
      BY DEF Idle
    <3>2. req' = [req EXCEPT ![p] = r]
      BY <1>3, <2>1 DEF RedeemBegin
    <3> HIDE DEF r
    <3>3. req'[p] = r /\ \A q \in Procs : q # p => req'[q] = req[q]
      BY <1>0, <3>2
    <3>4. rows[req[p].tok].state # "unissued"
      BY <2>1 DEF Stored
    <3> QED BY <1>3, <3>1, <3>3, <3>4, BeginStep DEF RedeemBegin
  <2>2. CASE ~Stored(req[p].tok)
    BY <1>3, <2>2, QuietFinish DEF RedeemBegin
  <2> QED BY <2>1, <2>2
<1>4. ASSUME NEW t \in Tokens, NEW c \in Clients, RevokeBegin(p, t, c) PROVE Rest'
  <2>1. /\ req'[p].pc = "revoking" /\ req'[p].begun = now /\ req'[p].held = {} /\ req'[p].snap = {}
        /\ req'[p].at = now /\ req'[p].fam = rows[t].family
        /\ \A q \in Procs : q # p => req'[q] = req[q]
    BY <1>0, <1>4 DEF RevokeBegin, Idle
  <2>2. t \in InFamily(req'[p].fam)
    BY <1>4, <2>1 DEF RevokeBegin, InFamily, Stored
  <2> QED BY <1>4, <2>1, <2>2, BeginStep DEF RevokeBegin
<1>5. ASSUME NEW u \in Users, RequestDeletionBegin(p, u) PROVE Rest'
  <2>1. /\ req'[p].pc \in {"deleting", "repeating"} /\ req'[p].begun = now /\ req'[p].held = {}
        /\ \A q \in Procs : q # p => req'[q] = req[q]
    BY <1>0, <1>5 DEF RequestDeletionBegin, Idle
  <2> QED BY <1>5, <2>1, BeginStep DEF RequestDeletionBegin
<1>6. ASSUME NEW u \in Users, DeleteUserBegin(p, u) PROVE Rest'
  <2>1. /\ req'[p].pc = "purging" /\ req'[p].begun = now /\ req'[p].held = {}
        /\ \A q \in Procs : q # p => req'[q] = req[q]
    BY <1>0, <1>6 DEF DeleteUserBegin, Idle
  <2> QED BY <1>6, <2>1, BeginStep DEF DeleteUserBegin
<1> QED BY <1>1, <1>2, <1>3, <1>4, <1>5, <1>6

(* Taking the family lock: FamilyFree keeps it exclusive. *)
LEMMA RedeemLockStep ==
  ASSUME Inv, NEW p \in Procs, RedeemLock(p)
  PROVE  Rest'
<1>1. /\ req[p].pc = "redeeming" /\ FamilyFree(req[p].fam)
      /\ req'[p].pc = "locked" /\ req'[p].begun = req[p].begun
      /\ req'[p].tok = req[p].tok /\ req'[p].fam = req[p].fam
      /\ req'[p].snap = req[p].snap /\ req'[p].held = req[p].held
      /\ \A q \in Procs : q # p => req'[q] = req[q]
      /\ UNCHANGED <<now, rows, tombs, endedAt>>
  BY DEF RedeemLock, Inv, Typed, TypeOK, Request
<1>2. Good(p)
  BY DEF Inv, Rest
<1>3. Good(p)'
  BY <1>1, <1>2 DEF Good, Timed, KnowsFamily, KnowsRows, RedeemsOnce, Holds, HasFamily
<1> QED BY <1>1, <1>3, LocalStep

LEMMA LoadStep ==
  ASSUME Inv, NEW p \in Procs, RedeemLoad(p)
  PROVE  Rest'
<1>1. CASE Stored(req[p].tok) /\ Redeemable(req[p].tok)
  <2> DEFINE u == rows[req[p].tok].user
  <2>1. /\ req[p].pc = "locked" /\ RowFree(req[p].tok)
        /\ req' = [req EXCEPT ![p].pc = "loaded", ![p].at = now, ![p].held = {req[p].tok},
                              ![p].user = u]
        /\ UNCHANGED <<now, rows, tombs, endedAt>>
    BY <1>1 DEF RedeemLoad
  <2> HIDE DEF u
  <2>2. /\ req'[p].pc = "loaded" /\ req'[p].at = now /\ req'[p].begun = req[p].begun
        /\ req'[p].tok = req[p].tok /\ req'[p].fam = req[p].fam
        /\ req'[p].held = {req[p].tok} /\ req'[p].snap = req[p].snap
        /\ \A q \in Procs : q # p => req'[q] = req[q]
    BY <2>1 DEF Inv, Typed, TypeOK, Request
  <2>3. Good(p) /\ req[p].tok \in Tokens /\ now \in Nat
    BY <2>1 DEF Inv, Rest, Typed, TypeOK, TokenPresented, Presents
  <2>4. Timed(p)'
    BY <2>1, <2>2, <2>3 DEF Good, Timed
  <2>5. KnowsFamily(p)' /\ RedeemsOnce(p)'
    BY <1>1, <2>1, <2>2, <2>3 DEF Good, KnowsFamily, RedeemsOnce, Holds, Stored
  <2>6. req[p].tok \in InFamily(req[p].fam)
    BY <2>1, <2>3 DEF Good, KnowsFamily, InFamily
  <2>7. KnowsRows(p)'
    BY <2>1, <2>2, <2>3, <2>6 DEF Good, KnowsRows, Holds, HasFamily, InFamily
  <2> QED BY <2>1, <2>2, <2>4, <2>5, <2>7, LocalStep DEF Good, HasFamily
<1>2. CASE ~(Stored(req[p].tok) /\ Redeemable(req[p].tok))
  BY <1>2, QuietFinish DEF RedeemLoad
<1> QED BY <1>1, <1>2

(* The heart of the argument: no request decides to issue into a family    *)
(* that has ended, with or without its tombstone.                          *)
LEMMA NoIssueIntoEnded ==
  ASSUME Inv, NEW p \in Procs, DecideIssue(p)
  PROVE  endedAt[req[p].fam] = Null
<1> DEFINE t == req[p].tok
           f == req[p].fam
<1>0. Good(p)
  BY DEF Inv, Rest
<1>1. /\ req[p].pc = "loaded" /\ t \in Tokens /\ Stored(t)
      /\ f = rows[t].family /\ f \in Families
      /\ now <= req[p].at + MaxWait /\ req[p].at \in Int
  BY <1>0, TimeAssumption DEF DecideIssue, Inv, Rest, Typed, TypeOK, Request, TokenPresented,
     Presents, Good, KnowsFamily, Holds, RowsWellFormed, Timed, Stored
<1>2. Replayed(t) => GraceApplies(t, req[p].at)
  BY DEF DecideIssue
<1>3. SUFFICES ASSUME endedAt[f] # Null PROVE FALSE
  OBVIOUS
<1>4. t \in InFamily(f)
  BY <1>1 DEF InFamily, Stored
<1>5. ~Live(t) /\ rows[t].used <= endedAt[f]
  BY <1>1, <1>3, <1>4 DEF Inv, Rest, EndedOnce
<1>6. Replayed(t)
  BY <1>1, <1>5 DEF Live, Replayed, UsedOrRevoked
<1>7. tombs[f] = Null /\ req[p].at - rows[t].used <= ReuseGrace
  BY <1>1, <1>2, <1>6 DEF GraceApplies
<1>8. endedAt[f] + ReuseGrace + MaxWait < now
  BY <1>1, <1>3, <1>7 DEF Inv, Rest, EndedOnce
<1>9. rows[t].used \in Int /\ endedAt[f] \in Int /\ now \in Int
  BY <1>1 DEF Inv, Typed, TypeOK, Row
<1> QED BY <1>1, <1>5, <1>7, <1>8, <1>9, TimeAssumption

LEMMA DecideStep ==
  ASSUME Inv, NEW p \in Procs, DecideIssue(p)
  PROVE  Rest'
<1> DEFINE g == Replayed(req[p].tok)
<1>1. g \in BOOLEAN
  BY DEF Replayed, UsedOrRevoked
<1>2. ~g => rows[req[p].tok].revoked = Null /\ rows[req[p].tok].used = Null
  BY DEF Replayed, UsedOrRevoked
<1>3. endedAt[req[p].fam] = Null
  BY NoIssueIntoEnded
<1> HIDE DEF g
<1>4. req[p].pc = "loaded" /\ UNCHANGED <<now, rows, tombs, endedAt>>
  BY DEF DecideIssue
<1>5. /\ req'[p].pc = "issuing" /\ req'[p].grace = g
      /\ req'[p].at = req[p].at /\ req'[p].begun = req[p].begun
      /\ req'[p].tok = req[p].tok /\ req'[p].fam = req[p].fam
      /\ req'[p].held = req[p].held /\ req'[p].snap = req[p].snap
      /\ \A q \in Procs : q # p => req'[q] = req[q]
  <2>1. req' = [req EXCEPT ![p].pc = "issuing", ![p].grace = g]
    BY DEF DecideIssue, g
  <2> QED BY <2>1 DEF Inv, Typed, TypeOK, Request
<1>6. Good(p)
  BY DEF Inv, Rest
<1>7. Timed(p)' /\ KnowsFamily(p)'
  BY <1>4, <1>5, <1>6 DEF Good, Timed, KnowsFamily, Holds, Stored
<1>8. KnowsRows(p)'
  BY <1>4, <1>5, <1>6 DEF Good, KnowsRows, Holds, HasFamily, InFamily
<1>9. RedeemsOnce(p)'
  BY <1>1, <1>2, <1>4, <1>5 DEF RedeemsOnce
<1> QED BY <1>3, <1>4, <1>5, <1>7, <1>8, <1>9, LocalStep DEF Good, HasFamily

LEMMA AuditStep ==
  ASSUME Inv, NEW p \in Procs, DecideGraceRefuse(p) \/ AuditGraceRefusal(p)
  PROVE  Rest'
<1>1. CASE DecideGraceRefuse(p)
  <2>1. /\ req[p].pc = "loaded" /\ req'[p].pc = "auditing"
        /\ req'[p].begun = req[p].begun /\ req'[p].fam = req[p].fam
        /\ req'[p].held = req[p].held /\ req'[p].snap = req[p].snap
        /\ \A q \in Procs : q # p => req'[q] = req[q]
        /\ UNCHANGED <<now, rows, tombs, endedAt>>
    BY <1>1 DEF DecideGraceRefuse, Inv, Typed, TypeOK, Request
  <2>2. Good(p)
    BY DEF Inv, Rest
  <2>3. Good(p)'
    BY <2>1, <2>2 DEF Good, Timed, KnowsFamily, KnowsRows, RedeemsOnce, Holds, HasFamily, InFamily
  <2> QED BY <2>1, <2>3, LocalStep DEF HasFamily
<1>2. CASE AuditGraceRefusal(p)
  BY <1>2, QuietFinish DEF AuditGraceRefusal
<1> QED BY <1>1, <1>2

(* RevokeRefreshFamily starts, under the family lock: what is live now is  *)
(* all that the family will ever have live.                                *)
LEMMA StartEndStep ==
  ASSUME Inv, NEW p \in Procs, DetectReuse(p) \/ RevokeLock(p)
  PROVE  Rest'
<1> DEFINE S == LiveIn(req[p].fam)
<1>1. /\ req[p].pc \in {"loaded", "revoking"}
      /\ req[p].pc = "revoking" => FamilyFree(req[p].fam)
      /\ req' = [req EXCEPT ![p].pc = "ending", ![p].snap = S]
      /\ UNCHANGED <<now, rows, tombs, endedAt>>
  BY DEF DetectReuse, RevokeLock
<1>2. S \subseteq InFamily(req[p].fam)
  BY DEF LiveIn
<1>3. LiveIn(req[p].fam)' = S
  <2>1. req'[p].fam = req[p].fam
    BY <1>1 DEF Inv, Typed, TypeOK, Request
  <2> QED BY <1>1, <2>1 DEF LiveIn, InFamily, Live, Stored
<1> HIDE DEF S
<1>4. /\ req'[p].pc = "ending" /\ req'[p].snap = S /\ req'[p].held = req[p].held
      /\ req'[p].begun = req[p].begun /\ req'[p].at = req[p].at /\ req'[p].fam = req[p].fam
      /\ \A q \in Procs : q # p => req'[q] = req[q]
  BY <1>1 DEF Inv, Typed, TypeOK, Request
<1>5. Good(p) /\ InFamily(req[p].fam)' = InFamily(req[p].fam)
  BY <1>1, <1>4 DEF Inv, Rest, InFamily
<1>6. \E t \in Tokens : t \in InFamily(req[p].fam)
  <2>1. CASE req[p].pc = "revoking"
    BY <1>5, <2>1 DEF Good, KnowsFamily
  <2>2. CASE req[p].pc = "loaded"
    BY <1>5, <2>2 DEF Good, KnowsFamily, InFamily, Inv, Typed, TokenPresented, Presents
  <2> QED BY <1>1, <2>1, <2>2
<1>7. Timed(p)' /\ KnowsFamily(p)' /\ RedeemsOnce(p)'
  BY <1>1, <1>4, <1>5, <1>6 DEF Good, Timed, KnowsFamily, RedeemsOnce, Holds
<1>8. KnowsRows(p)'
  BY <1>1, <1>2, <1>3, <1>4, <1>5 DEF Good, KnowsRows, Holds, HasFamily
<1> QED BY <1>1, <1>4, <1>7, <1>8, LocalStep DEF Good, HasFamily

(* The next row of a statement: locked if it matches, else passed over. *)
LEMMA LockRowFacts ==
  ASSUME Inv, NEW p \in Procs, NEW t \in Tokens, LockRow(p, t)
  PROVE  /\ \A q \in Procs : q # p => req'[q] = req[q]
         /\ req'[p].pc = req[p].pc /\ req'[p].tok = req[p].tok /\ req'[p].fam = req[p].fam
         /\ req'[p].user = req[p].user /\ req'[p].begun = req[p].begun /\ req'[p].at = req[p].at
         /\ req'[p].grace = req[p].grace
         /\ t \in req[p].snap /\ RowFree(t)
         /\ req[p].pc \in {"ending", "deleting", "repeating", "purging"}
         /\ \/ req'[p].held = req[p].held \cup {t} /\ req'[p].snap = req[p].snap
            \/ ~Matches(p, t) /\ req'[p].held = req[p].held /\ req'[p].snap = req[p].snap \ {t}
         /\ UNCHANGED <<now, rows, tombs, status, scheduled, endedAt>>
<1>1. req[p].pc \in {"ending", "deleting", "repeating", "purging"}
  BY DEF LockRow, Inv, Rest, Good, KnowsRows
<1>2. req \in [Procs -> Request]
  BY DEF Inv, Typed, TypeOK
<1>3. CASE Matches(p, t)
  <2>1. req' = [req EXCEPT ![p].held = @ \cup {t}]
    BY <1>3 DEF LockRow
  <2> QED BY <1>1, <1>2, <2>1 DEF LockRow, Request
<1>4. CASE ~Matches(p, t)
  <2>1. req' = [req EXCEPT ![p].snap = @ \ {t}]
    BY <1>4 DEF LockRow
  <2> QED BY <1>1, <1>2, <1>4, <2>1 DEF LockRow, Request
<1> QED BY <1>3, <1>4

LEMMA LockRowStep ==
  ASSUME Inv, NEW p \in Procs, NEW t \in Tokens, LockRow(p, t)
  PROVE  Rest'
<1>1. /\ \A q \in Procs : q # p => req'[q] = req[q]
      /\ req'[p].pc = req[p].pc /\ req'[p].fam = req[p].fam
      /\ req'[p].begun = req[p].begun /\ req'[p].at = req[p].at
      /\ t \in req[p].snap /\ RowFree(t)
      /\ req[p].pc \in {"ending", "deleting", "repeating", "purging"}
      /\ \/ req'[p].held = req[p].held \cup {t} /\ req'[p].snap = req[p].snap
         \/ ~Matches(p, t) /\ req'[p].held = req[p].held /\ req'[p].snap = req[p].snap \ {t}
      /\ UNCHANGED <<now, rows, tombs, endedAt>>
  BY LockRowFacts
<1>2. Good(p) /\ InFamily(req[p].fam)' = InFamily(req[p].fam) /\ LiveIn(req[p].fam)' = LiveIn(req[p].fam)
  BY <1>1 DEF Inv, Rest, InFamily, LiveIn, Live, Stored
<1>3. Timed(p)' /\ KnowsFamily(p)' /\ RedeemsOnce(p)'
  BY <1>1, <1>2 DEF Good, Timed, KnowsFamily, RedeemsOnce, Holds
<1>4. req[p].pc = "ending" /\ ~Matches(p, t) => t \notin LiveIn(req[p].fam)
  BY DEF Matches, LiveIn
<1>5. KnowsRows(p)'
  BY <1>1, <1>2, <1>4 DEF Good, KnowsRows, Holds, HasFamily
<1> QED BY <1>1, <1>3, <1>5, LocalStep DEF Good, HasFamily

LEMMA TickStep ==
  ASSUME Inv, Tick
  PROVE  Rest'
<1> USE DEF Inv, Rest
<1>0. /\ now \in Nat /\ now' = now + 1
      /\ \A p \in Procs : req[p].pc # "idle" => now < req[p].begun + MaxWait
      /\ UNCHANGED <<rows, tombs, req, endedAt>>
  BY DEF Tick, Typed, TypeOK
<1>1. RowsWellFormed'
  <2>1. \A t \in Tokens : rows[t].used \in Int
    BY DEF Typed, TypeOK, Row
  <2> QED BY <1>0, <2>1 DEF RowsWellFormed
<1>2. ASSUME NEW p \in Procs PROVE Good(p)'
  <2>1. req[p].begun \in Int /\ req[p].at \in Int
    BY DEF Typed, TypeOK, Request
  <2>2. Timed(p)'
    BY <1>0, <2>1, TimeAssumption DEF Good, Timed
  <2>3. LiveIn(req[p].fam)' = LiveIn(req[p].fam)
    BY <1>0 DEF LiveIn, InFamily, Live, Stored
  <2> QED BY <1>0, <2>2, <2>3 DEF Good, KnowsFamily, KnowsRows, RedeemsOnce, Holds, HasFamily,
             Stored, InFamily
<1>3. FamilyLockExclusive' /\ RowLockExclusive'
  BY <1>0 DEF FamilyLockExclusive, RowLockExclusive, HasFamily
<1>4. EndedOnce'
  <2>1. \A f \in Families : endedAt[f] \in Int
    BY DEF Typed, TypeOK
  <2> QED BY <1>0, <2>1, TimeAssumption DEF EndedOnce, InFamily, Live, Stored
<1> QED BY <1>1, <1>2, <1>3, <1>4

(* Dropping a tombstone: RetentionAssumption leaves room for the grace and *)
(* for two stale clock readings.                                           *)
LEMMA StaleTombstoneStep ==
  ASSUME Inv, NEW g \in Families, DeleteStaleRefreshTokenFamily(g)
  PROVE  Rest'
<1> USE DEF Inv, Rest
<1>1. /\ tombs[g] # Null /\ tombs[g] < now - (RefreshTTL + TombstoneMargin)
      /\ tombs' = [tombs EXCEPT ![g] = Null]
      /\ UNCHANGED <<now, rows, req, endedAt>>
  BY DEF DeleteStaleRefreshTokenFamily
<1>2. RowsWellFormed'
  BY <1>1 DEF RowsWellFormed
<1>3. ASSUME NEW p \in Procs PROVE Good(p)'
  <2>1. LiveIn(req[p].fam)' = LiveIn(req[p].fam)
    BY <1>1 DEF LiveIn, InFamily, Live, Stored
  <2> QED BY <1>1, <2>1 DEF Good, Timed, KnowsFamily, KnowsRows, RedeemsOnce, Holds, HasFamily,
             Stored, InFamily
<1>4. FamilyLockExclusive' /\ RowLockExclusive'
  BY <1>1 DEF FamilyLockExclusive, RowLockExclusive, HasFamily
<1>5. endedAt[g] + ReuseGrace + MaxWait < now
  BY <1>1, TimeAssumption, RetentionAssumption DEF EndedOnce, Typed, TypeOK
<1>6. EndedOnce'
  BY <1>1, <1>5 DEF EndedOnce, InFamily, Live, Stored, Typed, TypeOK
<1> QED BY <1>2, <1>3, <1>4, <1>6

(* What a revocation changes, and what it leaves alone. *)
LEMMA RevokeLiveFacts ==
  ASSUME TypeOK, NEW S, NEW at, rows' = RevokeLive(S, at), NEW t \in Tokens
  PROVE  /\ rows'[t].state = rows[t].state /\ rows'[t].family = rows[t].family
         /\ rows'[t].used = rows[t].used
         /\ rows'[t].revoked = IF t \in S /\ Live(t) THEN at ELSE rows[t].revoked
BY DEF RevokeLive, TypeOK, Row

LEMMA PurgeFacts ==
  ASSUME TypeOK, NEW S, rows' = Purge(S), NEW t \in Tokens
  PROVE  /\ rows'[t].state = IF t \in S /\ Stored(t) THEN "purged" ELSE rows[t].state
         /\ rows'[t].family = rows[t].family /\ rows'[t].used = rows[t].used
         /\ rows'[t].revoked = rows[t].revoked
BY DEF Purge, TypeOK, Row

(* The row stays, or it is revoked or removed and only requests that are   *)
(* over had locked it.                                                     *)
Shrinks(t) ==
  /\ rows'[t].family = rows[t].family /\ rows'[t].used = rows[t].used
  /\ \/ rows'[t].revoked = rows[t].revoked /\ rows'[t].state = rows[t].state
     \/ /\ \A q \in Procs : t \in req[q].held => req'[q].pc = "idle"
        /\ rows[t].state = "stored" /\ rows'[t].state \in {"stored", "purged"}
        /\ \/ rows'[t].revoked = rows[t].revoked
           \/ Live(t) /\ rows'[t].revoked # Null

Over(q) == req'[q].pc = "idle" /\ req'[q].snap = {} /\ req'[q].held = {}

LEMMA ShrinkKeeps ==
  ASSUME Inv, now' = now, \A q \in Procs : req'[q] = req[q] \/ Over(q),
         \A t \in Tokens : Shrinks(t)
  PROVE  /\ RowsWellFormed' /\ (\A p \in Procs : Good(p)')
         /\ FamilyLockExclusive' /\ RowLockExclusive'
         /\ \A t \in Tokens : Live(t)' => Live(t)
         /\ \A g : InFamily(g)' = InFamily(g)
<1> USE DEF Inv, Rest
<1>1. RowsWellFormed'
  BY DEF RowsWellFormed, Shrinks, Live
<1>2. \A g : InFamily(g)' = InFamily(g)
  BY DEF InFamily, Shrinks
<1>3. \A t \in Tokens : Live(t)' => Live(t)
  BY DEF Live, Stored, Shrinks
<1>4. ASSUME NEW q \in Procs PROVE Good(q)'
  <2>1. CASE Over(q)
    BY <2>1, IdleIsGood DEF Over
  <2>2. CASE req'[q] = req[q] /\ ~Over(q) /\ req[q].pc # "idle"
    <3>1. Good(q)
      OBVIOUS
    <3>2. Presents(q) => req[q].tok \in Tokens
      BY DEF Typed, TokenPresented
    <3>3. Holds(q) => /\ rows'[req[q].tok].state = rows[req[q].tok].state
                      /\ rows'[req[q].tok].revoked = rows[req[q].tok].revoked
                      /\ rows'[req[q].tok].used = rows[req[q].tok].used
      BY <2>2, <3>1, <3>2 DEF Good, KnowsRows, Holds, Presents, Shrinks
    <3>4. Timed(q)'
      BY <2>2, <3>1 DEF Good, Timed
    <3>5. KnowsFamily(q)'
      <4>1. req[q].pc \in {"redeeming", "locked", "loaded", "issuing"} =>
               rows'[req[q].tok].state # "unissued" /\ req[q].fam = rows'[req[q].tok].family
        BY <3>1, <3>2 DEF Good, KnowsFamily, Presents, Shrinks
      <4>2. Holds(q) => rows'[req[q].tok].state = "stored"
        BY <3>1, <3>3 DEF Good, KnowsFamily, Stored
      <4>3. req[q].pc \in {"revoking", "ending"} => \E t \in Tokens : t \in InFamily(req[q].fam)'
        BY <1>2, <2>2, <3>1 DEF Good, KnowsFamily
      <4> QED BY <2>2, <4>1, <4>2, <4>3 DEF KnowsFamily, Holds, Stored
    <3>6. LiveIn(req[q].fam)' \subseteq LiveIn(req[q].fam)
      <4>1. InFamily(req[q].fam)' = InFamily(req[q].fam)
        BY <1>2, <2>2
      <4>2. InFamily(req[q].fam) \subseteq Tokens
        BY DEF InFamily
      <4> QED BY <1>3, <4>1, <4>2 DEF LiveIn
    <3>7. InFamily(req[q].fam)' = InFamily(req[q].fam)
      BY <1>2, <2>2
    <3>8. KnowsRows(q)'
      BY <2>2, <3>1, <3>6, <3>7 DEF Good, KnowsRows, Holds, HasFamily
    <3>9. RedeemsOnce(q)'
      BY <2>2, <3>1, <3>3 DEF Good, RedeemsOnce, Holds
    <3> QED BY <3>4, <3>5, <3>8, <3>9 DEF Good
  <2>3. CASE req'[q] = req[q] /\ req[q].pc = "idle"
    <3>1. Good(q)
      OBVIOUS
    <3> QED BY <2>3, <3>1 DEF Good, Timed, KnowsFamily, KnowsRows, RedeemsOnce, Holds, HasFamily
  <2> QED BY <2>1, <2>2, <2>3
<1>5. FamilyLockExclusive'
  BY DEF FamilyLockExclusive, HasFamily, Over
<1>6. RowLockExclusive'
  BY DEF RowLockExclusive, Over
<1> QED BY <1>1, <1>2, <1>3, <1>4, <1>5, <1>6

LEMMA ShrinkStep ==
  ASSUME Inv, UNCHANGED <<now, tombs, endedAt>>,
         \A q \in Procs : req'[q] = req[q] \/ Over(q),
         \A t \in Tokens : Shrinks(t)
  PROVE  Rest'
<1>1. /\ RowsWellFormed' /\ (\A p \in Procs : Good(p)')
      /\ FamilyLockExclusive' /\ RowLockExclusive'
      /\ \A t \in Tokens : Live(t)' => Live(t)
      /\ \A g : InFamily(g)' = InFamily(g)
  BY ShrinkKeeps
<1>2. \A q \in Procs : req'[q].pc = "issuing" => req'[q] = req[q]
  BY DEF Over
<1>3. \A g \in Families : \A t \in InFamily(g) : t \in Tokens /\ rows'[t].used = rows[t].used
  BY DEF InFamily, Shrinks
<1>4. EndedOnce'
  BY <1>1, <1>2, <1>3 DEF Inv, Rest, EndedOnce
<1> QED BY <1>1, <1>4 DEF Rest

(* Rows that p has locked, revoked or removed when p commits. *)
LEMMA CommitShrinks ==
  ASSUME Inv, NEW p \in Procs, Finish(p), AllLocked(p),
         \/ rows' = Purge(req[p].snap)
         \/ \E at \in Nat : rows' = RevokeLive(req[p].snap, at)
  PROVE  /\ \A q \in Procs : req'[q] = req[q] \/ Over(q)
         /\ \A t \in Tokens : Shrinks(t)
<1>0. TypeOK /\ Typed
  BY DEF Inv, Typed
<1>1. /\ Over(p) /\ req'[p].pc = "idle"
      /\ \A q \in Procs : q # p => req'[q] = req[q]
  BY <1>0, FinishFacts DEF Over
<1>2. ASSUME NEW t \in Tokens PROVE Shrinks(t)
  <2>1. t \in req[p].snap => \A q \in Procs : t \in req[q].held => req'[q].pc = "idle"
    <3> SUFFICES ASSUME t \in req[p].snap, NEW q \in Procs, t \in req[q].held
                 PROVE  req'[q].pc = "idle"
      OBVIOUS
    <3>1. t \in req[p].held
      BY DEF AllLocked
    <3>2. q = p
      BY <3>1 DEF Inv, Rest, RowLockExclusive
    <3> QED BY <1>1, <3>2
  <2>2. CASE rows' = Purge(req[p].snap)
    BY <1>0, <2>1, <2>2, PurgeFacts DEF Shrinks, Stored
  <2>3. ASSUME NEW at \in Nat, rows' = RevokeLive(req[p].snap, at) PROVE Shrinks(t)
    <3>1. /\ rows'[t].state = rows[t].state /\ rows'[t].family = rows[t].family
          /\ rows'[t].used = rows[t].used
          /\ rows'[t].revoked = IF t \in req[p].snap /\ Live(t) THEN at ELSE rows[t].revoked
      BY <1>0, <2>3, RevokeLiveFacts
    <3> QED BY <2>1, <3>1 DEF Shrinks, Live, Stored
  <2> QED BY <2>2, <2>3
<1> QED BY <1>1, <1>2

LEMMA CommitStep ==
  ASSUME Inv, NEW p \in Procs, RequestDeletionCommit(p) \/ DeleteUserCommit(p)
  PROVE  Rest'
<1>1. req[p].begun \in Nat
  BY DEF RequestDeletionCommit, DeleteUserCommit, Inv, Rest, Good, Timed
<1>2. /\ Finish(p) /\ AllLocked(p) /\ UNCHANGED <<now, tombs, endedAt>>
      /\ \/ rows' = Purge(req[p].snap)
         \/ \E at \in Nat : rows' = RevokeLive(req[p].snap, at)
  BY <1>1 DEF RequestDeletionCommit, DeleteUserCommit
<1> QED BY <1>2, CommitShrinks, ShrinkStep

(* Cleanup removes a row nobody has locked. *)
LEMMA PurgeStep ==
  ASSUME Inv, NEW s \in Tokens, RowFree(s),
         rows' = Purge({s}), UNCHANGED <<now, tombs, endedAt, req>>
  PROVE  Rest'
<1>0. TypeOK
  BY DEF Inv, Typed
<1>1. ASSUME NEW t \in Tokens PROVE Shrinks(t)
  <2>1. /\ rows'[t].state = IF t \in {s} /\ Stored(t) THEN "purged" ELSE rows[t].state
        /\ rows'[t].family = rows[t].family /\ rows'[t].used = rows[t].used
        /\ rows'[t].revoked = rows[t].revoked
    BY <1>0, PurgeFacts
  <2> QED BY <2>1 DEF Shrinks, Stored, RowFree
<1> QED BY <1>1, ShrinkStep

(* Ending a family: everything live in it was in the statement's rows. *)
LEMMA EndStep ==
  ASSUME Inv, Typed', NEW p \in Procs, EndFamily(p)
  PROVE  Rest'
<1> USE DEF Inv, Rest
<1> DEFINE f == req[p].fam
           at == req[p].at
<1>0. Typed /\ TypeOK /\ Good(p)
  BY DEF Typed
<1>1. /\ req[p].pc = "ending" /\ AllLocked(p) /\ Finish(p) /\ now' = now
      /\ rows' = RevokeLive(req[p].snap, at) /\ Tombstone(f, at)
  BY DEF EndFamily
<1>2. PICK z \in Tokens : z \in InFamily(f)
  BY <1>0, <1>1 DEF Good, KnowsFamily
<1>3. f \in Families
  BY <1>2 DEF RowsWellFormed, InFamily
<1>4. at \in Nat /\ at <= now /\ now <= at + MaxWait
  BY <1>0, <1>1, TimeAssumption DEF Good, Timed, TypeOK, Request
<1>5. /\ \A q \in Procs : req'[q] = req[q] \/ Over(q)
      /\ \A t \in Tokens : Shrinks(t)
  BY <1>1, <1>4, CommitShrinks
<1>6. /\ RowsWellFormed' /\ (\A q \in Procs : Good(q)')
      /\ FamilyLockExclusive' /\ RowLockExclusive'
      /\ \A t \in Tokens : Live(t)' => Live(t)
      /\ \A g : InFamily(g)' = InFamily(g)
  BY <1>1, <1>5, ShrinkKeeps
<1>7. \A t \in InFamily(f) : ~Live(t)'
  <2> SUFFICES ASSUME NEW t \in InFamily(f), Live(t)' PROVE FALSE
    OBVIOUS
  <2>1. t \in Tokens /\ Live(t)
    BY <1>6 DEF InFamily
  <2>2. t \in req[p].snap
    BY <1>0, <1>1, <2>1 DEF Good, KnowsRows, LiveIn
  <2>3. rows'[t].revoked = at
    BY <1>0, <1>1, <2>1, <2>2, RevokeLiveFacts
  <2> QED BY <1>4, <2>3 DEF Live
<1>8. \A q \in Procs : req'[q].pc = "issuing" => req'[q] = req[q] /\ req[q].fam # f
  <2> SUFFICES ASSUME NEW q \in Procs, req'[q].pc = "issuing"
               PROVE  req'[q] = req[q] /\ req[q].fam # f
    OBVIOUS
  <2>1. req'[q] = req[q] /\ q # p
    BY <1>0, <1>1, <1>5, FinishFacts DEF Over
  <2>2. HasFamily(q) /\ HasFamily(p)
    BY <1>1, <2>1 DEF HasFamily
  <2> QED BY <2>1, <2>2 DEF FamilyLockExclusive
<1>9. \A t \in Tokens : rows'[t].used = rows[t].used
  BY <1>5 DEF Shrinks
<1> HIDE DEF f, at
<1>10. EndedOnce'
  <2> SUFFICES ASSUME NEW g \in Families
       PROVE /\ tombs'[g] # Null => endedAt'[g] # Null /\ endedAt'[g] <= tombs'[g] + MaxWait
             /\ endedAt'[g] # Null =>
                  /\ endedAt'[g] <= now'
                  /\ \E t \in Tokens : t \in InFamily(g)'
                  /\ \A t \in InFamily(g)' : ~Live(t)' /\ rows'[t].used <= endedAt'[g]
                  /\ \A q \in Procs : req'[q].pc = "issuing" => req'[q].fam # g
                  /\ tombs'[g] = Null => endedAt'[g] + ReuseGrace + MaxWait < now'
    BY DEF EndedOnce
  <2>1. tombs[g] \in Int /\ endedAt[g] \in Int /\ now \in Nat /\ endedAt[g] >= -1
    BY <1>0 DEF TypeOK
  <2>0. InFamily(g)' = InFamily(g) /\ InFamily(g) \subseteq Tokens
    BY <1>6 DEF InFamily
  <2>2. CASE g # f
    <3>1. tombs'[g] = tombs[g] /\ endedAt'[g] = endedAt[g] /\ now' = now
      BY <1>0, <1>1, <2>2 DEF Tombstone, TypeOK
    <3>2. \A t \in InFamily(g) : ~Live(t) => ~Live(t)'
      BY <1>6, <2>0
    <3> QED BY <1>8, <1>9, <2>0, <3>1, <3>2 DEF EndedOnce
  <2>3. CASE g = f
    <3>1. /\ tombs'[f] = IF tombs[f] = Null THEN at ELSE tombs[f]
          /\ endedAt'[f] = IF endedAt[f] = Null THEN now ELSE endedAt[f]
      BY <1>0, <1>1, <1>3 DEF Tombstone, TypeOK
    <3>2. tombs'[f] # Null /\ endedAt'[f] # Null /\ endedAt'[f] <= now
      BY <1>4, <2>1, <2>3, <3>1 DEF EndedOnce
    <3>3. endedAt'[f] <= tombs'[f] + MaxWait
      BY <1>4, <2>1, <2>3, <3>1, TimeAssumption DEF EndedOnce
    <3>5. \A t \in InFamily(f) : rows'[t].used <= endedAt'[f]
      <4>1. \A t \in InFamily(f) : rows[t].used <= now
        <5>1. \A t \in Tokens : rows[t].used \in Int
          BY <1>0 DEF TypeOK, Row
        <5> QED BY <2>1, <5>1 DEF RowsWellFormed, InFamily
      <4>2. CASE endedAt[f] = Null
        BY <1>9, <2>0, <2>3, <3>1, <4>1, <4>2
      <4>3. CASE endedAt[f] # Null
        BY <1>9, <2>0, <2>3, <3>1, <4>3 DEF EndedOnce
      <4> QED BY <4>2, <4>3
    <3> QED BY <1>1, <1>2, <1>7, <1>8, <2>0, <2>3, <3>2, <3>3, <3>5
  <2> QED BY <2>2, <2>3
<1> QED BY <1>6, <1>10

(* A step of p that inserts row c into family f and leaves every other row *)
(* as it is, except that it may redeem rows it holds.                      *)
LEMMA InsertStep ==
  ASSUME Inv, NEW p \in Procs, NEW c \in Tokens, NEW f \in Families,
         rows[c].state = "unissued", endedAt[f] = Null,
         rows'[c].state = "stored", rows'[c].family = f, rows'[c].used = Null,
         rows'[c].revoked = Null,
         \A s \in Tokens : s # c =>
            /\ rows'[s].state = rows[s].state /\ rows'[s].family = rows[s].family
            /\ \/ rows'[s].used = rows[s].used /\ rows'[s].revoked = rows[s].revoked
               \/ /\ rows'[s].used = rows'[s].revoked /\ rows'[s].used <= now
                  /\ rows'[s].revoked # Null
                  /\ rows[s].family = f /\ rows[s].state = "stored" /\ s \in req[p].held,
         (\A s \in Tokens : s \notin InFamily(f)) \/ (HasFamily(p) /\ req[p].fam = f),
         Finish(p), UNCHANGED <<now, tombs, endedAt>>
  PROVE  Rest'
<1> USE DEF Inv, Rest
<1>0. Typed /\ TypeOK
  BY DEF Typed
<1>1. /\ req'[p].pc = "idle" /\ req'[p].snap = {} /\ req'[p].held = {}
      /\ \A q \in Procs : q # p => req'[q] = req[q]
  BY <1>0, FinishFacts
<1>2. RowsWellFormed'
  BY DEF RowsWellFormed
<1>3. \A g : \A s \in InFamily(g) : s \in InFamily(g)' /\ s # c
  BY DEF InFamily
<1>4. ASSUME NEW q \in Procs, q # p PROVE Good(q)'
  <2>1. req'[q] = req[q] /\ Good(q)
    BY <1>1, <1>4
  <2>2. Presents(q) => req[q].tok \in Tokens
    BY <1>0 DEF Typed, TokenPresented
  <2>3. Timed(q)'
    BY <2>1 DEF Good, Timed
  <2>4. Holds(q) => /\ rows'[req[q].tok].state = rows[req[q].tok].state
                    /\ rows'[req[q].tok].revoked = rows[req[q].tok].revoked
                    /\ rows'[req[q].tok].used = rows[req[q].tok].used
    <3> SUFFICES ASSUME Holds(q)
                 PROVE  /\ rows'[req[q].tok].state = rows[req[q].tok].state
                        /\ rows'[req[q].tok].revoked = rows[req[q].tok].revoked
                        /\ rows'[req[q].tok].used = rows[req[q].tok].used
      OBVIOUS
    <3>1. req[q].tok \in Tokens /\ req[q].tok # c /\ req[q].tok \in req[q].held
      BY <2>1, <2>2 DEF Good, KnowsFamily, KnowsRows, Holds, Presents
    <3>2. req[q].tok \notin req[p].held
      BY <1>4, <3>1 DEF RowLockExclusive
    <3> QED BY <3>1, <3>2
  <2>5. KnowsFamily(q)'
    <3>1. req[q].pc \in {"redeeming", "locked", "loaded", "issuing"} =>
             rows'[req[q].tok].state # "unissued" /\ req[q].fam = rows'[req[q].tok].family
      BY <2>1, <2>2 DEF Good, KnowsFamily, Presents
    <3>2. Holds(q) => rows'[req[q].tok].state = "stored"
      BY <2>1, <2>4 DEF Good, KnowsFamily, Stored
    <3>3. req[q].pc \in {"revoking", "ending"} => \E t \in Tokens : t \in InFamily(req[q].fam)'
      BY <1>3, <2>1 DEF Good, KnowsFamily
    <3> QED BY <2>1, <3>1, <3>2, <3>3 DEF KnowsFamily, Holds, Stored
  <2>6. req[q].pc = "ending" => req[q].fam # f
    BY <1>4, <2>1 DEF Good, KnowsFamily, FamilyLockExclusive, HasFamily
  <2>7. req[q].pc = "ending" => LiveIn(req[q].fam)' \subseteq LiveIn(req[q].fam)
    <3> SUFFICES ASSUME req[q].pc = "ending", NEW t \in LiveIn(req[q].fam)'
                 PROVE  t \in LiveIn(req[q].fam)
      OBVIOUS
    <3>1. t \in Tokens /\ rows'[t].state = "stored" /\ rows'[t].revoked = Null
          /\ rows'[t].family = req[q].fam
      BY <2>1 DEF LiveIn, InFamily, Live, Stored
    <3>2. t # c
      BY <2>6, <3>1
    <3> QED BY <3>1, <3>2 DEF LiveIn, InFamily, Live, Stored
  <2>8. InFamily(req[q].fam) \subseteq InFamily(req[q].fam)'
    BY <1>3, <2>1
  <2>9. KnowsRows(q)'
    BY <2>1, <2>7, <2>8 DEF Good, KnowsRows, Holds, HasFamily
  <2>10. RedeemsOnce(q)'
    BY <2>1, <2>4 DEF Good, RedeemsOnce, Holds
  <2> QED BY <2>3, <2>5, <2>9, <2>10 DEF Good
<1>5. Good(p)'
  BY <1>1, IdleIsGood
<1>7. FamilyLockExclusive' /\ RowLockExclusive'
  BY <1>1 DEF FamilyLockExclusive, RowLockExclusive, HasFamily
<1>9. EndedOnce'
  <2> SUFFICES ASSUME NEW g \in Families
       PROVE /\ tombs'[g] # Null => endedAt'[g] # Null /\ endedAt'[g] <= tombs'[g] + MaxWait
             /\ endedAt'[g] # Null =>
                  /\ endedAt'[g] <= now'
                  /\ \E t \in Tokens : t \in InFamily(g)'
                  /\ \A t \in InFamily(g)' : ~Live(t)' /\ rows'[t].used <= endedAt'[g]
                  /\ \A q \in Procs : req'[q].pc = "issuing" => req'[q].fam # g
                  /\ tombs'[g] = Null => endedAt'[g] + ReuseGrace + MaxWait < now'
    BY DEF EndedOnce
  <2>1. CASE endedAt[g] = Null
    BY <2>1 DEF EndedOnce
  <2>2. CASE endedAt[g] # Null
    <3>1. g # f
      BY <2>2
    <3>2. \A t \in InFamily(g)' : t \in InFamily(g) /\ rows'[t].used = rows[t].used
            /\ rows'[t].revoked = rows[t].revoked /\ rows'[t].state = rows[t].state
      BY <3>1 DEF InFamily
    <3>3. \E t \in Tokens : t \in InFamily(g)'
      BY <1>3, <2>2 DEF EndedOnce
    <3>4. \A t \in InFamily(g)' : ~Live(t)' /\ rows'[t].used <= endedAt'[g]
      BY <2>2, <3>2 DEF EndedOnce, Live, Stored
    <3>5. \A q \in Procs : req'[q].pc = "issuing" => req'[q].fam # g
      BY <1>1, <2>2 DEF EndedOnce
    <3> QED BY <2>2, <3>3, <3>4, <3>5 DEF EndedOnce
  <2> QED BY <2>1, <2>2
<1> QED BY <1>2, <1>4, <1>5, <1>7, <1>9

LEMMA GrantCommitStep ==
  ASSUME Inv, NEW p \in Procs, NEW t \in Tokens, NEW f \in Families,
         GrantCommit(p, t, f)
  PROVE  Rest'
<1>1. endedAt[f] = Null
  BY DEF GrantCommit, Inv, Rest, EndedOnce
<1>2. /\ rows[t].state = "unissued" /\ rows'[t].state = "stored" /\ rows'[t].family = f
      /\ rows'[t].used = Null /\ rows'[t].revoked = Null
      /\ \A s \in Tokens : s # t => rows'[s] = rows[s]
  BY DEF GrantCommit, Inv, Typed, TypeOK
<1>3. /\ \A s \in Tokens : s \notin InFamily(f)
      /\ Finish(p) /\ UNCHANGED <<now, tombs, endedAt>>
  BY DEF GrantCommit
<1>4. \A s \in Tokens : s # t =>
         /\ rows'[s].state = rows[s].state /\ rows'[s].family = rows[s].family
         /\ \/ rows'[s].used = rows[s].used /\ rows'[s].revoked = rows[s].revoked
            \/ /\ rows'[s].used = rows'[s].revoked /\ rows'[s].used <= now
               /\ rows'[s].revoked # Null
               /\ rows[s].family = f /\ rows[s].state = "stored" /\ s \in req[p].held
  BY <1>2
<1>5. /\ rows[t].state = "unissued" /\ rows'[t].state = "stored" /\ rows'[t].family = f
      /\ rows'[t].used = Null /\ rows'[t].revoked = Null
  BY <1>2
<1> QED BY <1>1, <1>3, <1>4, <1>5, InsertStep

LEMMA IssueChildStep ==
  ASSUME Inv, NEW p \in Procs, NEW c \in Tokens, IssueChild(p, c)
  PROVE  Rest'
<1> USE DEF Inv, Rest
<1> DEFINE t == req[p].tok
           f == req[p].fam
<1>0. Good(p)
  OBVIOUS
<1>1. /\ req[p].pc = "issuing" /\ HasFamily(p) /\ t \in Tokens /\ Stored(t) /\ t \in req[p].held
      /\ f = rows[t].family /\ rows[c].state = "unissued" /\ t # c
  BY <1>0 DEF IssueChild, Typed, TokenPresented, Presents, Good, KnowsFamily, KnowsRows, Holds,
     HasFamily, Stored
<1>2. f \in Families /\ endedAt[f] = Null
  BY <1>1 DEF RowsWellFormed, Stored, EndedOnce
<1>3. req[p].at <= now /\ req[p].at # Null
  BY <1>0, <1>1 DEF Good, Timed, Typed, TypeOK, Request
<1>4. /\ rows'[c].state = "stored" /\ rows'[c].family = f
      /\ rows'[c].used = Null /\ rows'[c].revoked = Null
  BY <1>1 DEF IssueChild, Typed, TypeOK
<1>5. \A s \in Tokens : s # c /\ s # t => rows'[s] = rows[s]
  BY <1>1 DEF IssueChild, Typed, TypeOK
<1>6. \/ rows'[t] = rows[t]
      \/ /\ rows'[t].state = rows[t].state /\ rows'[t].family = rows[t].family
         /\ rows'[t].used = req[p].at /\ rows'[t].revoked = req[p].at
  BY <1>1 DEF IssueChild, Typed, TypeOK, Row
<1>7. \A s \in Tokens : s # c =>
         /\ rows'[s].state = rows[s].state /\ rows'[s].family = rows[s].family
         /\ \/ rows'[s].used = rows[s].used /\ rows'[s].revoked = rows[s].revoked
            \/ /\ rows'[s].used = rows'[s].revoked /\ rows'[s].used <= now
               /\ rows'[s].revoked # Null
               /\ rows[s].family = f /\ rows[s].state = "stored" /\ s \in req[p].held
  BY <1>1, <1>3, <1>5, <1>6 DEF Stored
<1>8. Finish(p) /\ UNCHANGED <<now, tombs, endedAt>>
  BY DEF IssueChild
<1> HIDE DEF f
<1> QED BY <1>1, <1>2, <1>4, <1>7, <1>8, InsertStep DEF f

LEMMA InvStep == Inv /\ [Next]_vars => Inv'
<1> SUFFICES ASSUME Inv, [Next]_vars PROVE Inv' OBVIOUS
<1>0. Typed'
  BY TypedStep DEF Inv
<1> SUFFICES Rest'
  BY <1>0 DEF Inv
<1>1. CASE Tick
  BY <1>1, TickStep
<1>2. ASSUME NEW p \in Procs,
             \/ Grant(p) \/ Redeem(p) \/ RevokeToken(p) \/ RequestDeletion(p) \/ DeleteUser(p)
             \/ \E t \in Tokens : LockRow(p, t)
             \/ EndFamily(p)
      PROVE  Rest'
  BY <1>0, <1>2, BeginSteps, RedeemLockStep, LoadStep, DecideStep, AuditStep, StartEndStep,
     GrantCommitStep, IssueChildStep, CommitStep, LockRowStep, EndStep
  DEF Grant, Redeem, RevokeToken, RequestDeletion, DeleteUser
<1>3. ASSUME NEW p \in Procs, Rollback(p) \/ BreakDeadlock(p) PROVE Rest'
  BY <1>3, QuietFinish DEF Rollback, BreakDeadlock
<1>4. ASSUME UNCHANGED <<now, rows, tombs, req, endedAt>> PROVE Rest'
  BY <1>4, ShrinkStep DEF Shrinks
<1>5. ASSUME NEW u \in Users, Lifecycle(u) PROVE Rest'
  BY <1>4, <1>5 DEF Lifecycle, RecoverUser, SetUserStatus
<1>6. CASE Cleanup
  <2>1. ASSUME NEW t \in Tokens, DeleteRevokedRefreshToken(t) \/ DeleteExpiredRefreshToken(t)
        PROVE  Rest'
    BY <2>1, PurgeStep DEF DeleteRevokedRefreshToken, DeleteExpiredRefreshToken
  <2> QED BY <1>6, <2>1, StaleTombstoneStep DEF Cleanup
<1>7. CASE UNCHANGED vars
  BY <1>4, <1>7 DEF vars
<1> QED BY <1>1, <1>2, <1>3, <1>5, <1>6, <1>7 DEF Next

(* A family ended by reuse detection or by /oauth/revoke never holds a     *)
(* usable token again, whatever rotations were in flight, whatever the     *)
(* grace allows and also after cleanup has dropped the tombstone.          *)
THEOREM EndedFamiliesStayDead == Spec => []EndedFamilyStaysDead
<1>1. Inv => EndedFamilyStaysDead
  BY DEF Inv, Rest, EndedOnce, EndedFamilyStaysDead
<1> QED BY InvInit, InvStep, <1>1, PTL DEF Spec

(***************************************************************************)
(* Whoever is waited for holds a family or a row.  If nobody in the circle *)
(* works user-wide, it holds the family lock, and waits for a row of its   *)
(* own family: the holder of that row holds the same family lock.          *)
(***************************************************************************)
LEMMA NoFamilyCircle ==
  ASSUME Inv, NEW S \in SUBSET Procs, Deadlocked(S),
         \A p \in S : req[p].pc \notin {"deleting", "repeating", "purging"}
  PROVE  FALSE
<1> USE DEF Inv, Rest
<1>1. \A p \in S : p \in Procs /\ Good(p)
  OBVIOUS
<1>2. ASSUME NEW p \in S, NEW q \in S, Blocks(q, p) PROVE HasFamily(q)
  BY <1>1, <1>2 DEF Blocks, Good, KnowsRows, HasFamily
<1>3. PICK q \in S : HasFamily(q)
  BY <1>2 DEF Deadlocked
<1>4. PICK r \in S : Blocks(r, q) /\ HasFamily(r)
  BY <1>2 DEF Deadlocked
<1>5. r # q /\ req[r].pc # "purging"
  BY <1>4 DEF Blocks
<1>6. PICK t \in Tokens : t \in req[r].held /\ (\/ req[q].pc = "locked" /\ req[q].tok = t
                                                \/ req[q].pc = "ending" /\ t \in req[q].snap)
  <2>1. CASE req[q].pc = "locked" /\ req[q].tok \in req[r].held
    BY <1>1, <2>1 DEF Typed, TokenPresented, Presents
  <2>2. ASSUME NEW t \in req[q].snap, t \in req[r].held PROVE t \in Tokens /\ req[q].pc = "ending"
    BY <1>1, <2>2 DEF Good, KnowsRows, Typed, TypeOK, Request
  <2> QED BY <1>3, <1>4, <1>5, <2>1, <2>2 DEF Blocks, HasFamily
<1>7. t \in InFamily(req[r].fam)
  BY <1>1, <1>4, <1>6 DEF Good, KnowsRows
<1>8. rows[t].family = req[q].fam
  BY <1>1, <1>6 DEF Good, KnowsFamily, KnowsRows, InFamily
<1>9. rows[t].family = req[r].fam
  BY <1>7 DEF InFamily
<1> QED BY <1>1, <1>3, <1>4, <1>5, <1>8, <1>9 DEF FamilyLockExclusive

(* Redemptions and revocations, which lock the family before any row,      *)
(* never wait for each other in a circle.                                  *)
THEOREM FamilyLockComesFirst == Spec => []FamilyLockOrders
<1>1. Inv => FamilyLockOrders
  BY NoFamilyCircle DEF FamilyLockOrders
<1> QED BY InvInit, InvStep, <1>1, PTL DEF Spec

(* used_at and revoked_at are written once: the user-wide revocation, which *)
(* takes no family lock, never re-dates a redeemed row, and a rotation never *)
(* overwrites a revocation.                                                  *)
THEOREM RevocationsAreFinal == Spec => RevocationIsFinal
<1>1. ASSUME Inv, [Next]_vars PROVE KeepsRevocations
  <2> USE DEF KeepsRevocations
  <2>0. Typed /\ TypeOK
    BY <1>1 DEF Inv, Typed
  <2>1. CASE UNCHANGED rows
    BY <2>1
  <2>2. ASSUME NEW S, NEW at, rows' = RevokeLive(S, at) PROVE KeepsRevocations
    BY <2>0, <2>2, RevokeLiveFacts DEF Live
  <2>3. ASSUME NEW S, rows' = Purge(S) PROVE KeepsRevocations
    BY <2>0, <2>3, PurgeFacts
  <2>4. ASSUME NEW p \in Procs, NEW t \in Tokens, NEW f \in Families, GrantCommit(p, t, f)
        PROVE  KeepsRevocations
    BY <1>1, <2>0, <2>4 DEF GrantCommit, Inv, Rest, RowsWellFormed, TypeOK
  <2>5. ASSUME NEW p \in Procs, NEW c \in Tokens, IssueChild(p, c) PROVE KeepsRevocations
    <3>1. rows[c].revoked = Null
      BY <1>1, <2>5 DEF IssueChild, Inv, Rest, RowsWellFormed
    <3>2. CASE req[p].grace
      BY <2>0, <2>5, <3>1, <3>2 DEF IssueChild, TypeOK
    <3>3. CASE ~req[p].grace
      <4>1. rows[req[p].tok].revoked = Null
        BY <1>1, <2>5, <3>3 DEF IssueChild, Inv, Rest, Good, RedeemsOnce
      <4>2. \A s \in Tokens : s # c /\ s # req[p].tok => rows'[s] = rows[s]
        BY <2>0, <2>5, <3>3 DEF IssueChild, TypeOK
      <4> QED BY <3>1, <4>1, <4>2
    <3> QED BY <3>2, <3>3
  <2>6. ASSUME NEW p \in Procs, Redeem(p) \/ RevokeToken(p) \/ EndFamily(p)
        PROVE  KeepsRevocations
    BY <2>1, <2>2, <2>5, <2>6 DEF Redeem, RevokeToken, EndFamily, TokenRequestByRefreshToken,
       RedeemBegin, RedeemLock, RedeemLoad, DecideIssue, DecideGraceRefuse, AuditGraceRefusal,
       DetectReuse, RevokeBegin, RevokeLock
  <2>7. ASSUME NEW p \in Procs, RequestDeletion(p) \/ DeleteUser(p) \/ Rollback(p) \/ BreakDeadlock(p)
        PROVE  KeepsRevocations
    BY <2>1, <2>2, <2>3, <2>7 DEF RequestDeletion, DeleteUser, Rollback, BreakDeadlock,
       RequestDeletionBegin, RequestDeletionCommit, DeleteUserBegin, DeleteUserCommit
  <2> QED
    BY <1>1, <2>1, <2>3, <2>4, <2>6, <2>7
    DEF Next, vars, Tick, Grant, GrantBegin, LockRow, Lifecycle, RecoverUser, SetUserStatus,
        Cleanup, DeleteRevokedRefreshToken, DeleteExpiredRefreshToken,
        DeleteStaleRefreshTokenFamily
<1>2. Inv /\ [Next]_vars => [KeepsRevocations]_vars
  BY <1>1
<1> QED BY InvInit, InvStep, <1>2, PTL DEF Spec, RevocationIsFinal

=============================================================================
