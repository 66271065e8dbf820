------------------------ MODULE RefreshGrantsProofs ------------------------
(***************************************************************************)
(* What the refresh-token store promises about grants: it implements       *)
(* RefreshGrants, a public client's grant is one chain, a token has a      *)
(* bounded number of children, and a deleted user has no tokens.           *)
(*                                                                         *)
(* The invariant adds to Inv of RefreshTokensProofs who the rows belong to *)
(* and how a row is dated relative to its parent.                          *)
(***************************************************************************)
EXTENDS RefreshTokensProofs, FiniteSetTheorems

USE DEF Null, Time

Issued(t) == rows[t].state # "unissued"

Issuing(p) == req[p].pc = "issuing"

(* A family has one user and one client. *)
OneOwner ==
  /\ \A p \in Procs : req[p].pc = "granting" => req[p].user \in Users
  /\ \A t \in Tokens : Issued(t) => rows[t].user \in Users
  /\ \A s, t \in Tokens : Issued(s) /\ Issued(t) /\ rows[s].family = rows[t].family =>
       rows[s].client = rows[t].client

(* A sibling is only issued for a redeemed token of a client that has the grace. *)
GraceIsGranted ==
  \A p \in Procs : Issuing(p) /\ req[p].grace =>
    rows[req[p].tok].client \in GraceClients /\ rows[req[p].tok].used # Null

(***************************************************************************)
(* A child is born when its parent is redeemed or later, so that cleanup   *)
(* removes it only when the parent has left the grace for good, even for a *)
(* request that read the clock MaxWait ago, or together with the parent.   *)
(***************************************************************************)
ChildDated(c) ==
  Issued(c) /\ rows[c].parent # Nil =>
    LET t == rows[c].parent IN
    /\ Issued(t)
    /\ rows[t].used # Null
    /\ rows[c].user = rows[t].user
    /\ rows[t].used + RefreshTTL <= rows[c].expires + MaxWait
    /\ rows[c].revoked # Null => rows[t].used <= rows[c].revoked + MaxWait
    /\ rows[c].state = "purged" =>
         rows[t].state = "purged" \/ rows[t].used + ReuseGrace + MaxWait < now

(* MaxIssued counts rows; the bound is about every child ever issued. *)
ChildrenCounted ==
  /\ \A t \in Tokens : IsFiniteSet(Children(t))
  /\ \A p \in Procs : Issuing(p) /\ req[p].grace => Cardinality(Children(req[p].tok)) < MaxIssued

(***************************************************************************)
(* The user of a grant in flight was active when the grant began; when     *)
(* deletion is requested meanwhile, the grant is over before it is due.    *)
(***************************************************************************)
GrantBeforeDeletion ==
  \A p \in Procs : req[p].pc = "granting" =>
    /\ status[req[p].user] # "deleted"
    /\ status[req[p].user] = "pending_deletion" => req[p].begun + MaxWait <= scheduled[req[p].user]

(***************************************************************************)
(* Requests that work on a user: a redemption knows the user of its row;   *)
(* UPDATEs of the users row exclude each other; and while DeleteUser runs, *)
(* the user is pending, nobody grants for it and the DELETE's rows are all *)
(* the rows of the user.                                                   *)
(***************************************************************************)
Purges(p) ==
  req[p].pc = "purging" =>
    /\ status[req[p].user] = "pending_deletion"
    /\ \A q \in Procs : req[q].pc = "granting" => req[q].user # req[p].user
    /\ \A t \in Tokens : t \in req[p].snap => Issued(t) /\ rows[t].user = req[p].user
    /\ \A t \in Tokens : Stored(t) /\ rows[t].user = req[p].user => t \in req[p].snap

UpdatesUser(p) == req[p].pc \in {"deleting", "purging"}

UserInv ==
  /\ \A p \in Procs : Holds(p) => req[p].user = rows[req[p].tok].user
  /\ \A p \in Procs : UpdatesUser(p) => req[p].user \in Users
  /\ \A p \in Procs : Purges(p)
  /\ \A p, q \in Procs : UpdatesUser(p) /\ UpdatesUser(q) /\ req[p].user = req[q].user => p = q

GrantInv ==
  /\ UserInv /\ OneOwner /\ GraceIsGranted /\ PublicGrantIsLinear
  /\ (\A c \in Tokens : ChildDated(c)) /\ ChildrenCounted /\ ChildrenBounded
  /\ GrantBeforeDeletion /\ DeletedUserHasNoTokens

LEMMA GrantInvInit == Init => GrantInv
<1> SUFFICES ASSUME Init PROVE GrantInv OBVIOUS
<1>1. \A p \in Procs : req[p].pc = "idle"
  BY DEF Init, Idle
<1>2. \A t \in Tokens : rows[t].state = "unissued"
  BY DEF Init, NoRow
<1>3. \A t \in Tokens : Children(t) = {} /\ ~Issued(t) /\ ~Stored(t) /\ ~Live(t)
  BY <1>2 DEF Children, Issued, Stored, Live
<1>4. ChildrenCounted /\ ChildrenBounded
  BY <1>1, <1>3, FS_EmptySet, TimeAssumption DEF ChildrenCounted, ChildrenBounded, Issuing
<1> QED BY <1>1, <1>3, <1>4 DEF GrantInv, OneOwner, GraceIsGranted, PublicGrantIsLinear,
      ChildDated, GrantBeforeDeletion, DeletedUserHasNoTokens, Issuing, UserInv, UpdatesUser,
      Purges, Holds

----------------------------------------------------------------------------
(* The shapes of a step, as far as the rows are concerned                  *)

(* A row of which cleanup, or the deletion of its user, may dispose. *)
Removable(t) ==
  \/ rows[t].revoked # Null /\ rows[t].revoked < now - RevokedRetention
  \/ rows[t].expires < now - ExpiredRetention
  \/ \A s \in Tokens : Stored(s) /\ rows[s].user = rows[t].user => rows'[s].state = "purged"

(* The row stays as it is, or is revoked, or is removed. *)
Lapses(t) ==
  /\ rows'[t].family = rows[t].family /\ rows'[t].user = rows[t].user
  /\ rows'[t].client = rows[t].client /\ rows'[t].parent = rows[t].parent
  /\ rows'[t].expires = rows[t].expires /\ rows'[t].used = rows[t].used
  /\ \/ rows'[t].state = rows[t].state /\ rows'[t].revoked = rows[t].revoked
     \/ /\ Live(t) /\ rows'[t].state = rows[t].state
        /\ rows'[t].revoked \in Nat /\ now <= rows'[t].revoked + MaxWait
     \/ /\ Stored(t) /\ rows'[t].state = "purged" /\ rows'[t].revoked = rows[t].revoked
        /\ Removable(t)

(* The family is revoked as a whole. *)
Ends(f) ==
  /\ \E t \in Tokens : t \in InFamily(f)
  /\ \A t \in Tokens : t \in InFamily(f) => ~Live(t)'
  /\ \A t \in Tokens : t \notin InFamily(f) => rows'[t] = rows[t]
  /\ endedAt'[f] # Null
  /\ \A g \in Families : g # f => endedAt'[g] = endedAt[g]

(* Request p redeems t and stores the child c. *)
Issues(p, t, c) ==
  /\ Issuing(p) /\ t = req[p].tok /\ Stored(t) /\ ~Issued(c) /\ UserKeyFree(rows[t].user)
  /\ rows'[c].state = "stored" /\ rows'[c].family = rows[t].family
  /\ rows'[c].user = rows[t].user /\ rows'[c].client = rows[t].client
  /\ rows'[c].parent = t /\ rows'[c].revoked = Null /\ rows'[c].used = Null
  /\ rows'[c].expires \in Nat /\ now + RefreshTTL <= rows'[c].expires + MaxWait
  /\ rows'[t].state = "stored" /\ rows'[t].family = rows[t].family
  /\ rows'[t].user = rows[t].user /\ rows'[t].client = rows[t].client
  /\ rows'[t].parent = rows[t].parent /\ rows'[t].expires = rows[t].expires
  /\ \/ req[p].grace /\ rows'[t] = rows[t]
     \/ /\ ~req[p].grace
        /\ Live(t) /\ rows[t].used = Null
        /\ rows'[t].used \in Nat /\ rows'[t].revoked = rows'[t].used
        /\ rows'[t].used <= now /\ now <= rows'[t].used + MaxWait
  /\ \A s \in Tokens : s # c /\ s # t => rows'[s] = rows[s]
  /\ endedAt' = endedAt /\ endedAt[rows[t].family] = Null
  /\ now' = now /\ status' = status /\ req'[p].pc = "idle"

LEMMA RevokeLapses ==
  ASSUME Inv, NEW S, NEW at \in Nat, now <= at + MaxWait, rows' = RevokeLive(S, at)
  PROVE  \A t \in Tokens : Lapses(t)
<1> SUFFICES ASSUME NEW t \in Tokens PROVE Lapses(t) OBVIOUS
<1>1. rows[t] \in Row /\ rows'[t] = IF t \in S /\ Live(t) THEN [rows[t] EXCEPT !.revoked = at]
                                                          ELSE rows[t]
  BY DEF RevokeLive, Inv, Typed, TypeOK
<1>2. CASE t \in S /\ Live(t)
  BY <1>1, <1>2 DEF Lapses, Row
<1>3. CASE ~(t \in S /\ Live(t))
  BY <1>1, <1>3 DEF Lapses
<1> QED BY <1>2, <1>3

LEMMA PurgeLapses ==
  ASSUME Inv, NEW S, rows' = Purge(S), \A t \in Tokens : t \in S /\ Stored(t) => Removable(t)
  PROVE  \A t \in Tokens : Lapses(t)
<1> SUFFICES ASSUME NEW t \in Tokens PROVE Lapses(t) OBVIOUS
<1>1. rows[t] \in Row /\ rows'[t] = IF t \in S /\ Stored(t) THEN [rows[t] EXCEPT !.state = "purged"]
                                                            ELSE rows[t]
  BY DEF Purge, Inv, Typed, TypeOK
<1>2. CASE t \in S /\ Stored(t)
  BY <1>1, <1>2 DEF Lapses, Row
<1>3. CASE ~(t \in S /\ Stored(t))
  BY <1>1, <1>3 DEF Lapses
<1> QED BY <1>2, <1>3

LEMMA EndShape ==
  ASSUME Inv, NEW p \in Procs, EndFamily(p)
  PROVE  /\ \A t \in Tokens : Lapses(t)
         /\ \E f \in Families : Ends(f)
<1> DEFINE f == req[p].fam
           S == req[p].snap
           at == req[p].at
<1>0. TypeOK /\ Good(p)
  BY DEF Inv, Rest, Typed
<1>1. /\ req[p].pc = "ending" /\ rows' = RevokeLive(S, at) /\ Tombstone(f, at)
  BY DEF EndFamily
<1>2. PICK z \in Tokens : z \in InFamily(f)
  BY <1>0, <1>1 DEF Good, KnowsFamily
<1>3. f \in Families
  BY <1>2 DEF Inv, Rest, RowsWellFormed, InFamily
<1>4. at \in Nat /\ now <= at + MaxWait
  BY <1>0, <1>1, TimeAssumption DEF Good, Timed, TypeOK, Request
<1>5. LiveIn(f) \subseteq S /\ S \subseteq InFamily(f)
  BY <1>0, <1>1 DEF Good, KnowsRows
<1> HIDE DEF f, S, at
<1>6. \A t \in Tokens : Lapses(t)
  BY <1>1, <1>4, RevokeLapses
<1>7. /\ endedAt'[f] = IF endedAt[f] = Null THEN now ELSE endedAt[f]
      /\ \A g \in Families : g # f => endedAt'[g] = endedAt[g]
  BY <1>0, <1>1, <1>3 DEF Tombstone, TypeOK
<1>8. endedAt'[f] # Null
  BY <1>0, <1>7 DEF TypeOK
<1>9. ASSUME NEW t \in Tokens PROVE /\ t \in InFamily(f) => ~Live(t)'
                                    /\ t \notin InFamily(f) => rows'[t] = rows[t]
  <2>1. rows[t] \in Row /\ rows'[t] = IF t \in S /\ Live(t) THEN [rows[t] EXCEPT !.revoked = at]
                                                            ELSE rows[t]
    BY <1>0, <1>1 DEF RevokeLive, TypeOK
  <2>2. t \in InFamily(f) /\ Live(t) => t \in S
    BY <1>5 DEF LiveIn
  <2>3. CASE t \in S /\ Live(t)
    BY <1>4, <1>5, <2>1, <2>3 DEF Live, Row
  <2>4. CASE ~(t \in S /\ Live(t))
    BY <2>1, <2>2, <2>4 DEF Live, Stored
  <2> QED BY <2>3, <2>4
<1> QED BY <1>2, <1>3, <1>6, <1>7, <1>8, <1>9 DEF Ends

LEMMA IssueShape ==
  ASSUME Inv, UserInv, NEW p \in Procs, NEW c \in Tokens, IssueChild(p, c)
  PROVE  \E t \in Tokens : Issues(p, t, c)
<1>1. PICK t \in Tokens : t = req[p].tok
  BY DEF IssueChild, Inv, Typed, TokenPresented, Presents
<1>0. Good(p)
  BY DEF Inv, Rest
<1>2. /\ Issuing(p) /\ Stored(t) /\ ~Issued(c) /\ req[p].fam = rows[t].family
      /\ rows[t].family \in Families /\ t # c
      /\ ~req[p].grace => rows[t].revoked = Null /\ rows[t].used = Null
      /\ UserKeyFree(rows[t].user)
  BY <1>0, <1>1 DEF IssueChild, Issuing, Issued, Inv, Rest, Good, KnowsFamily, Holds, RedeemsOnce,
     Stored, RowsWellFormed, UserInv
<1>3. endedAt[rows[t].family] = Null
  BY <1>2 DEF Inv, Rest, EndedOnce, Issuing
<1>4. PICK b \in Nat, at \in Nat : /\ b = req[p].begun /\ at = req[p].at
                                   /\ b <= at /\ at <= now /\ now <= b + MaxWait
  BY <1>0, <1>2 DEF Good, Timed, Issuing, Inv, Typed, TypeOK, Request
<1>5. rows[t] \in Row /\ rows \in [Tokens -> Row] /\ now \in Nat /\ RefreshTTL \in Nat /\ MaxWait \in Nat
  BY TimeAssumption DEF Inv, Typed, TypeOK
<1> DEFINE child == [state |-> "stored", family |-> rows[t].family, user |-> rows[t].user,
                     client |-> rows[t].client, parent |-> t, expires |-> b + RefreshTTL,
                     revoked |-> Null, used |-> Null]
           parent == IF req[p].grace THEN rows[t] ELSE [rows[t] EXCEPT !.used = at, !.revoked = at]
<1>6. /\ rows'[c] = child /\ rows'[t] = parent
      /\ \A s \in Tokens : s # c /\ s # t => rows'[s] = rows[s]
      /\ UNCHANGED <<now, endedAt, status>>
  BY <1>1, <1>2, <1>4, <1>5 DEF IssueChild
<1>7. /\ rows'[c].expires = b + RefreshTTL /\ b + RefreshTTL \in Nat
      /\ now + RefreshTTL <= (b + RefreshTTL) + MaxWait
  BY <1>4, <1>5, <1>6
<1>8. /\ rows'[c].state = "stored" /\ rows'[c].family = rows[t].family
      /\ rows'[c].user = rows[t].user /\ rows'[c].client = rows[t].client
      /\ rows'[c].parent = t /\ rows'[c].revoked = Null /\ rows'[c].used = Null
  BY <1>6
<1>9. /\ rows'[t].state = "stored" /\ rows'[t].family = rows[t].family
      /\ rows'[t].user = rows[t].user /\ rows'[t].client = rows[t].client
      /\ rows'[t].parent = rows[t].parent /\ rows'[t].expires = rows[t].expires
      /\ \/ req[p].grace /\ rows'[t] = rows[t]
         \/ ~req[p].grace /\ rows'[t].used = at /\ rows'[t].revoked = at
  BY <1>2, <1>5, <1>6 DEF Row, Stored
<1>10. /\ \/ req[p].grace /\ rows'[t] = rows[t]
          \/ /\ ~req[p].grace
             /\ Live(t) /\ rows[t].used = Null
             /\ rows'[t].used \in Nat /\ rows'[t].revoked = rows'[t].used
             /\ rows'[t].used <= now /\ now <= rows'[t].used + MaxWait
  BY <1>2, <1>4, <1>5, <1>9 DEF Live
<1> HIDE DEF child, parent
<1>12. req'[p].pc = "idle"
  BY DEF IssueChild, Finish, Idle, Inv, Typed, TypeOK
<1>11. Issues(p, t, c)
  BY <1>12, <1>1, <1>2, <1>3, <1>6, <1>7, <1>8, <1>9, <1>10 DEF Issues
<1> QED BY <1>11

(* Every step lets rows lapse, or stores one. *)
LEMMA RowsStep ==
  ASSUME Inv, UserInv, [Next]_vars
  PROVE  \/ /\ \A t \in Tokens : Lapses(t)
            /\ endedAt' = endedAt \/ \E f \in Families : Ends(f)
         \/ \E p \in Procs, t \in Tokens, f \in Families : GrantCommit(p, t, f)
         \/ \E p \in Procs, t, c \in Tokens : Issues(p, t, c)
<1> DEFINE Lapse == /\ \A t \in Tokens : Lapses(t)
                    /\ endedAt' = endedAt \/ \E f \in Families : Ends(f)
<1>1. ASSUME UNCHANGED <<rows, endedAt>> PROVE Lapse
  BY <1>1 DEF Lapses
<1>2. ASSUME NEW p \in Procs, EndFamily(p) PROVE Lapse
  BY <1>2, EndShape
<1>4. ASSUME NEW p \in Procs, RequestDeletionCommit(p) PROVE Lapse
  <2>1. req[p].begun \in Nat /\ now <= req[p].begun + MaxWait
    BY <1>4 DEF RequestDeletionCommit, Inv, Rest, Good, Timed
  <2> QED BY <1>4, <2>1, RevokeLapses DEF RequestDeletionCommit
<1>5. ASSUME NEW p \in Procs, DeleteUserCommit(p) PROVE Lapse
  <2> DEFINE owned == req[p].snap
             u == req[p].user
  <2>1. rows' = Purge(owned) /\ endedAt' = endedAt /\ req[p].pc = "purging" /\ Purges(p)
    BY <1>5 DEF DeleteUserCommit, UserInv
  <2>2. /\ \A t \in Tokens : t \in owned => rows[t].user = u
        /\ \A t \in Tokens : Stored(t) /\ rows[t].user = u => t \in owned
    BY <2>1 DEF Purges
  <2> HIDE DEF owned, u
  <2>3. \A s \in Tokens : Stored(s) /\ rows[s].user = u => rows'[s].state = "purged"
    BY <2>1, <2>2 DEF Purge, Inv, Typed, TypeOK, Row
  <2>4. \A t \in Tokens : t \in owned /\ Stored(t) => Removable(t)
    BY <2>2, <2>3 DEF Removable
  <2> QED BY <2>1, <2>4, PurgeLapses
<1>6. ASSUME NEW t \in Tokens, DeleteRevokedRefreshToken(t) \/ DeleteExpiredRefreshToken(t) PROVE Lapse
  <2>1. rows' = Purge({t}) /\ endedAt' = endedAt /\ Removable(t)
    BY <1>6 DEF DeleteRevokedRefreshToken, DeleteExpiredRefreshToken, Removable
  <2> QED BY <2>1, PurgeLapses
<1>7. ASSUME Tick \/ UNCHANGED vars PROVE Lapse
  BY <1>1, <1>7 DEF Tick, vars
<1>8. ASSUME Cleanup PROVE Lapse
  BY <1>1, <1>6, <1>8 DEF Cleanup, DeleteStaleRefreshTokenFamily
<1>9. ASSUME NEW u \in Users, Lifecycle(u) PROVE Lapse
  BY <1>1, <1>9 DEF Lifecycle, RecoverUser, SetUserStatus
<1>10. ASSUME NEW p \in Procs,
              \/ RevokeToken(p) \/ RequestDeletion(p) \/ DeleteUser(p) \/ EndFamily(p)
              \/ Rollback(p) \/ BreakDeadlock(p) \/ \E t \in Tokens : LockRow(p, t)
       PROVE  Lapse
  BY <1>1, <1>2, <1>4, <1>5, <1>10 DEF RevokeToken, RequestDeletion, DeleteUser, Rollback,
     BreakDeadlock, RevokeBegin, RevokeLock, RequestDeletionBegin, DeleteUserBegin, LockRow
<1>11. ASSUME NEW p \in Procs, Grant(p)
       PROVE  Lapse \/ \E t \in Tokens, f \in Families : GrantCommit(p, t, f)
  BY <1>1, <1>11 DEF Grant, GrantBegin
<1>12. ASSUME NEW p \in Procs, Redeem(p)
       PROVE  Lapse \/ \E t, c \in Tokens : Issues(p, t, c)
  BY <1>1, <1>12, IssueShape DEF Redeem, TokenRequestByRefreshToken, RedeemBegin, RedeemLock,
     RedeemLoad, DecideIssue, DecideGraceRefuse, AuditGraceRefusal, DetectReuse
<1> HIDE DEF Lapse
<1>13. \/ Lapse
       \/ \E p \in Procs, t \in Tokens, f \in Families : GrantCommit(p, t, f)
       \/ \E p \in Procs, t, c \in Tokens : Issues(p, t, c)
  BY <1>7, <1>8, <1>9, <1>10, <1>11, <1>12 DEF Next
<1> QED BY <1>13 DEF Lapse

LEMMA GrantShape ==
  ASSUME Inv, NEW p \in Procs, NEW t \in Tokens, NEW f \in Families, GrantCommit(p, t, f)
  PROVE  /\ req[p].pc = "granting" /\ ~Issued(t) /\ InFamily(f) = {} /\ UserKeyFree(req[p].user)
         /\ rows'[t].state = "stored" /\ rows'[t].family = f
         /\ rows'[t].user = req[p].user /\ rows'[t].parent = Nil
         /\ rows'[t].revoked = Null /\ rows'[t].used = Null
         /\ \A s \in Tokens : s # t => rows'[s] = rows[s]
         /\ UNCHANGED <<now, endedAt, status>>
BY DEF GrantCommit, Issued, Inv, Typed, TypeOK

(* What a row keeps for ever, and how it is dated when it is revoked. *)
LEMMA KeptColumns ==
  ASSUME Inv, UserInv, [Next]_vars, NEW t \in Tokens, Issued(t)
  PROVE  /\ Issued(t)'
         /\ rows'[t].family = rows[t].family /\ rows'[t].user = rows[t].user
         /\ rows'[t].client = rows[t].client /\ rows'[t].parent = rows[t].parent
         /\ rows'[t].expires = rows[t].expires
         /\ rows[t].used # Null => rows'[t].used = rows[t].used
         /\ \/ rows'[t].revoked = rows[t].revoked
            \/ rows[t].revoked = Null /\ now <= rows'[t].revoked + MaxWait
         /\ rows[t].state = "purged" => rows'[t].state = "purged"
<1>1. CASE \A s \in Tokens : Lapses(s)
  BY <1>1 DEF Lapses, Issued, Stored, Live
<1>2. ASSUME NEW p \in Procs, NEW s \in Tokens, NEW f \in Families, GrantCommit(p, s, f)
      PROVE  rows'[t] = rows[t]
  BY <1>2, GrantShape DEF Issued
<1>3. ASSUME NEW p \in Procs, NEW s \in Tokens, NEW c \in Tokens, Issues(p, s, c)
      PROVE  \/ rows'[t] = rows[t]
             \/ /\ rows'[t].state = "stored" /\ rows[t].state = "stored"
                /\ rows'[t].family = rows[t].family /\ rows'[t].user = rows[t].user
                /\ rows'[t].client = rows[t].client /\ rows'[t].parent = rows[t].parent
                /\ rows'[t].expires = rows[t].expires
                /\ rows[t].used = Null /\ rows[t].revoked = Null
                /\ now <= rows'[t].revoked + MaxWait
  BY <1>3 DEF Issues, Issued, Live, Stored
<1> QED BY <1>1, <1>2, <1>3, RowsStep DEF Issued

(* A step moves one request. *)
LEMMA OneMoves ==
  ASSUME Inv, NEW p \in Procs,
         \/ Grant(p) \/ Redeem(p) \/ RevokeToken(p) \/ RequestDeletion(p) \/ DeleteUser(p)
         \/ EndFamily(p) \/ BreakDeadlock(p) \/ Rollback(p)
         \/ \E t \in Tokens : LockRow(p, t)
  PROVE  \A q \in Procs : q # p => req'[q] = req[q]
<1>0. req \in [Procs -> Request]
  BY DEF Inv, Typed, TypeOK
<1>1. ASSUME \E r : req' = [req EXCEPT ![p] = r] PROVE \A q \in Procs : q # p => req'[q] = req[q]
  BY <1>0, <1>1
<1>2. CASE Finish(p)
  BY <1>1, <1>2 DEF Finish
<1>3. CASE Grant(p)
  BY <1>1, <1>2, <1>3 DEF Grant, GrantBegin, GrantCommit
<1>4. CASE Redeem(p)
  BY <1>0, <1>1, <1>2, <1>4 DEF Redeem, TokenRequestByRefreshToken, RedeemBegin, RedeemLock, RedeemLoad,
     DecideIssue, DecideGraceRefuse, AuditGraceRefusal, DetectReuse, IssueChild
<1>5. CASE RevokeToken(p)
  BY <1>0, <1>1, <1>5 DEF RevokeToken, RevokeBegin, RevokeLock
<1>6. CASE RequestDeletion(p) \/ DeleteUser(p)
  BY <1>1, <1>2, <1>6 DEF RequestDeletion, DeleteUser, RequestDeletionBegin, RequestDeletionCommit,
     DeleteUserBegin, DeleteUserCommit
<1>7. CASE EndFamily(p) \/ BreakDeadlock(p) \/ Rollback(p)
  BY <1>2, <1>7 DEF EndFamily, BreakDeadlock, Rollback
<1>8. CASE \E t \in Tokens : LockRow(p, t)
  BY <1>8, LockRowFacts
<1> QED BY <1>3, <1>4, <1>5, <1>6, <1>7, <1>8

(* The doors through which a request enters the states the invariant is    *)
(* about.                                                                  *)
LEMMA RequestMoves ==
  ASSUME Inv, [Next]_vars, NEW q \in Procs, req'[q] # req[q],
         req'[q].pc \in {"granting", "loaded", "issuing", "deleting", "purging"}
  PROVE  \/ \E u \in Users, c \in Clients : GrantBegin(q, u, c)
         \/ RedeemLoad(q) \/ DecideIssue(q)
         \/ \E u \in Users : RequestDeletionBegin(q, u) \/ DeleteUserBegin(q, u)
         \/ \E t \in Tokens : LockRow(q, t)
<1>0. Typed /\ req \in [Procs -> Request]
  BY DEF Inv, Typed, TypeOK
<1>1. \/ Grant(q) \/ Redeem(q) \/ RevokeToken(q) \/ RequestDeletion(q) \/ DeleteUser(q)
      \/ EndFamily(q) \/ BreakDeadlock(q) \/ Rollback(q)
      \/ \E t \in Tokens : LockRow(q, t)
  BY OneMoves DEF Next, vars, Tick, Lifecycle, RecoverUser, SetUserStatus, Cleanup,
     DeleteRevokedRefreshToken, DeleteExpiredRefreshToken, DeleteStaleRefreshTokenFamily
<1>2. ~Finish(q)
  BY <1>0, FinishFacts
<1>3. ASSUME req' = [req EXCEPT ![q].pc = "locked"] \/ req' = [req EXCEPT ![q].pc = "auditing"]
      PROVE  FALSE
  BY <1>0, <1>3 DEF Request
<1>4. ASSUME NEW S, req' = [req EXCEPT ![q].pc = "ending", ![q].snap = S] PROVE FALSE
  BY <1>0, <1>4 DEF Request
<1>5. ASSUME NEW t \in Tokens, TokenRequestByRefreshToken(q, t) PROVE FALSE
  BY <1>0, <1>5 DEF TokenRequestByRefreshToken, Idle
<1>6. ~RedeemBegin(q)
  BY <1>0, <1>2 DEF RedeemBegin, Idle
<1>7. ASSUME NEW t \in Tokens, NEW c \in Clients, RevokeBegin(q, t, c) PROVE FALSE
  BY <1>0, <1>7 DEF RevokeBegin, Idle
<1> QED BY <1>1, <1>2, <1>3, <1>4, <1>5, <1>6, <1>7 DEF Grant, Redeem, RevokeToken, RequestDeletion,
    DeleteUser, GrantCommit, RedeemLock, DecideGraceRefuse, AuditGraceRefusal, DetectReuse,
    IssueChild, RevokeLock, RequestDeletionCommit, DeleteUserCommit, EndFamily, BreakDeadlock,
    Rollback

(* A request enters granting and issuing through these two doors. *)
LEMMA RequestStep ==
  ASSUME Inv, [Next]_vars, NEW q \in Procs, req'[q].pc \in {"granting", "issuing"}
  PROVE  \/ req'[q] = req[q]
         \/ \E u \in Users, c \in Clients : GrantBegin(q, u, c)
         \/ DecideIssue(q)
<1>0. Typed /\ req \in [Procs -> Request]
  BY DEF Inv, Typed, TypeOK
<1>1. ~RedeemLoad(q)
  <2> SUFFICES ASSUME RedeemLoad(q) PROVE FALSE OBVIOUS
  <2>1. ~Finish(q)
    BY <1>0, FinishFacts
  <2> DEFINE u == rows[req[q].tok].user
  <2>2. req' = [req EXCEPT ![q].pc = "loaded", ![q].at = now, ![q].held = {req[q].tok}, ![q].user = u]
    BY <2>1 DEF RedeemLoad
  <2> HIDE DEF u
  <2> QED BY <1>0, <2>2 DEF Request
<1>2. ASSUME NEW u \in Users, RequestDeletionBegin(q, u) \/ DeleteUserBegin(q, u) PROVE FALSE
  BY <1>0, <1>2 DEF RequestDeletionBegin, DeleteUserBegin, Idle
<1>3. ASSUME NEW t \in Tokens, LockRow(q, t) PROVE FALSE
  BY <1>3, LockRowFacts
<1> QED BY <1>1, <1>2, <1>3, RequestMoves

(* The decision to issue is about the row as it is at the commit. *)
LEMMA IssuingToken ==
  ASSUME Inv, NEW p \in Procs, Issuing(p)
  PROVE  req[p].tok \in Tokens /\ Issued(req[p].tok) /\ Stored(req[p].tok)
BY DEF Inv, Rest, Typed, TokenPresented, Presents, Good, KnowsFamily, Holds, Issuing, Issued, Stored

LEMMA DecideFacts ==
  ASSUME Inv, NEW p \in Procs, DecideIssue(p)
  PROVE  /\ req[p].tok \in Tokens /\ Stored(req[p].tok)
         /\ req'[p].pc = "issuing" /\ req'[p].tok = req[p].tok
         /\ req'[p].grace = Replayed(req[p].tok)
         /\ rows' = rows
<1> DEFINE g == Replayed(req[p].tok)
<1>1. req' = [req EXCEPT ![p].pc = "issuing", ![p].grace = g] /\ req[p].pc = "loaded" /\ rows' = rows
  BY DEF DecideIssue
<1> HIDE DEF g
<1>2. req'[p].pc = "issuing" /\ req'[p].tok = req[p].tok /\ req'[p].grace = g
  BY <1>1 DEF Inv, Typed, TypeOK, Request
<1>3. req[p].tok \in Tokens /\ Stored(req[p].tok)
  BY <1>1 DEF Inv, Rest, Typed, TokenPresented, Presents, Good, KnowsFamily, Holds
<1> QED BY <1>1, <1>2, <1>3 DEF g

----------------------------------------------------------------------------
LEMMA OwnerStep == ASSUME Inv, UserInv, OneOwner, [Next]_vars PROVE OneOwner'
<1>1. ASSUME NEW q \in Procs, req'[q].pc = "granting" PROVE req'[q].user \in Users
  <2>1. CASE req'[q] = req[q]
    BY <1>1, <2>1 DEF OneOwner
  <2>2. ASSUME NEW u \in Users, NEW c \in Clients, GrantBegin(q, u, c) PROVE req'[q].user \in Users
    BY <2>2 DEF GrantBegin, Idle, Inv, Typed, TypeOK
  <2>3. ~DecideIssue(q)
    BY <1>1, DecideFacts
  <2> QED BY <1>1, <2>1, <2>2, <2>3, RequestStep
<1>2. CASE \A t \in Tokens : Lapses(t)
  <2>1. \A t \in Tokens : Issued(t)' => Issued(t)
    BY <1>2 DEF Lapses, Issued, Stored
  <2> QED BY <1>1, <2>1, KeptColumns DEF OneOwner
<1>3. ASSUME NEW p \in Procs, NEW t \in Tokens, NEW f \in Families, GrantCommit(p, t, f)
      PROVE  OneOwner'
  <2>1. rows'[t].user \in Users /\ rows'[t].family = f /\ \A s \in Tokens : s # t => rows'[s] = rows[s]
    BY <1>3, GrantShape DEF OneOwner
  <2>2. \A s \in Tokens : s # t /\ Issued(s) => rows[s].family # f
    BY <1>3, GrantShape DEF InFamily, Issued
  <2> QED BY <1>1, <2>1, <2>2 DEF OneOwner, Issued
<1>4. ASSUME NEW p \in Procs, NEW t \in Tokens, NEW c \in Tokens, Issues(p, t, c)
      PROVE  OneOwner'
  <2>1. /\ Issued(t) /\ rows'[c].user = rows[t].user /\ rows'[c].client = rows[t].client
        /\ rows'[c].family = rows[t].family
        /\ \A s \in Tokens : s # c /\ Issued(s)' => Issued(s)
    BY <1>4 DEF Issues, Issued, Stored
  <2>2. \A s \in Tokens : Issued(s)' =>
          \E r \in Tokens : /\ Issued(r) /\ rows'[s].user = rows[r].user
                            /\ rows'[s].client = rows[r].client /\ rows'[s].family = rows[r].family
    BY <2>1, KeptColumns
  <2> QED BY <1>1, <2>2 DEF OneOwner
<1> QED BY <1>2, <1>3, <1>4, RowsStep

LEMMA GraceStep == ASSUME Inv, UserInv, GraceIsGranted, [Next]_vars PROVE GraceIsGranted'
<1> SUFFICES ASSUME NEW q \in Procs, req'[q].pc = "issuing", req'[q].grace
             PROVE  rows'[req'[q].tok].client \in GraceClients /\ rows'[req'[q].tok].used # Null
  BY DEF GraceIsGranted, Issuing
<1>1. CASE req'[q] = req[q]
  <2>1. Issuing(q) /\ req[q].grace /\ req[q].tok \in Tokens /\ Issued(req[q].tok)
    BY <1>1, IssuingToken DEF Issuing
  <2> QED BY <1>1, <2>1, KeptColumns DEF GraceIsGranted
<1>2. CASE DecideIssue(q)
  <2>1. GraceApplies(req[q].tok, req[q].at)
    BY <1>2, DecideFacts DEF DecideIssue
  <2> QED BY <1>2, <2>1, DecideFacts DEF GraceApplies
<1>3. ASSUME NEW u \in Users, NEW c \in Clients, GrantBegin(q, u, c) PROVE FALSE
  BY <1>3 DEF GrantBegin, Idle, Inv, Typed, TypeOK
<1> QED BY <1>1, <1>2, <1>3, RequestStep

(* A rotation takes the one usable token of the chain away. *)
LEMMA LinearStep ==
  ASSUME Inv, UserInv, OneOwner, GraceIsGranted, PublicGrantIsLinear, [Next]_vars
  PROVE  PublicGrantIsLinear'
<1> SUFFICES ASSUME NEW s \in Tokens, NEW r \in Tokens, Live(s)', Live(r)',
                    rows'[s].family = rows'[r].family, rows'[s].client \notin GraceClients
             PROVE  s = r
  BY DEF PublicGrantIsLinear
<1>1. CASE \A t \in Tokens : Lapses(t)
  <2>1. \A t \in {s, r} : Live(t) /\ rows'[t].family = rows[t].family /\ rows'[t].client = rows[t].client
    BY <1>1 DEF Lapses, Live, Stored
  <2> QED BY <2>1 DEF PublicGrantIsLinear
<1>2. ASSUME NEW p \in Procs, NEW t \in Tokens, NEW f \in Families, GrantCommit(p, t, f)
      PROVE  s = r
  <2>1. /\ rows'[t].family = f /\ \A z \in Tokens : z # t => rows'[z] = rows[z]
        /\ \A z \in Tokens : Issued(z) => rows[z].family # f
    BY <1>2, GrantShape DEF InFamily, Issued
  <2>2. \A z \in {s, r} : z # t => Live(z) /\ rows[z].family # f
    BY <2>1 DEF Live, Stored, Issued
  <2> QED BY <2>1, <2>2 DEF PublicGrantIsLinear
<1>3. ASSUME NEW p \in Procs, NEW t \in Tokens, NEW c \in Tokens, Issues(p, t, c)
      PROVE  s = r
  <2>1. \A z \in {s, r} : z # c => Live(z) /\ rows'[z].family = rows[z].family
                                          /\ rows'[z].client = rows[z].client
    <3>1. \A z \in {s, r} : z # c /\ z # t => rows'[z] = rows[z]
      BY <1>3 DEF Issues
    <3>2. Live(t)' => Live(t)
      BY <1>3 DEF Issues, Live, Stored
    <3> QED BY <1>3, <3>1, <3>2 DEF Live, Stored, Issues
  <2>2. ASSUME NEW z \in {s, r}, z # c, rows'[z].family = rows'[c].family,
               rows'[c].client \notin GraceClients
        PROVE  FALSE
    <3>1. /\ Issuing(p) /\ t = req[p].tok /\ rows'[c].client = rows[t].client
          /\ rows'[c].family = rows[t].family /\ Issued(t)
      BY <1>3 DEF Issues, Issued, Stored
    <3>2. ~req[p].grace
      BY <2>2, <3>1 DEF GraceIsGranted
    <3>3. Live(t) /\ ~Live(t)'
      BY <1>3, <3>2 DEF Issues, Live
    <3>4. Live(z) /\ rows[z].family = rows[t].family /\ z # t
      BY <2>1, <2>2, <3>1, <3>3
    <3>5. rows[z].client = rows[t].client
      BY <3>1, <3>4 DEF OneOwner, Issued, Live, Stored
    <3> QED BY <2>2, <3>1, <3>3, <3>4, <3>5 DEF PublicGrantIsLinear
  <2>3. CASE s # c /\ r # c
    BY <2>1, <2>3 DEF PublicGrantIsLinear
  <2>4. CASE s = c /\ r # c
    BY <2>2, <2>4
  <2>5. CASE s # c /\ r = c
    <3>1. rows'[c].client = rows[t].client /\ rows'[c].family = rows[t].family /\ Issued(t)
      BY <1>3 DEF Issues, Issued, Stored
    <3>2. rows[s].client = rows[t].client
      BY <2>1, <2>5, <3>1 DEF OneOwner, Issued, Live, Stored
    <3> QED BY <2>1, <2>2, <2>5, <3>1, <3>2
  <2> QED BY <2>3, <2>4, <2>5
<1> QED BY <1>1, <1>2, <1>3, RowsStep

LEMMA ClockStep == ASSUME [Next]_vars PROVE now' = now \/ now' = now + 1
<1>1. ASSUME NEW p \in Procs, Redeem(p) \/ RevokeToken(p) \/ EndFamily(p) PROVE now' = now
  BY <1>1 DEF Redeem, RevokeToken, EndFamily, TokenRequestByRefreshToken, RedeemBegin, RedeemLock,
     RedeemLoad, DecideIssue, DecideGraceRefuse, AuditGraceRefusal, DetectReuse, IssueChild,
     RevokeBegin, RevokeLock
<1>2. ASSUME NEW p \in Procs,
             \/ Grant(p) \/ RequestDeletion(p) \/ DeleteUser(p) \/ Rollback(p) \/ BreakDeadlock(p)
             \/ \E t \in Tokens : LockRow(p, t)
      PROVE  now' = now
  BY <1>2 DEF Grant, RequestDeletion, DeleteUser, Rollback, BreakDeadlock, LockRow, GrantBegin,
     GrantCommit, RequestDeletionBegin, RequestDeletionCommit, DeleteUserBegin, DeleteUserCommit
<1> QED BY <1>1, <1>2 DEF Next, vars, Tick, Lifecycle, RecoverUser, SetUserStatus, Cleanup,
    DeleteRevokedRefreshToken, DeleteExpiredRefreshToken, DeleteStaleRefreshTokenFamily

(* Retention against grace: RetentionAssumption. *)
LEMMA ChildStep ==
  ASSUME Inv, UserInv, GraceIsGranted, [Next]_vars, NEW c \in Tokens, ChildDated(c)
  PROVE  ChildDated(c)'
<1>0. /\ now \in Nat /\ now' \in Nat /\ now <= now' /\ rows \in [Tokens -> Row]
      /\ rows' \in [Tokens -> Row]
  <2>1. Typed /\ Typed'
    BY TypedStep DEF Inv
  <2>2. now' = now \/ now' = now + 1
    BY ClockStep
  <2> QED BY <2>1, <2>2 DEF Typed, TypeOK
<1>1. CASE Issued(c) /\ rows[c].parent # Nil
  <2>1. PICK t \in Tokens : t = rows[c].parent
    BY <1>0, <1>1 DEF Row
  <2>2. /\ Issued(t) /\ rows[t].used # Null /\ rows[c].user = rows[t].user
        /\ rows[t].used + RefreshTTL <= rows[c].expires + MaxWait
        /\ rows[c].revoked # Null => rows[t].used <= rows[c].revoked + MaxWait
        /\ rows[c].state = "purged" =>
             rows[t].state = "purged" \/ rows[t].used + ReuseGrace + MaxWait < now
    BY <1>1, <2>1 DEF ChildDated
  <2>3. /\ Issued(t)' /\ rows'[t].used = rows[t].used /\ rows'[t].user = rows[t].user
        /\ rows[t].state = "purged" => rows'[t].state = "purged"
    BY <2>2, KeptColumns
  <2>4. /\ Issued(c)' /\ rows'[c].parent = t /\ rows'[c].user = rows[c].user
        /\ rows'[c].expires = rows[c].expires
        /\ \/ rows'[c].revoked = rows[c].revoked
           \/ rows[c].revoked = Null /\ now <= rows'[c].revoked + MaxWait
    BY <1>1, <2>1, KeptColumns
  <2>5. /\ rows[t].used \in Nat /\ rows[t].used <= now
        /\ rows[c].expires \in Int /\ rows[c].revoked \in Int /\ rows'[c].revoked \in Int
    BY <1>0, <2>2 DEF Row, Inv, Rest, RowsWellFormed, Issued
  <2>6. rows'[c].revoked # Null => rows[t].used <= rows'[c].revoked + MaxWait
    BY <1>0, <2>2, <2>4, <2>5, TimeAssumption
  <2>7. ASSUME rows'[c].state = "purged"
        PROVE  rows'[t].state = "purged" \/ rows[t].used + ReuseGrace + MaxWait < now'
    <3>1. CASE rows[c].state = "purged"
      BY <1>0, <2>2, <2>3, <2>5, <3>1, TimeAssumption
    <3>2. CASE rows[c].state # "purged"
      <4>1. Lapses(c) /\ \A s \in Tokens : Lapses(s)
        <5>1. ASSUME NEW p \in Procs, NEW s \in Tokens, NEW f \in Families, GrantCommit(p, s, f)
              PROVE  FALSE
          BY <1>1, <2>7, <3>2, <5>1, GrantShape
        <5>2. ASSUME NEW p \in Procs, NEW s \in Tokens, NEW z \in Tokens, Issues(p, s, z)
              PROVE  FALSE
          BY <1>1, <2>7, <3>2, <5>2 DEF Issues
        <5> QED BY <5>1, <5>2, RowsStep
      <4>2. Removable(c)
        BY <2>7, <3>2, <4>1 DEF Lapses, Stored
      <4>3. CASE rows[c].revoked # Null /\ rows[c].revoked < now - RevokedRetention
        BY <1>0, <2>2, <2>5, <4>3, TimeAssumption, RetentionAssumption
      <4>4. CASE rows[c].expires < now - ExpiredRetention
        BY <1>0, <2>2, <2>5, <4>4, TimeAssumption, RetentionAssumption
      <4>5. CASE \A s \in Tokens : Stored(s) /\ rows[s].user = rows[c].user => rows'[s].state = "purged"
        <5>1. rows[t].state \in {"stored", "purged"}
          BY <1>0, <2>2 DEF Row, Issued
        <5> QED BY <2>2, <2>3, <4>5, <5>1 DEF Stored
      <4> QED BY <4>2, <4>3, <4>4, <4>5 DEF Removable
    <3> QED BY <3>1, <3>2
  <2> QED BY <2>2, <2>3, <2>4, <2>6, <2>7 DEF ChildDated
<1>2. CASE Issued(c) /\ rows[c].parent = Nil
  BY <1>2, KeptColumns DEF ChildDated
<1>3. CASE ~Issued(c)
  <2>1. CASE \A s \in Tokens : Lapses(s)
    BY <1>3, <2>1 DEF Lapses, Issued, Stored, ChildDated
  <2>2. ASSUME NEW p \in Procs, NEW s \in Tokens, NEW f \in Families, GrantCommit(p, s, f)
        PROVE  ChildDated(c)'
    BY <1>3, <2>2, GrantShape DEF ChildDated, Issued
  <2>3. ASSUME NEW p \in Procs, NEW t \in Tokens, NEW z \in Tokens, Issues(p, t, z)
        PROVE  ChildDated(c)'
    <3>1. CASE z # c
      BY <1>3, <2>3, <3>1 DEF Issues, Issued, Stored, ChildDated
    <3>2. CASE z = c
      <4>1. rows'[t].used # Null /\ rows'[t].used \in Nat /\ rows'[t].used <= now
        <5>1. CASE ~req[p].grace
          BY <2>3, <5>1 DEF Issues
        <5>2. CASE req[p].grace
          BY <1>0, <2>3, <5>2 DEF Issues, Inv, Rest, GraceIsGranted, RowsWellFormed, Row, Stored
        <5> QED BY <5>1, <5>2
      <4>2. /\ rows'[c].parent = t /\ rows'[t].state = "stored" /\ rows'[c].user = rows'[t].user
            /\ rows'[c].revoked = Null /\ rows'[c].state = "stored"
            /\ rows'[c].expires \in Nat /\ now + RefreshTTL <= rows'[c].expires + MaxWait
        BY <2>3, <3>2 DEF Issues
      <4>3. rows'[t].used + RefreshTTL <= rows'[c].expires + MaxWait
        BY <1>0, <4>1, <4>2, TimeAssumption
      <4> QED BY <4>1, <4>2, <4>3 DEF ChildDated, Issued
    <3> QED BY <3>1, <3>2
  <2> QED BY <2>1, <2>2, <2>3, RowsStep
<1> QED BY <1>1, <1>2, <1>3

(* At the decision no child has been removed yet. *)
LEMMA CountIsExact ==
  ASSUME Inv, \A c \in Tokens : ChildDated(c), NEW p \in Procs, DecideIssue(p),
         Replayed(req[p].tok), IsFiniteSet(Children(req[p].tok))
  PROVE  Cardinality(Children(req[p].tok)) < MaxIssued
<1>1. PICK t \in Tokens : t = req[p].tok /\ Stored(t)
  BY DecideFacts
<1>2. GraceApplies(t, req[p].at) /\ ~GraceExhausted(t) /\ req[p].pc = "loaded"
  BY <1>1 DEF DecideIssue
<1>3. /\ req[p].at \in Int /\ now \in Nat /\ now <= req[p].at + MaxWait
      /\ rows[t].used \in Nat /\ req[p].at - rows[t].used <= ReuseGrace
  BY <1>2, TimeAssumption DEF Inv, Rest, Good, Timed, Typed, TypeOK, Request, Row, GraceApplies
<1>4. ASSUME NEW c \in Children(t) PROVE Stored(c)
  <2>1. c \in Tokens /\ Issued(c) /\ rows[c].parent = t /\ t # Nil
    BY NilAssumption DEF Children, Issued
  <2>2. rows[c].state = "purged" => rows[t].state = "purged" \/ rows[t].used + ReuseGrace + MaxWait < now
    BY <2>1 DEF ChildDated
  <2>3. rows[c].state # "purged"
    BY <1>1, <1>3, <2>2, TimeAssumption DEF Stored
  <2> QED BY <2>1, <2>3 DEF Issued, Stored, Inv, Typed, TypeOK, Row
<1>5. {c \in Children(t) : Stored(c)} = Children(t)
  BY <1>4
<1>6. ~(Cardinality(Children(t)) >= MaxIssued)
  BY <1>2, <1>5 DEF GraceExhausted
<1>7. Cardinality(Children(t)) \in Nat
  BY <1>1, FS_CardinalityType
<1> QED BY <1>1, <1>6, <1>7, TimeAssumption

LEMMA CountStep ==
  ASSUME Inv, UserInv, GraceIsGranted, \A c \in Tokens : ChildDated(c), ChildrenCounted, ChildrenBounded,
         [Next]_vars
  PROVE  ChildrenCounted' /\ ChildrenBounded'
<1>0. \A t \in Tokens : /\ IsFiniteSet(Children(t)) /\ Cardinality(Children(t)) \in Nat
                        /\ Cardinality(Children(t)) <= IF rows[t].client \in GraceClients
                                                       THEN MaxIssued ELSE 1
  BY FS_CardinalityType DEF ChildrenCounted, ChildrenBounded
(* Only a commit of the rotation changes the number of children. *)
<1>1. ASSUME NEW t \in Tokens, Children(t)' # Children(t)
      PROVE  \E p \in Procs, c \in Tokens :
               Issues(p, t, c) /\ Children(t)' = Children(t) \cup {c} /\ c \notin Children(t)
  <2>1. CASE \A s \in Tokens : Lapses(s)
    BY <1>1, <2>1 DEF Lapses, Children, Stored
  <2>2. ASSUME NEW p \in Procs, NEW s \in Tokens, NEW f \in Families, GrantCommit(p, s, f)
        PROVE  FALSE
    BY <1>1, <2>2, GrantShape, NilAssumption DEF Children, Issued
  <2>3. ASSUME NEW p \in Procs, NEW s \in Tokens, NEW c \in Tokens, Issues(p, s, c)
        PROVE  /\ s = t /\ Children(t)' = Children(t) \cup {c} /\ c \notin Children(t)
    <3>1. /\ rows'[c].state = "stored" /\ rows'[c].parent = s /\ rows[c].state = "unissued"
          /\ \A z \in Tokens : z # c => /\ rows'[z].parent = rows[z].parent
                                        /\ rows'[z].state = rows[z].state
      BY <2>3 DEF Issues, Issued, Stored
    <3>2. Children(t)' = IF s = t THEN Children(t) \cup {c} ELSE Children(t)
      BY <3>1 DEF Children
    <3>3. c \notin Children(t)
      BY <3>1 DEF Children
    <3> QED BY <1>1, <3>2, <3>3
  <2> QED BY <2>1, <2>2, <2>3, RowsStep
<1>2. ASSUME NEW t \in Tokens, Children(t)' # Children(t)
      PROVE  /\ IsFiniteSet(Children(t)') /\ Issued(t)
             /\ Cardinality(Children(t)') <= IF rows[t].client \in GraceClients THEN MaxIssued ELSE 1
  <2>1. PICK p \in Procs, c \in Tokens :
          Issues(p, t, c) /\ Children(t)' = Children(t) \cup {c} /\ c \notin Children(t)
    BY <1>1, <1>2
  <2>2. IsFiniteSet(Children(t)') /\ Cardinality(Children(t)') = Cardinality(Children(t)) + 1
    BY <1>0, <2>1, FS_AddElement
  <2>3. Issuing(p) /\ t = req[p].tok /\ Issued(t) /\ (~req[p].grace => rows[t].used = Null)
    BY <2>1 DEF Issues, Issued, Stored
  <2>4. CASE req[p].grace
    BY <1>0, <2>2, <2>3, <2>4, TimeAssumption DEF GraceIsGranted, ChildrenCounted
  <2>5. CASE ~req[p].grace
    <3>1. Children(t) = {}
      BY <2>3, <2>5, NilAssumption DEF ChildDated, Children, Issued
    <3>2. Cardinality(Children(t)) = 0
      BY <3>1, FS_EmptySet
    <3> QED BY <2>2, <2>3, <3>2, TimeAssumption
  <2> QED BY <2>4, <2>5
<1>3. ASSUME NEW t \in Tokens, Children(t)' = Children(t), ~Issued(t)
      PROVE  Children(t) = {}
  BY <1>3, NilAssumption DEF ChildDated, Children, Issued
<1>4. ChildrenBounded'
  <2> SUFFICES ASSUME NEW t \in Tokens
               PROVE  Cardinality(Children(t)') <= IF rows'[t].client \in GraceClients
                                                   THEN MaxIssued ELSE 1
    BY DEF ChildrenBounded
  <2>1. CASE Issued(t)
    <3>1. rows'[t].client = rows[t].client
      BY <2>1, KeptColumns
    <3> QED BY <1>0, <1>2, <3>1
  <2>2. CASE ~Issued(t)
    <3>1. Cardinality(Children(t)') = 0
      BY <1>2, <1>3, <2>2, FS_EmptySet
    <3> QED BY <3>1, TimeAssumption
  <2> QED BY <2>1, <2>2
<1>5. \A t \in Tokens : IsFiniteSet(Children(t)')
  BY <1>0, <1>2
<1>6. ASSUME NEW q \in Procs, req'[q].pc = "issuing", req'[q].grace
      PROVE  Cardinality(Children(req[q].tok)') < MaxIssued
  <2>1. CASE req'[q] = req[q]
    <3>1. PICK t \in Tokens : t = req[q].tok /\ Issuing(q) /\ req[q].grace /\ Issued(t)
      BY <1>6, <2>1, IssuingToken DEF Issuing
    <3>2. Children(t)' = Children(t)
      <4> SUFFICES ASSUME Children(t)' # Children(t) PROVE FALSE OBVIOUS
      <4>1. PICK p \in Procs, c \in Tokens : Issues(p, t, c)
        BY <1>1
      <4>2. req[p].fam = rows[t].family /\ req[q].fam = rows[t].family /\ HasFamily(p) /\ HasFamily(q)
        BY <3>1, <4>1 DEF Issues, Issuing, Inv, Rest, Good, KnowsFamily, HasFamily
      <4>3. p = q
        BY <4>2 DEF Inv, Rest, FamilyLockExclusive
      <4> QED BY <1>6, <4>1, <4>3 DEF Issues
    <3> QED BY <2>1, <3>1, <3>2 DEF ChildrenCounted
  <2>2. CASE DecideIssue(q)
    <3>1. PICK t \in Tokens : t = req[q].tok /\ rows' = rows /\ Replayed(req[q].tok)
      BY <1>6, <2>2, DecideFacts
    <3>2. Children(t)' = Children(t)
      BY <3>1 DEF Children
    <3> QED BY <1>0, <2>2, <3>1, <3>2, CountIsExact, DecideFacts
  <2>3. ASSUME NEW u \in Users, NEW c \in Clients, GrantBegin(q, u, c) PROVE FALSE
    BY <1>6, <2>3 DEF GrantBegin, Idle, Inv, Typed, TypeOK
  <2> QED BY <1>6, <2>1, <2>2, <2>3, RequestStep
<1>7. ChildrenCounted'
  BY <1>5, <1>6 DEF ChildrenCounted, Issuing
<1> QED BY <1>4, <1>7

(* A statement over the users row, and who writes the row. *)
LEMMA UserStep ==
  ASSUME Inv, UserInv, [Next]_vars, NEW u \in Users
  PROVE  \/ status'[u] = status[u] /\ scheduled'[u] = scheduled[u]
         \/ /\ status'[u] = "pending_deletion" /\ scheduled'[u] \in Nat
            /\ now + MaxWait <= scheduled'[u]
            /\ \E p \in Procs : req[p].pc = "deleting" /\ req[p].user = u
         \/ status'[u] \in {"active", "disabled"} /\ UserFree(u)
         \/ \E p \in Procs : DeleteUserCommit(p) /\ req[p].user = u
<1>0. status \in [Users -> Status] /\ scheduled \in [Users -> Time]
  BY DEF Inv, Typed, TypeOK
<1>1. CASE UNCHANGED <<status, scheduled>>
  BY <1>1
<1>2. ASSUME NEW p \in Procs, RequestDeletionCommit(p), ~UNCHANGED <<status, scheduled>>
      PROVE  \/ status'[u] = status[u] /\ scheduled'[u] = scheduled[u]
             \/ /\ status'[u] = "pending_deletion" /\ scheduled'[u] \in Nat
                /\ now + MaxWait <= scheduled'[u]
                /\ req[p].pc = "deleting" /\ req[p].user = u
  <2>1. /\ status' = [status EXCEPT ![req[p].user] = "pending_deletion"]
        /\ scheduled' = [scheduled EXCEPT ![req[p].user] = req[p].begun + DeletionDelay]
        /\ req[p].pc = "deleting"
    BY <1>2 DEF RequestDeletionCommit
  <2>2. req[p].begun \in Nat /\ now <= req[p].begun + MaxWait /\ now \in Nat
    BY <2>1 DEF Inv, Rest, Good, Timed, Typed, TypeOK
  <2>3. req[p].begun + DeletionDelay \in Nat /\ now + MaxWait <= req[p].begun + DeletionDelay
    BY <2>2, TimeAssumption, RetentionAssumption
  <2> QED BY <1>0, <2>1, <2>3
<1>3. ASSUME NEW v \in Users, Lifecycle(v)
      PROVE  \/ status'[u] = status[u] /\ scheduled'[u] = scheduled[u]
             \/ status'[u] \in {"active", "disabled"} /\ UserFree(u)
  <2>1. CASE RecoverUser(v)
    BY <1>0, <2>1 DEF RecoverUser
  <2>2. ASSUME NEW s \in AdminStatuses, SetUserStatus(v, s)
        PROVE  \/ status'[u] = status[u] /\ scheduled'[u] = scheduled[u]
               \/ status'[u] \in {"active", "disabled"} /\ UserFree(u)
    BY <1>0, <2>2, AdminAssumption DEF SetUserStatus
  <2> QED BY <1>3, <2>1, <2>2 DEF Lifecycle
<1>4. ASSUME NEW p \in Procs, DeleteUserCommit(p)
      PROVE  \/ status'[u] = status[u] /\ scheduled'[u] = scheduled[u]
             \/ DeleteUserCommit(p) /\ req[p].user = u
  BY <1>0, <1>4 DEF DeleteUserCommit
<1>5. ASSUME NEW p \in Procs, Redeem(p) \/ RevokeToken(p) \/ EndFamily(p)
      PROVE  UNCHANGED <<status, scheduled>>
  BY <1>5 DEF Redeem, RevokeToken, EndFamily, TokenRequestByRefreshToken, RedeemBegin, RedeemLock,
     RedeemLoad, DecideIssue, DecideGraceRefuse, AuditGraceRefusal, DetectReuse, IssueChild,
     RevokeBegin, RevokeLock
<1>6. ASSUME NEW p \in Procs,
             \/ Grant(p) \/ RequestDeletion(p) \/ DeleteUser(p) \/ Rollback(p) \/ BreakDeadlock(p)
             \/ \E t \in Tokens : LockRow(p, t)
      PROVE  UNCHANGED <<status, scheduled>> \/ RequestDeletionCommit(p) \/ DeleteUserCommit(p)
  BY <1>6 DEF Grant, RequestDeletion, DeleteUser, Rollback, BreakDeadlock, LockRow, GrantBegin,
     GrantCommit, RequestDeletionBegin, DeleteUserBegin
<1>7. Tick \/ Cleanup \/ UNCHANGED vars => UNCHANGED <<status, scheduled>>
  BY DEF Tick, vars, Cleanup, DeleteRevokedRefreshToken, DeleteExpiredRefreshToken,
     DeleteStaleRefreshTokenFamily
<1> QED BY <1>1, <1>2, <1>3, <1>4, <1>5, <1>6, <1>7 DEF Next

(* Two slow transactions fit between the request of a deletion and the     *)
(* deletion: 2 * MaxWait <= DeletionDelay.                                 *)
LEMMA GrantInFlightStep ==
  ASSUME Inv, UserInv, OneOwner, GrantBeforeDeletion, [Next]_vars
  PROVE  GrantBeforeDeletion'
<1> SUFFICES ASSUME NEW q \in Procs, req'[q].pc = "granting"
             PROVE  /\ status'[req'[q].user] # "deleted"
                    /\ status'[req'[q].user] = "pending_deletion" =>
                         req'[q].begun + MaxWait <= scheduled'[req'[q].user]
  BY DEF GrantBeforeDeletion
<1>1. CASE req'[q] = req[q]
  <2>1. PICK u \in Users : u = req[q].user
    BY <1>1 DEF OneOwner
  <2>2. /\ status[u] # "deleted"
        /\ status[u] = "pending_deletion" => req[q].begun + MaxWait <= scheduled[u]
    BY <1>1, <2>1 DEF GrantBeforeDeletion
  <2>3. req[q].begun \in Nat /\ req[q].begun <= now /\ now <= req[q].begun + MaxWait /\ now \in Nat
    BY <1>1 DEF Inv, Rest, Good, Timed, Typed, TypeOK
  <2>4. ~\E p \in Procs : DeleteUserCommit(p) /\ req[p].user = u
    BY <1>1, <2>1 DEF DeleteUserCommit, UserInv, Purges
  <2> QED BY <1>1, <2>1, <2>2, <2>3, <2>4, UserStep, TimeAssumption
<1>2. ASSUME NEW u \in Users, NEW c \in Clients, GrantBegin(q, u, c)
      PROVE  status'[req'[q].user] = "active"
  BY <1>2 DEF GrantBegin, Idle, Inv, Typed, TypeOK
<1>3. ~DecideIssue(q)
  BY DecideFacts
<1> QED BY <1>1, <1>2, <1>3, RequestStep

LEMMA DeletedStep ==
  ASSUME Inv, UserInv, OneOwner, GrantBeforeDeletion, DeletedUserHasNoTokens, [Next]_vars
  PROVE  DeletedUserHasNoTokens'
<1> SUFFICES ASSUME NEW t \in Tokens, Stored(t)' PROVE status'[rows'[t].user] # "deleted"
  BY DEF DeletedUserHasNoTokens
<1>1. ASSUME Stored(t) PROVE status'[rows'[t].user] # "deleted"
  <2>1. PICK u \in Users : u = rows[t].user /\ status[u] # "deleted" /\ rows'[t].user = u
    BY <1>1, KeptColumns DEF OneOwner, DeletedUserHasNoTokens, Issued, Stored
  <2>2. ASSUME NEW p \in Procs, DeleteUserCommit(p), req[p].user = u PROVE FALSE
    <3>1. rows' = Purge(req[p].snap) /\ t \in req[p].snap
      BY <1>1, <2>1, <2>2 DEF DeleteUserCommit, UserInv, Purges
    <3>2. rows'[t].state = "purged"
      BY <1>1, <3>1 DEF Purge, Inv, Typed, TypeOK, Row
    <3> QED BY <3>2 DEF Stored
  <2> QED BY <2>1, <2>2, UserStep
<1>2. CASE \A s \in Tokens : Lapses(s)
  BY <1>1, <1>2 DEF Lapses, Stored
<1>3. ASSUME NEW p \in Procs, NEW s \in Tokens, NEW f \in Families, GrantCommit(p, s, f)
      PROVE  status'[rows'[t].user] # "deleted"
  BY <1>1, <1>3, GrantShape DEF GrantBeforeDeletion, Stored
<1>4. ASSUME NEW p \in Procs, NEW s \in Tokens, NEW c \in Tokens, Issues(p, s, c)
      PROVE  status'[rows'[t].user] # "deleted"
  <2>1. CASE t = c
    BY <1>4, <2>1 DEF Issues, DeletedUserHasNoTokens
  <2>2. CASE t # c
    BY <1>1, <1>4, <2>2 DEF Issues, Stored
  <2> QED BY <2>1, <2>2
<1> QED BY <1>2, <1>3, <1>4, RowsStep

(* A redemption keeps knowing the user of its row. *)
LEMMA RedeemUserStep ==
  ASSUME Inv, UserInv, [Next]_vars, NEW p \in Procs, Holds(p)'
  PROVE  req'[p].user = rows'[req'[p].tok].user
<1>0. Typed /\ req \in [Procs -> Request]
  BY DEF Inv, Typed, TypeOK
<1>1. CASE req'[p] = req[p]
  <2>1. Holds(p) /\ req[p].tok \in Tokens /\ Issued(req[p].tok)
    BY <1>1 DEF Holds, Inv, Rest, Typed, TokenPresented, Presents, Good, KnowsFamily, Issued
  <2> QED BY <1>1, <2>1, KeptColumns DEF UserInv
<1>2. CASE RedeemLoad(p)
  <2>1. ~Finish(p)
    BY <1>0, FinishFacts DEF Holds
  <2> DEFINE u == rows[req[p].tok].user
  <2>2. /\ req' = [req EXCEPT ![p].pc = "loaded", ![p].at = now, ![p].held = {req[p].tok},
                              ![p].user = u]
        /\ rows' = rows
    BY <1>2, <2>1 DEF RedeemLoad
  <2>3. req'[p].user = u /\ req'[p].tok = req[p].tok
    <3> HIDE DEF u
    <3> QED BY <1>0, <2>2 DEF Request
  <2> QED BY <2>2, <2>3
<1>3. CASE DecideIssue(p)
  <2> DEFINE g == Replayed(req[p].tok)
  <2>1. req' = [req EXCEPT ![p].pc = "issuing", ![p].grace = g] /\ req[p].pc = "loaded" /\ rows' = rows
    BY <1>3 DEF DecideIssue
  <2> HIDE DEF g
  <2>2. req'[p].user = req[p].user /\ req'[p].tok = req[p].tok
    BY <1>0, <2>1 DEF Request
  <2> QED BY <2>1, <2>2 DEF UserInv, Holds
<1>4. ASSUME NEW u \in Users, NEW c \in Clients, GrantBegin(p, u, c) PROVE FALSE
  BY <1>0, <1>4 DEF GrantBegin, Idle, Holds
<1>5. ASSUME NEW u \in Users, RequestDeletionBegin(p, u) \/ DeleteUserBegin(p, u) PROVE FALSE
  BY <1>0, <1>5 DEF RequestDeletionBegin, DeleteUserBegin, Idle, Holds
<1>6. ASSUME NEW t \in Tokens, LockRow(p, t) PROVE FALSE
  BY <1>6, LockRowFacts DEF Holds
<1> QED BY <1>1, <1>2, <1>3, <1>4, <1>5, <1>6, RequestMoves DEF Holds

(* How a request comes to hold the users row. *)
LEMMA UpdateStarts ==
  ASSUME Inv, [Next]_vars, NEW p \in Procs, UpdatesUser(p)'
  PROVE  \/ UpdatesUser(p) /\ req'[p].pc = req[p].pc /\ req'[p].user = req[p].user
         \/ \E u \in Users : /\ RequestDeletionBegin(p, u) \/ DeleteUserBegin(p, u)
                             /\ req'[p].user = u /\ UserFree(u)
                             /\ \A q \in Procs : q # p => req'[q] = req[q]
<1>0. Typed /\ req \in [Procs -> Request]
  BY DEF Inv, Typed, TypeOK
<1>1. CASE req'[p] = req[p]
  BY <1>1 DEF UpdatesUser
<1>2. ~RedeemLoad(p)
  <2> SUFFICES ASSUME RedeemLoad(p) PROVE FALSE OBVIOUS
  <2>1. ~Finish(p)
    BY <1>0, FinishFacts DEF UpdatesUser
  <2> DEFINE u == rows[req[p].tok].user
  <2>2. req' = [req EXCEPT ![p].pc = "loaded", ![p].at = now, ![p].held = {req[p].tok}, ![p].user = u]
    BY <2>1 DEF RedeemLoad
  <2> HIDE DEF u
  <2> QED BY <1>0, <2>2 DEF Request, UpdatesUser
<1>3. ~DecideIssue(p)
  BY DecideFacts DEF UpdatesUser
<1>4. ASSUME NEW u \in Users, NEW c \in Clients, GrantBegin(p, u, c) PROVE FALSE
  BY <1>0, <1>4 DEF GrantBegin, Idle, UpdatesUser
<1>5. ASSUME NEW u \in Users, RequestDeletionBegin(p, u)
      PROVE  req'[p].user = u /\ UserFree(u) /\ \A q \in Procs : q # p => req'[q] = req[q]
  BY <1>0, <1>5 DEF RequestDeletionBegin, Idle, UpdatesUser
<1>6. ASSUME NEW u \in Users, DeleteUserBegin(p, u)
      PROVE  req'[p].user = u /\ UserFree(u) /\ \A q \in Procs : q # p => req'[q] = req[q]
  BY <1>0, <1>6 DEF DeleteUserBegin, Idle
<1>7. ASSUME NEW t \in Tokens, LockRow(p, t)
      PROVE  UpdatesUser(p) /\ req'[p].pc = req[p].pc /\ req'[p].user = req[p].user
  BY <1>7, LockRowFacts DEF UpdatesUser
<1> QED BY <1>1, <1>2, <1>3, <1>4, <1>5, <1>6, <1>7, RequestMoves DEF UpdatesUser

(* While the DELETE runs, no row of the user is stored outside of it: an   *)
(* insert waits for the users row.                                         *)
LEMMA PurgesStep ==
  ASSUME Inv, UserInv, OneOwner, GrantBeforeDeletion, [Next]_vars, NEW p \in Procs
  PROVE  Purges(p)'
<1>0. Typed /\ req \in [Procs -> Request] /\ status \in [Users -> Status]
  BY DEF Inv, Typed, TypeOK
<1> SUFFICES ASSUME req'[p].pc = "purging" PROVE Purges(p)'
  BY DEF Purges
<1>1. CASE req[p].pc = "purging" /\ req'[p].user = req[p].user
  <2> DEFINE u == req[p].user
  <2>0. /\ u \in Users /\ status[u] = "pending_deletion" /\ Purges(p) /\ UpdatesUser(p)
    BY <1>1 DEF UserInv, Purges, UpdatesUser
  <2>1. status'[u] = "pending_deletion"
    <3>1. ~UserFree(u)
      BY <1>1 DEF UserFree
    <3>2. ASSUME NEW r \in Procs, req[r].pc = "deleting", req[r].user = u PROVE FALSE
      BY <1>1, <2>0, <3>2 DEF UserInv, UpdatesUser
    <3>3. ASSUME NEW r \in Procs, DeleteUserCommit(r), req[r].user = u PROVE FALSE
      <4>1. r = p
        BY <2>0, <3>3 DEF UserInv, UpdatesUser, DeleteUserCommit
      <4> QED BY <1>0, <3>3, <4>1, FinishFacts DEF DeleteUserCommit
    <3> QED BY <2>0, <3>1, <3>2, <3>3, UserStep
  <2>2. ASSUME NEW q \in Procs, req'[q].pc = "granting" PROVE req'[q].user # u
    <3>1. CASE req'[q] = req[q]
      BY <1>1, <2>0, <2>2, <3>1 DEF Purges
    <3>2. ASSUME NEW v \in Users, NEW c \in Clients, GrantBegin(q, v, c) PROVE req'[q].user # u
      <4>1. req'[q].user = v /\ status[v] = "active"
        BY <1>0, <3>2 DEF GrantBegin, Idle
      <4> QED BY <2>0, <4>1
    <3>3. ~DecideIssue(q)
      BY <2>2, DecideFacts
    <3> QED BY <2>2, <3>1, <3>2, <3>3, RequestStep
  <2>3. \/ req'[p].snap = req[p].snap
        \/ /\ rows' = rows
           /\ \E t \in Tokens : ~Stored(t) /\ req'[p].snap = req[p].snap \ {t}
    <3>1. CASE req'[p] = req[p]
      BY <3>1
    <3>2. ASSUME NEW t \in Tokens, LockRow(p, t)
          PROVE  \/ req'[p].snap = req[p].snap
                 \/ rows' = rows /\ ~Stored(t) /\ req'[p].snap = req[p].snap \ {t}
      <4>1. /\ \/ req'[p].snap = req[p].snap
               \/ ~Matches(p, t) /\ req'[p].snap = req[p].snap \ {t}
            /\ rows' = rows
        BY <3>2, LockRowFacts
      <4> QED BY <1>1, <4>1 DEF Matches
    <3>3. ASSUME NEW v \in Users, RequestDeletionBegin(p, v) \/ DeleteUserBegin(p, v) PROVE FALSE
      BY <1>1, <3>3 DEF RequestDeletionBegin, DeleteUserBegin
    <3>4. ASSUME NEW v \in Users, NEW c \in Clients, GrantBegin(p, v, c) PROVE FALSE
      BY <1>1, <3>4 DEF GrantBegin
    <3>5. ~RedeemLoad(p) /\ ~DecideIssue(p)
      BY <1>1 DEF RedeemLoad, DecideIssue
    <3> QED BY <3>1, <3>2, <3>3, <3>4, <3>5, RequestMoves
  <2>4. ASSUME NEW t \in Tokens, t \in req'[p].snap PROVE Issued(t)' /\ rows'[t].user = u
    <3>1. t \in req[p].snap
      BY <2>3, <2>4
    <3>2. Issued(t) /\ rows[t].user = u
      BY <1>1, <2>0, <3>1 DEF Purges
    <3> QED BY <3>2, KeptColumns
  <2>5. ASSUME NEW t \in Tokens, Stored(t)', rows'[t].user = u PROVE t \in req'[p].snap
    <3>1. CASE Stored(t)
      <4>1. rows[t].user = u
        BY <2>5, <3>1, KeptColumns DEF Issued, Stored
      <4>2. t \in req[p].snap
        BY <1>1, <2>0, <3>1, <4>1 DEF Purges
      <4> QED BY <2>3, <3>1, <4>2
    <3>2. CASE ~Stored(t)
      <4>1. ~(\A s \in Tokens : Lapses(s))
        BY <2>5, <3>2 DEF Lapses, Stored
      <4>2. ASSUME NEW r \in Procs, NEW s \in Tokens, NEW f \in Families, GrantCommit(r, s, f)
            PROVE  FALSE
        <5>1. s = t /\ rows'[t].user = req[r].user /\ UserKeyFree(req[r].user)
          BY <2>5, <3>2, <4>2, GrantShape DEF Stored
        <5> QED BY <1>1, <2>5, <5>1 DEF UserKeyFree
      <4>3. ASSUME NEW r \in Procs, NEW s \in Tokens, NEW c \in Tokens, Issues(r, s, c)
            PROVE  FALSE
        <5>1. /\ Stored(s) /\ rows'[c].user = rows[s].user /\ UserKeyFree(rows[s].user)
              /\ \A z \in Tokens : z # c /\ z # s => rows'[z] = rows[z]
          BY <4>3 DEF Issues
        <5>2. t = c
          BY <2>5, <3>2, <5>1 DEF Stored
        <5> QED BY <1>1, <2>5, <5>1, <5>2 DEF UserKeyFree
      <4> QED BY <4>1, <4>2, <4>3, RowsStep
    <3> QED BY <3>1, <3>2
  <2> QED BY <1>1, <2>1, <2>2, <2>4, <2>5 DEF Purges
<1>2. ASSUME NEW u \in Users, DeleteUserBegin(p, u), req'[p].user = u,
             \A q \in Procs : q # p => req'[q] = req[q]
      PROVE  Purges(p)'
  <2>1. /\ status[u] = "pending_deletion" /\ scheduled[u] < now
        /\ UNCHANGED <<rows, status>>
    BY <1>2 DEF DeleteUserBegin
  <2>2. \A t \in Tokens : t \in req'[p].snap <=> Stored(t) /\ rows[t].user = u
    BY <1>0, <1>2 DEF DeleteUserBegin, Idle
  <2>3. ASSUME NEW q \in Procs, req'[q].pc = "granting" PROVE req'[q].user # u
    <3> SUFFICES ASSUME req'[q].user = u PROVE FALSE OBVIOUS
    <3>1. q # p /\ req'[q] = req[q]
      BY <1>2, <2>3
    <3>2. req[q].begun + MaxWait <= scheduled[u]
      BY <2>1, <2>3, <3>1 DEF GrantBeforeDeletion
    <3>3. now <= req[q].begun + MaxWait /\ req[q].begun \in Nat /\ now \in Nat /\ scheduled[u] \in Int
      BY <2>3, <3>1 DEF Inv, Rest, Good, Timed, Typed, TypeOK
    <3> QED BY <2>1, <3>2, <3>3, TimeAssumption
  <2> QED BY <1>2, <2>1, <2>2, <2>3 DEF Purges, Issued, Stored
<1>3. ASSUME NEW u \in Users, RequestDeletionBegin(p, u) PROVE FALSE
  BY <1>0, <1>3 DEF RequestDeletionBegin, Idle
<1> QED BY <1>1, <1>2, <1>3, UpdateStarts DEF UpdatesUser

LEMMA UserInvStep ==
  ASSUME Inv, UserInv, OneOwner, GrantBeforeDeletion, [Next]_vars
  PROVE  UserInv'
<1>1. ASSUME NEW p \in Procs, UpdatesUser(p)' PROVE req'[p].user \in Users
  BY <1>1, UpdateStarts DEF UserInv
<1>2. ASSUME NEW p \in Procs, NEW q \in Procs, UpdatesUser(p)', UpdatesUser(q)',
             req'[p].user = req'[q].user, p # q
      PROVE  FALSE
  <2>1. ASSUME NEW x \in Procs, NEW y \in Procs, x # y, UpdatesUser(y)', NEW u \in Users,
               req'[x].user = u, req'[y].user = u, UserFree(u),
               \A z \in Procs : z # x => req'[z] = req[z]
        PROVE  FALSE
    BY <2>1 DEF UserFree, UpdatesUser
  <2>2. CASE UpdatesUser(p) /\ req'[p].user = req[p].user
    <3>1. CASE UpdatesUser(q) /\ req'[q].user = req[q].user
      BY <1>2, <2>2, <3>1 DEF UserInv
    <3> QED BY <1>2, <2>1, <3>1, UpdateStarts
  <2> QED BY <1>2, <2>1, <2>2, UpdateStarts
<1> QED BY <1>1, <1>2, RedeemUserStep, PurgesStep DEF UserInv

----------------------------------------------------------------------------
LEMMA GrantInvStep == Inv /\ GrantInv /\ [Next]_vars => GrantInv'
BY OwnerStep, GraceStep, LinearStep, ChildStep, CountStep, GrantInFlightStep, DeletedStep, UserInvStep
DEF GrantInv

LEMMA GrantInvHolds == Spec => [](Inv /\ GrantInv)
BY InvInit, InvStep, GrantInvInit, GrantInvStep, PTL DEF Spec

(* However many requests redeem one token of a public client at the same   *)
(* time, its family never holds two usable tokens.                         *)
THEOREM PublicGrantsAreLinear == Spec => []PublicGrantIsLinear
<1>1. GrantInv => PublicGrantIsLinear
  BY DEF GrantInv
<1> QED BY GrantInvHolds, <1>1, PTL

(* refreshReuseGraceMaxIssued bounds the children of a token over its      *)
(* whole life, although it counts the rows that cleanup has left.          *)
THEOREM ChildrenAreBounded == Spec => []ChildrenBounded
<1>1. GrantInv => ChildrenBounded
  BY DEF GrantInv
<1> QED BY GrantInvHolds, <1>1, PTL

(* DeleteUser leaves nothing behind: a grant or rotation that passed its   *)
(* user check before is over when the deletion becomes due.                *)
THEOREM DeletionIsComplete == Spec => []DeletedUserHasNoTokens
<1>1. GrantInv => DeletedUserHasNoTokens
  BY DEF GrantInv
<1> QED BY GrantInvHolds, <1>1, PTL

----------------------------------------------------------------------------
(* The refinement, shape by shape.  Every lemma computes how the abstract  *)
(* variables move; the abstract action then reads off the result.          *)

(* What a row shows of itself to the abstract specification is fixed once  *)
(* it is stored, except that it may cease to be live.                      *)
LEMMA KindKept ==
  ASSUME \A t \in Tokens : /\ Issued(t)' <=> Issued(t)
                           /\ Issued(t) => rows'[t].family = rows[t].family /\ rows'[t].client = rows[t].client
  PROVE  /\ \A f \in Families : InFamily(f)' = InFamily(f) /\ Kind(f)' = Kind(f)
         /\ {t \in Tokens : Issued(t)}' = {t \in Tokens : Issued(t)}
<1>1. \A f \in Families : InFamily(f)' = InFamily(f)
  BY DEF InFamily, Issued
<1>2. \A f \in Families : \A t \in InFamily(f) : rows'[t].client = rows[t].client
  BY DEF InFamily, Issued
<1>3. \A f \in Families : Kind(f)' = Kind(f)
  BY <1>1, <1>2 DEF Kind
<1> QED BY <1>1, <1>3

LEMMA LapseRefines ==
  ASSUME \A t \in Tokens : Lapses(t), endedAt' = endedAt
  PROVE  Grants!Next
<1> DEFINE gone == {t \in Tokens : Live(t) /\ ~Live(t)'}
<1>1. \A t \in Tokens : /\ Issued(t)' <=> Issued(t)
                        /\ Issued(t) => rows'[t].family = rows[t].family /\ rows'[t].client = rows[t].client
                        /\ Live(t)' => Live(t)
  BY DEF Lapses, Issued, Live, Stored
<1>2. /\ \A f \in Families : InFamily(f)' = InFamily(f) /\ Kind(f)' = Kind(f)
      /\ {t \in Tokens : Issued(t)}' = {t \in Tokens : Issued(t)}
  BY <1>1, KindKept
<1>3. \A f \in Families : LiveIn(f)' = LiveIn(f) \ gone
  BY <1>1, <1>2 DEF LiveIn, InFamily
<1>4. gone \in SUBSET Tokens /\ Grants!Lapse(gone)
  BY <1>2, <1>3 DEF Grants!Lapse, LiveIn, Issued
<1> HIDE DEF gone
<1> QED BY <1>4 DEF Grants!Next

LEMMA EndRefines ==
  ASSUME Inv, \A t \in Tokens : Lapses(t), NEW f \in Families, Ends(f)
  PROVE  Grants!Next
<1>1. \A t \in Tokens : /\ Issued(t)' <=> Issued(t)
                        /\ Issued(t) => rows'[t].family = rows[t].family /\ rows'[t].client = rows[t].client
  BY DEF Lapses, Issued, Live, Stored
<1>2. /\ \A g \in Families : InFamily(g)' = InFamily(g) /\ Kind(g)' = Kind(g)
      /\ {t \in Tokens : Issued(t)}' = {t \in Tokens : Issued(t)}
  BY <1>1, KindKept
<1>3. LiveIn(f)' = {} /\ \A g \in Families : g # f => LiveIn(g)' = LiveIn(g)
  BY <1>2 DEF LiveIn, InFamily, Ends, Live, Stored
<1>4. Kind(f) # "closed"
  BY DEF Ends, Kind
<1>5. {g \in Families : endedAt[g] # Null}' = {g \in Families : endedAt[g] # Null} \cup {f}
  BY DEF Ends
<1>6. Grants!End(f)
  BY <1>2, <1>3, <1>4, <1>5 DEF Grants!End, LiveIn, Issued
<1> QED BY <1>6 DEF Grants!Next

LEMMA GrantRefines ==
  ASSUME Inv, NEW p \in Procs, NEW t \in Tokens, NEW f \in Families, GrantCommit(p, t, f)
  PROVE  Grants!Next
<1>1. /\ ~Issued(t) /\ InFamily(f) = {} /\ rows'[t].state = "stored" /\ rows'[t].family = f
      /\ rows'[t].revoked = Null /\ endedAt' = endedAt
      /\ \A s \in Tokens : s # t => rows'[s] = rows[s]
  BY GrantShape
<1>2. /\ InFamily(f)' = {t} /\ LiveIn(f)' = {t}
      /\ \A g \in Families : g # f => InFamily(g)' = InFamily(g) /\ LiveIn(g)' = LiveIn(g)
  BY <1>1 DEF InFamily, LiveIn, Live, Stored, Issued
<1>3. \A g \in Families : g # f => Kind(g)' = Kind(g)
  <2> SUFFICES ASSUME NEW g \in Families, g # f PROVE Kind(g)' = Kind(g) OBVIOUS
  <2>1. \A s \in InFamily(g) : rows'[s] = rows[s]
    BY <1>1 DEF InFamily, Issued
  <2> QED BY <1>2, <2>1 DEF Kind
<1>4. Kind(f) = "closed" /\ Kind(f)' \in {"strict", "lenient"}
  BY <1>1, <1>2 DEF Kind
<1>5. {s \in Tokens : Issued(s)}' = {s \in Tokens : Issued(s)} \cup {t}
  BY <1>1 DEF Issued
<1> PICK k \in {"strict", "lenient"} : k = Kind(f)'
  BY <1>4
<1>6. Grants!Open(f, t, k)
  BY <1>1, <1>2, <1>3, <1>4, <1>5 DEF Grants!Open, LiveIn, Issued
<1> QED BY <1>6 DEF Grants!Next

LEMMA IssueRefines ==
  ASSUME Inv, GrantInv, NEW p \in Procs, NEW t \in Tokens, NEW c \in Tokens, Issues(p, t, c)
  PROVE  Grants!Next
<1>1. PICK f \in Families : f = rows[t].family
  BY DEF Issues, Stored, Inv, Rest, RowsWellFormed
<1>2. /\ Issued(t) /\ ~Issued(c) /\ c # t /\ endedAt' = endedAt /\ endedAt[f] = Null
      /\ rows'[c].state = "stored" /\ rows'[c].family = f /\ rows'[c].revoked = Null
      /\ rows'[c].client = rows[t].client
      /\ rows'[t].state = "stored" /\ rows'[t].family = f /\ rows'[t].client = rows[t].client
      /\ \A s \in Tokens : s # c /\ s # t => rows'[s] = rows[s]
  BY <1>1 DEF Issues, Issued, Stored
<1>3. \A g \in Families : InFamily(g)' = IF g = f THEN InFamily(g) \cup {c} ELSE InFamily(g)
  BY <1>1, <1>2 DEF InFamily, Issued
<1>4. /\ t \in InFamily(f)
      /\ \A g \in Families : \A s \in InFamily(g) : s # c /\ rows'[s].client = rows[s].client
  BY <1>1, <1>2 DEF InFamily, Issued
<1>5. \A g \in Families : Kind(g)' = Kind(g)
  BY <1>2, <1>3, <1>4 DEF Kind
<1>6. {s \in Tokens : Issued(s)}' = {s \in Tokens : Issued(s)} \cup {c}
  BY <1>2 DEF Issued
<1>7. \A g \in Families : g # f => LiveIn(g)' = LiveIn(g)
  BY <1>1, <1>2, <1>3 DEF LiveIn, InFamily, Live, Stored, Issued
<1>8. CASE req[p].grace
  <2>1. rows'[t] = rows[t] /\ rows[t].client \in GraceClients
    BY <1>8 DEF Issues, GrantInv, GraceIsGranted
  <2>2. LiveIn(f)' = LiveIn(f) \cup {c}
    BY <1>1, <1>2, <1>3, <2>1 DEF LiveIn, InFamily, Live, Stored, Issued
  <2>3. Kind(f) = "lenient"
    BY <1>4, <2>1 DEF Kind
  <2>4. Grants!Regrant(f, c)
    BY <1>2, <1>5, <1>6, <1>7, <2>2, <2>3 DEF Grants!Regrant, LiveIn, Issued
  <2> QED BY <2>4 DEF Grants!Next
<1>9. CASE ~req[p].grace
  <2>1. Live(t) /\ rows'[t].revoked # Null
    BY <1>9 DEF Issues
  <2>2. t \in LiveIn(f) /\ LiveIn(f)' = (LiveIn(f) \ {t}) \cup {c}
    BY <1>1, <1>2, <1>3, <1>4, <2>1 DEF LiveIn, InFamily, Live, Stored, Issued
  <2>3. Grants!Rotate(f, t, c)
    BY <1>2, <1>5, <1>6, <1>7, <2>2 DEF Grants!Rotate, LiveIn, Issued
  <2> QED BY <2>3 DEF Grants!Next
<1> QED BY <1>8, <1>9

(* The transactions of the refresh-token store implement the grants of     *)
(* RefreshGrants: what issuance, rotation, the grace, revocation, deletion *)
(* and cleanup do to the usable tokens, a specification without locks,     *)
(* clocks and tombstones explains.                                         *)
THEOREM GrantsImplemented == Spec => ImplementsGrants
<1>1. Init => Grants!Init
  BY DEF Init, NoRow, Grants!Init, InFamily, Kind, Live, Stored
<1>2. ASSUME Inv, GrantInv, [Next]_vars PROVE [Grants!Next]_(Grants!vars)
  BY <1>2, RowsStep, LapseRefines, EndRefines, GrantRefines, IssueRefines DEF GrantInv
<1>3. Inv /\ GrantInv /\ [Next]_vars => [Grants!Next]_(Grants!vars)
  BY <1>2
<1> QED BY GrantInvHolds, <1>1, <1>3, PTL DEF Spec, ImplementsGrants, Grants!Spec
=============================================================================
