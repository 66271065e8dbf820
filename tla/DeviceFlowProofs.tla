-------------------------- MODULE DeviceFlowProofs --------------------------
(***************************************************************************)
(* Proofs about DeviceFlow, for every number of codes, users, sessions and *)
(* concurrent requests, every lifetime and every poll interval.            *)
(***************************************************************************)
EXTENDS DeviceFlow, TLAPS

USE DEF Null, Time

(* A poll between its first statement and its commit. *)
Polling(p) == req[p].pc \in {"poll", "consume"}

(* A browser request between session check and audit row. *)
Deciding(p) == req[p].pc \in {"consent", "bind", "accepted", "refusal", "drop", "dropped"}

(* What a request knows in the state it is in. *)
Locals ==
  \A p \in Procs :
    /\ req[p].pc = "login" => req[p].user \in Users
    /\ Deciding(p) => /\ req[p].code \in Codes /\ req[p].user \in Users
                      /\ req[p].sess \in Sessions
    /\ Polling(p) \/ req[p].pc = "mint" => req[p].code \in Codes

SessionsOwned == \A s \in Sessions : sessions[s].state = "stored" => sessions[s].user \in Users

Typed == TypeOK /\ Locals /\ SessionsOwned

LEMMA TypedInit == Init => Typed
BY DeviceConstants DEF Init, Typed, TypeOK, Locals, SessionsOwned, Polling, Deciding, Code, NoCode,
  Session, NoSession, Request, Idle, PC, Event

LEMMA FinishType ==
  ASSUME Typed, NEW p \in Procs, Finish(p)
  PROVE  req' \in [Procs -> Request] /\ Locals'
BY DEF Finish, Typed, TypeOK, Locals, Polling, Deciding, Request, Idle, PC

CodeStates == {"none", "pending", "approved", "denied", "consumed", "deleted"}

(* What an UPDATE of one column or two leaves in the table is a table. *)
LEMMA StateType ==
  ASSUME TypeOK, NEW c \in Codes, NEW st \in CodeStates
  PROVE  [codes EXCEPT ![c].state = st] \in [Codes -> Code]
<1>0. codes[c] \in Code
  BY DEF TypeOK
<1>1. [codes[c] EXCEPT !.state = st] \in Code
  BY <1>0 DEF Code, CodeStates
<1> QED BY <1>1 DEF TypeOK

LEMMA PolledType ==
  ASSUME TypeOK, NEW c \in Codes, NEW at \in Time
  PROVE  [codes EXCEPT ![c].polled = at] \in [Codes -> Code]
<1>0. codes[c] \in Code
  BY DEF TypeOK
<1>1. [codes[c] EXCEPT !.polled = at] \in Code
  BY <1>0 DEF Code
<1> QED BY <1>1 DEF TypeOK

LEMMA SubjectType ==
  ASSUME TypeOK, NEW c \in Codes, NEW st \in CodeStates, NEW u \in Users
  PROVE  [codes EXCEPT ![c].state = st, ![c].subject = u] \in [Codes -> Code]
<1>0. codes[c] \in Code
  BY DEF TypeOK
<1>1. [codes[c] EXCEPT !.state = st, !.subject = u] \in Code
  BY <1>0 DEF Code, CodeStates
<1> QED BY <1>1 DEF TypeOK

LEMMA ConsumedType ==
  ASSUME TypeOK, NEW c \in Codes, NEW st \in CodeStates, NEW at \in Time
  PROVE  [codes EXCEPT ![c].state = st, ![c].polled = at] \in [Codes -> Code]
<1>0. codes[c] \in Code
  BY DEF TypeOK
<1>1. [codes[c] EXCEPT !.state = st, !.polled = at] \in Code
  BY <1>0 DEF Code, CodeStates
<1> QED BY <1>1 DEF TypeOK

(* Goto to a state that needs no more locals than the one before. *)
LEMMA GotoType ==
  ASSUME Typed, NEW p \in Procs, NEW pc \in PC, Goto(p, pc),
         \/ Deciding(p) /\ pc \in {"accepted", "drop", "dropped"}
         \/ Polling(p) /\ pc \in {"consume", "mint"}
  PROVE  req' \in [Procs -> Request] /\ Locals'
<1>1. req' \in [Procs -> Request]
  BY DEF Goto, Typed, TypeOK, Request
<1>2. /\ req'[p].pc = pc /\ req'[p].code = req[p].code /\ req'[p].user = req[p].user
      /\ req'[p].sess = req[p].sess /\ \A q \in Procs : q # p => req'[q] = req[q]
  BY DEF Goto, Typed, TypeOK, Request
<1>3. Locals'
  BY <1>2 DEF Typed, Locals, Polling, Deciding
<1> QED BY <1>1, <1>3

LEMMA TypedStep == Typed /\ [Next]_vars => Typed'
<1> SUFFICES ASSUME Typed, [Next]_vars PROVE Typed' OBVIOUS
<1> USE DEF Typed, table, users, trail
<1>1. CASE Tick
  BY <1>1 DEF Tick, TypeOK, Locals, SessionsOwned, Polling, Deciding
<1>2. ASSUME NEW c \in Codes, StoreDeviceAuthorization(c) PROVE Typed'
  <2>0. now + CodeTTL \in Time
    BY DeviceConstants DEF TypeOK
  <2>1. [NoCode EXCEPT !.state = "pending", !.expires = now + CodeTTL] \in Code
    BY <2>0 DEF Code, NoCode
  <2> QED BY <1>2, <2>1
             DEF StoreDeviceAuthorization, TypeOK, Locals, SessionsOwned, Polling, Deciding
<1>3. ASSUME NEW p \in Procs, NEW c \in Codes, NEW u \in Users, NEW found, CallbackCheck(p, c, u, found)
      PROVE  Typed'
  BY <1>3 DEF CallbackCheck, TypeOK, Locals, SessionsOwned, Polling, Deciding, Request, Idle, PC
<1>4. ASSUME NEW p \in Procs, NEW s \in Sessions, CreateSession(p, s) PROVE Typed'
  <2>1. req[p].user \in Users
    BY <1>4 DEF CreateSession, Locals
  <2>2. sessions' \in [Sessions -> Session] /\ SessionsOwned'
    BY <1>4, <2>1 DEF CreateSession, TypeOK, Session, SessionsOwned
  <2> QED BY <1>4, <2>2, FinishType DEF CreateSession, TypeOK
<1>5. ASSUME NEW p \in Procs, NEW c \in Codes, NEW s \in Sessions,
             NEW a \in {"consent", "refusal"}, HandleDeviceApprove(p, c, s, a)
      PROVE  Typed'
  <2>1. sessions[s].user \in Users
    BY <1>5 DEF HandleDeviceApprove, ValidSession, SessionsOwned
  <2> DEFINE r == [Idle EXCEPT !.pc = a, !.code = c, !.sess = s, !.user = sessions[s].user]
  <2>2. r \in Request /\ r.pc = a /\ r.code = c /\ r.sess = s /\ r.user = sessions[s].user
    BY <2>1 DEF Request, Idle, PC
  <2>3. req' = [req EXCEPT ![p] = r] /\ UNCHANGED <<now, table, users, trail>>
    BY <1>5 DEF HandleDeviceApprove
  <2> HIDE DEF r
  <2> QED BY <2>1, <2>2, <2>3 DEF TypeOK, Locals, SessionsOwned, Polling, Deciding
<1>6. ASSUME NEW p \in Procs, NEW found, ApproveCheck(p, found) PROVE Typed'
  <2>1. CASE found /\ Stored(req[p].code) /\ req[p].user \in admitted /\ ValidSession(req[p].sess)
    <3>1. Deciding(p) /\ req[p].sess \in Sessions
      BY <1>6 DEF ApproveCheck, Locals, Deciding
    <3>2. sessions[req[p].sess].created \in Time
      BY <3>1 DEF TypeOK, Session
    <3>3. /\ req' = [req EXCEPT ![p].pc = "bind", ![p].at = sessions[req[p].sess].created]
          /\ UNCHANGED <<now, table, users, trail>>
      BY <1>6, <2>1 DEF ApproveCheck
    <3>4. req' \in [Procs -> Request]
      <4>1. [req[p] EXCEPT !.pc = "bind", !.at = sessions[req[p].sess].created] \in Request
        BY <3>2 DEF TypeOK, Request, PC
      <4> QED BY <3>3, <4>1 DEF TypeOK
    <3>5. /\ req'[p].pc = "bind" /\ req'[p].code = req[p].code /\ req'[p].user = req[p].user
          /\ req'[p].sess = req[p].sess /\ \A q \in Procs : q # p => req'[q] = req[q]
      BY <3>3 DEF TypeOK, Request
    <3> QED BY <3>1, <3>3, <3>4, <3>5 DEF TypeOK, Locals, SessionsOwned, Polling, Deciding
  <2>2. CASE ~(found /\ Stored(req[p].code) /\ req[p].user \in admitted /\ ValidSession(req[p].sess))
    BY <1>6, <2>2, FinishType DEF ApproveCheck, TypeOK, SessionsOwned
  <2> QED BY <2>1, <2>2
<1>7. ASSUME NEW p \in Procs, ApproveDeviceCode(p) PROVE Typed'
  <2>1. Deciding(p) /\ req[p].code \in Codes /\ req[p].user \in Users
    BY <1>7 DEF ApproveDeviceCode, Locals, Deciding
  <2>2. codes' \in [Codes -> Code]
    <3>1. \/ codes' = codes
          \/ codes' = [codes EXCEPT ![req[p].code].state = "approved",
                                    ![req[p].code].subject = req[p].user]
      BY <1>7 DEF ApproveDeviceCode
    <3>2. TypeOK /\ "approved" \in CodeStates /\ codes \in [Codes -> Code]
      BY DEF CodeStates, TypeOK
    <3> DEFINE c == req[p].code
               u == req[p].user
    <3>3. [codes EXCEPT ![c].state = "approved", ![c].subject = u] \in [Codes -> Code]
      <4> HIDE DEF c, u
      <4>1. c \in Codes /\ u \in Users
        BY <2>1 DEF c, u
      <4> QED BY <3>2, <4>1, SubjectType
    <3> QED BY <3>1, <3>2, <3>3
  <2>4. approvedAt' \in [Codes -> Time]
    BY <1>7, <2>1 DEF ApproveDeviceCode, TypeOK
  <2>3. req' \in [Procs -> Request] /\ Locals'
    BY <1>7, <2>1, FinishType, GotoType DEF ApproveDeviceCode, PC
  <2> QED BY <1>7, <2>2, <2>3, <2>4 DEF ApproveDeviceCode, TypeOK, SessionsOwned
<1>8. ASSUME NEW p \in Procs, NEW e \in {"auth.device_approved", "auth.device_denied"},
             Deciding(p), Audit(p, e)
      PROVE  Typed'
  <2>1. <<e, req[p].code, req[p].user>> \in Event
    BY <1>8 DEF Locals, Event
  <2> QED BY <1>8, <2>1, FinishType DEF Audit, TypeOK, SessionsOwned
<1>9. ASSUME NEW p \in Procs, DenyCheck(p) PROVE Typed'
  <2>1. req' \in [Procs -> Request] /\ Locals'
    BY <1>9, FinishType, GotoType DEF DenyCheck, Deciding, PC
  <2> QED BY <1>9, <2>1 DEF DenyCheck, TypeOK, SessionsOwned
<1>10. ASSUME NEW p \in Procs, DenyDeviceCode(p) PROVE Typed'
  <2>1. req' \in [Procs -> Request] /\ Locals'
    BY <1>10, GotoType DEF DenyDeviceCode, Deciding, PC
  <2>2. codes' \in [Codes -> Code]
    BY <1>10, StateType DEF DenyDeviceCode, CodeStates, TypeOK, Locals, Deciding
  <2> QED BY <1>10, <2>1, <2>2 DEF DenyDeviceCode, TypeOK, SessionsOwned
<1>11. ASSUME NEW u \in Users, TerminateSession(u) PROVE Typed'
  BY <1>11 DEF TerminateSession, TypeOK, Session, Locals, SessionsOwned, Polling, Deciding
<1>12. ASSUME NEW p \in Procs, NEW c \in Codes, PollLoad(p, c) PROVE Typed'
  <2> DEFINE open == codes[c].state = "approved" /\ Entitled(codes[c].subject)
             r == [Idle EXCEPT !.pc = "poll", !.code = c, !.at = now, !.open = open]
  <2>1. open \in BOOLEAN
    BY DEF Entitled, Active
  <2>2. req' = [req EXCEPT ![p] = r] /\ UNCHANGED <<now, table, users, trail>>
    BY <1>12 DEF PollLoad
  <2> HIDE DEF open
  <2>3. r \in Request /\ r.pc = "poll" /\ r.code = c
    BY <2>1 DEF TypeOK, Request, Idle, PC
  <2> HIDE DEF r
  <2> QED BY <2>2, <2>3 DEF TypeOK, Locals, SessionsOwned, Polling, Deciding
<1>13. ASSUME NEW p \in Procs, PollSlowDown(p) PROVE Typed'
  <2>1. req[p].code \in Codes /\ req[p].at \in Time
    BY <1>13 DEF PollSlowDown, Locals, Polling, TypeOK, Request
  <2>2. codes' \in [Codes -> Code]
    BY <1>13, <2>1, PolledType DEF PollSlowDown
  <2> QED BY <1>13, <2>2, FinishType DEF PollSlowDown, TypeOK, SessionsOwned
<1>14. ASSUME NEW p \in Procs, PollCheckSubject(p) PROVE Typed'
  <2>1. req' \in [Procs -> Request] /\ Locals'
    BY <1>14, FinishType, GotoType DEF PollCheckSubject, Polling, PC
  <2> QED BY <1>14, <2>1 DEF PollCheckSubject, TypeOK, SessionsOwned
<1>15. ASSUME NEW p \in Procs, Polling(p), Resolve(p),
              UNCHANGED <<now, sessions, users, audited, minted, approvedAt>>
       PROVE  Typed'
  <2>1. req[p].code \in Codes /\ req[p].at \in Time
    BY <1>15 DEF Locals, TypeOK, Request
  <2>2. codes' \in [Codes -> Code]
    <3>1. codes[req[p].code].polled \in Time
      BY <2>1 DEF TypeOK, Code
    <3>2. PICK at \in Time :
            \/ codes' = [codes EXCEPT ![req[p].code].polled = at]
            \/ codes' = [codes EXCEPT ![req[p].code].state = "consumed", ![req[p].code].polled = at]
      BY <1>15, <2>1, <3>1 DEF Resolve
    <3>3. TypeOK /\ "consumed" \in CodeStates
      BY DEF CodeStates
    <3> QED BY <2>1, <3>2, <3>3, PolledType, ConsumedType
  <2>3. waited' \in [Codes -> Time]
    BY <1>15, <2>1 DEF Resolve, TypeOK
  <2>4. req' \in [Procs -> Request] /\ Locals'
    BY <1>15, FinishType, GotoType DEF Resolve, PC
  <2> QED BY <1>15, <2>2, <2>3, <2>4 DEF TypeOK, SessionsOwned
<1>16. ASSUME NEW p \in Procs, IssueTokens(p) PROVE Typed'
  <2>1. minted' \in [Codes -> Nat]
    BY <1>16 DEF IssueTokens, Locals, TypeOK
  <2> QED BY <1>16, <2>1, FinishType DEF IssueTokens, TypeOK, SessionsOwned
<1>a. ASSUME NoteEntitled, UNCHANGED <<now, table, trail>>,
             status' \in [Users -> {"active", "pending_deletion", "disabled", "deleted"}],
             admitted' \subseteq Users
      PROVE  Typed'
  <2>1. \A p \in Procs : req'[p] \in Request /\ req'[p].pc = req[p].pc /\ req'[p].code = req[p].code
                         /\ req'[p].user = req[p].user /\ req'[p].sess = req[p].sess
    BY <1>a DEF NoteEntitled, TypeOK, Request
  <2>2. req' \in [Procs -> Request]
    BY <1>a, <2>1 DEF NoteEntitled
  <2> QED BY <1>a, <2>1, <2>2 DEF TypeOK, Locals, SessionsOwned, Polling, Deciding
<1>17. ASSUME NEW u \in Closable, NEW s \in {"active", "disabled"}, SetUserStatus(u, s)
       PROVE  Typed'
  <2>1. status' \in [Users -> {"active", "pending_deletion", "disabled", "deleted"}]
    BY <1>17 DEF SetUserStatus, TypeOK
  <2> QED BY <1>17, <1>a, <2>1 DEF SetUserStatus, TypeOK
<1>18. ASSUME NEW A \in Policies, ChangePolicy(A) PROVE Typed'
  BY <1>18, <1>a, DeviceConstants DEF ChangePolicy, TypeOK
<1>19. ASSUME NEW c \in Codes, DeleteExpiredDeviceCode(c) PROVE Typed'
  BY <1>19, StateType
     DEF DeleteExpiredDeviceCode, CodeStates, TypeOK, Locals, SessionsOwned, Polling, Deciding
<1>20. ASSUME NEW s \in Sessions, DeleteExpiredOrRevokedSession(s) PROVE Typed'
  BY <1>20
     DEF DeleteExpiredOrRevokedSession, TypeOK, Session, Locals, SessionsOwned, Polling, Deciding
<1>21. ASSUME NEW p \in Procs, Abort(p) PROVE Typed'
  BY <1>21, FinishType DEF Abort, TypeOK, SessionsOwned
<1>22. CASE UNCHANGED vars
  BY <1>22 DEF vars, TypeOK, Locals, SessionsOwned, Polling, Deciding
<1>23. ASSUME NEW p \in Procs, Browser(p) PROVE Typed'
  BY <1>3, <1>4, <1>5, <1>6, <1>7, <1>8, <1>9, <1>10, <1>23
  DEF Browser, AuditApproved, AuditDenied, Deciding
<1>24. ASSUME NEW p \in Procs, Poll(p) PROVE Typed'
  BY <1>12, <1>13, <1>14, <1>15, <1>16, <1>24 DEF Poll, PollAnswer, PollConsume, Polling
<1>25. CASE Environment
  BY <1>2, <1>11, <1>17, <1>18, <1>19, <1>20, <1>25 DEF Environment
<1> QED BY <1>1, <1>21, <1>22, <1>23, <1>24, <1>25 DEF Next

(* Codes, sessions and requests stay well formed in every behaviour, and a *)
(* request always knows the code, user and session it works for.           *)
THEOREM TypeCorrect == Spec => []TypeOK
<1>1. Typed => TypeOK
  BY DEF Typed
<1> QED BY TypedInit, TypedStep, <1>1, PTL DEF Spec

----------------------------------------------------------------------------
(***************************************************************************)
(* The inductive invariant behind the safety properties.  A poll that      *)
(* holds the row lock works on a row nobody else writes: what it read of   *)
(* state, subject and last_polled_at is still true when it commits.        *)
(***************************************************************************)
RowLockExclusive ==
  \A p, q \in Procs : Polling(p) /\ Polling(q) /\ req[p].code = req[q].code => p = q

PollView ==
  \A p \in Procs : Polling(p) =>
    /\ req[p].at \in Nat /\ req[p].at <= now
    /\ codes[req[p].code].polled <= req[p].at
    /\ codes[req[p].code].state = "approved" => approvedAt[req[p].code] <= req[p].at
    /\ codes[req[p].code].state = "approved" /\ Entitled(codes[req[p].code].subject)
         /\ req[p].pc = "poll" => req[p].open
    /\ req[p].pc = "consume" => codes[req[p].code].state = "approved" /\ req[p].open

CodeHistory ==
  \A c \in Codes :
    /\ codes[c].polled <= now
    /\ codes[c].state = "none" => waited[c] = Null
    /\ waited[c] # Null => waited[c] <= codes[c].polled
    /\ codes[c].state \in {"approved", "consumed"} =>
         codes[c].subject \in Users /\ approvedAt[c] <= now
    /\ codes[c].state = "consumed" => approvedAt[c] <= codes[c].expires
    /\ minted[c] <= 1
    /\ minted[c] # 0 => codes[c].state \in {"consumed", "deleted"}

(* Between the commit that consumes a code and its tokens nothing is lost  *)
(* but the request itself, and only one request is there.                  *)
Minting ==
  /\ \A p \in Procs : req[p].pc = "mint" =>
       /\ req[p].open
       /\ minted[req[p].code] = 0
       /\ codes[req[p].code].state \in {"consumed", "deleted"}
  /\ \A p, q \in Procs : req[p].pc = "mint" /\ req[q].pc = "mint" /\ req[p].code = req[q].code
                            => p = q

Bound(c, u) == codes[c].subject = u /\ codes[c].state \in {"approved", "consumed", "deleted"}

Trail ==
  /\ \A p \in Procs : req[p].pc = "accepted" => Bound(req[p].code, req[p].user)
  /\ \A c \in Codes, u \in Users : <<"auth.device_approved", c, u>> \in audited => Bound(c, u)

Rest == RowLockExclusive /\ PollView /\ CodeHistory /\ Minting /\ Trail

Inv == Typed /\ Rest

LEMMA InvInit == Init => Inv
<1> SUFFICES ASSUME Init PROVE Inv OBVIOUS
<1>1. Typed
  BY TypedInit
<1>2. \A p \in Procs : req[p].pc = "idle"
  BY DEF Init, Idle
<1>3. /\ now = 0 /\ audited = {}
      /\ \A c \in Codes : /\ codes[c].state = "none" /\ codes[c].polled = Null
                           /\ waited[c] = Null /\ minted[c] = 0
  BY DEF Init, NoCode
<1> QED BY <1>1, <1>2, <1>3
           DEF Inv, Rest, RowLockExclusive, PollView, CodeHistory, Minting, Trail, Polling

(* What Finish and Goto leave alone. *)
LEMMA FinishFacts ==
  ASSUME Typed, NEW p \in Procs, Finish(p)
  PROVE  req'[p].pc = "idle" /\ \A q \in Procs : q # p => req'[q] = req[q]
BY DEF Finish, Typed, TypeOK, Idle

LEMMA GotoFacts ==
  ASSUME Typed, NEW p \in Procs, NEW pc, Goto(p, pc)
  PROVE  /\ req'[p].pc = pc /\ req'[p].code = req[p].code /\ req'[p].user = req[p].user
         /\ req'[p].at = req[p].at /\ req'[p].open = req[p].open
         /\ \A q \in Procs : q # p => req'[q] = req[q]
BY DEF Goto, Typed, TypeOK, Request

(* A request moves on, or ends, without a write to the code. *)
LEMMA QuietStep ==
  ASSUME Inv, NEW p \in Procs,
         UNCHANGED <<now, codes, status, admitted, audited, minted, waited, approvedAt>>,
         \A q \in Procs : q # p => req'[q] = req[q],
         req'[p].pc \in {"idle", "login", "consent", "bind", "refusal", "drop", "dropped"}
  PROVE  Rest'
<1> USE DEF Inv, Rest
<1>1. RowLockExclusive'
  BY DEF RowLockExclusive, Polling
<1>2. PollView'
  BY DEF PollView, Polling, Entitled, Active
<1>3. CodeHistory'
  BY DEF CodeHistory
<1>4. Minting'
  BY DEF Minting
<1>5. Trail'
  BY DEF Trail, Bound
<1> QED BY <1>1, <1>2, <1>3, <1>4, <1>5

LEMMA TickStep ==
  ASSUME Inv, Tick
  PROVE  Rest'
<1> USE DEF Inv, Rest, table, users, trail
<1>0. /\ now \in Nat /\ now' = now + 1
      /\ \A c \in Codes : /\ codes[c].polled \in Int /\ approvedAt[c] \in Int
      /\ UNCHANGED <<codes, status, admitted, req, audited, minted, waited, approvedAt>>
  BY DEF Tick, Typed, TypeOK, Code
<1>1. RowLockExclusive'
  BY <1>0 DEF RowLockExclusive, Polling
<1>2. PollView'
  BY <1>0 DEF PollView, Polling, Entitled, Active
<1>3. CodeHistory'
  BY <1>0 DEF CodeHistory
<1>4. Minting' /\ Trail'
  BY <1>0 DEF Minting, Trail, Bound
<1> QED BY <1>1, <1>2, <1>3, <1>4

(* Steps that touch nothing the invariant speaks of. *)
LEMMA UnrelatedStep ==
  ASSUME Inv, UNCHANGED <<now, codes, status, admitted, req, audited, minted, waited, approvedAt>>
  PROVE  Rest'
BY DEF Inv, Rest, RowLockExclusive, PollView, CodeHistory, Minting, Trail, Bound, Polling, Entitled, Active

LEMMA StoreStep ==
  ASSUME Inv, NEW c \in Codes, StoreDeviceAuthorization(c)
  PROVE  Rest'
<1> USE DEF Inv, Rest, table, users, trail
<1>1. /\ codes[c].state = "none" /\ codes'[c].state = "pending" /\ codes'[c].polled = Null
      /\ \A d \in Codes : d # c => codes'[d] = codes[d]
      /\ UNCHANGED <<now, status, admitted, req, audited, minted, waited, approvedAt>>
  BY DEF StoreDeviceAuthorization, Typed, TypeOK, NoCode
<1>2. now \in Nat
  BY DEF Typed, TypeOK
<1>3. RowLockExclusive'
  BY <1>1 DEF RowLockExclusive, Polling
<1>4. CodeHistory'
  BY <1>1, <1>2 DEF CodeHistory
<1>5. PollView'
  BY <1>1, <1>2 DEF PollView, Polling, Entitled, Active, Typed, Locals
<1>6. Minting'
  BY <1>1 DEF Minting, Typed, Locals
<1>7. Trail'
  BY <1>1 DEF Trail, Bound, Typed, Locals, Deciding
<1> QED BY <1>3, <1>4, <1>5, <1>6, <1>7

(* A browser request or the cleanup writes a row that no poll has locked;  *)
(* approvals and denials hit a pending code only.                          *)
LEMMA UnlockedWrite ==
  ASSUME Inv, NEW c \in Codes, CodeFree(c),
         \A d \in Codes : d # c => codes'[d] = codes[d] /\ approvedAt'[d] = approvedAt[d],
         codes'[c].polled = codes[c].polled, codes'[c].expires = codes[c].expires,
         \/ codes[c].state = "pending" /\ codes'[c].state = "denied"
         \/ /\ codes[c].state = "pending" /\ codes'[c].state = "approved"
            /\ codes'[c].subject \in Users /\ approvedAt'[c] = now
         \/ codes'[c].state = "deleted" /\ codes'[c].subject = codes[c].subject,
         codes[c].state # "none",
         UNCHANGED <<now, status, admitted, audited, minted, waited>>,
         \A q \in Procs : \/ req'[q] = req[q]
                           \/ req'[q].pc \in {"idle", "dropped"}
                           \/ /\ req'[q].pc = "accepted" /\ req'[q].code = c
                              /\ codes'[c].state = "approved" /\ codes'[c].subject = req'[q].user
  PROVE  Rest'
<1> USE DEF Inv, Rest
<1>1. now \in Nat
  BY DEF Typed, TypeOK
<1>2. RowLockExclusive'
  BY DEF RowLockExclusive, Polling
<1>3. CodeHistory'
  BY <1>1 DEF CodeHistory
<1>4. PollView'
  <2> SUFFICES ASSUME NEW p \in Procs, Polling(p)'
               PROVE  req'[p] = req[p] /\ Polling(p) /\ req[p].code \in Codes /\ req[p].code # c
    BY DEF PollView, Polling, Entitled, Active
  <2> QED BY DEF Polling, CodeFree, Typed, Locals
<1>5. Minting'
  BY DEF Minting, Typed, Locals
<1>6. Trail'
  BY DEF Trail, Bound, Typed, Locals, Deciding
<1> QED BY <1>2, <1>3, <1>4, <1>5, <1>6

LEMMA ApproveStep ==
  ASSUME Inv, NEW p \in Procs, ApproveDeviceCode(p)
  PROVE  Rest'
<1> USE DEF Inv, users, table, trail
<1> DEFINE c == req[p].code
<1>1. /\ req[p].pc = "bind" /\ CodeFree(c) /\ c \in Codes /\ req[p].user \in Users
      /\ UNCHANGED <<now, status, admitted, audited, minted, waited>>
  BY DEF ApproveDeviceCode, Typed, Locals, Deciding
<1>2. CASE codes[c].state = "pending" /\ codes[c].expires > req[p].at
  <2>1. /\ codes' = [codes EXCEPT ![c].state = "approved", ![c].subject = req[p].user]
        /\ approvedAt' = [approvedAt EXCEPT ![c] = now]
        /\ Goto(p, "accepted")
    BY <1>2 DEF ApproveDeviceCode
  <2>2. /\ codes'[c].state = "approved" /\ codes'[c].subject = req[p].user
        /\ codes'[c].polled = codes[c].polled /\ codes'[c].expires = codes[c].expires
        /\ approvedAt'[c] = now
        /\ \A d \in Codes : d # c => codes'[d] = codes[d] /\ approvedAt'[d] = approvedAt[d]
    BY <1>1, <2>1 DEF Typed, TypeOK, Code
  <2>3. /\ req'[p].pc = "accepted" /\ req'[p].code = c /\ req'[p].user = req[p].user
        /\ \A q \in Procs : q # p => req'[q] = req[q]
    BY <2>1, GotoFacts
  <2> QED BY <1>1, <1>2, <2>2, <2>3, UnlockedWrite
<1>3. CASE ~(codes[c].state = "pending" /\ codes[c].expires > req[p].at)
  BY <1>1, <1>3, FinishFacts, QuietStep DEF ApproveDeviceCode
<1> QED BY <1>2, <1>3

LEMMA DenyStep ==
  ASSUME Inv, NEW p \in Procs, DenyDeviceCode(p)
  PROVE  Rest'
<1> USE DEF Inv, users, table, trail
<1> DEFINE c == req[p].code
<1>1. /\ CodeFree(c) /\ c \in Codes
      /\ req'[p].pc = "dropped" /\ \A q \in Procs : q # p => req'[q] = req[q]
      /\ UNCHANGED <<now, status, admitted, audited, minted, waited, approvedAt>>
  BY GotoFacts DEF DenyDeviceCode, Typed, Locals, Deciding
<1>2. CASE codes[c].state = "pending"
  <2>1. /\ codes'[c].state = "denied" /\ codes'[c].polled = codes[c].polled
        /\ codes'[c].expires = codes[c].expires
        /\ \A d \in Codes : d # c => codes'[d] = codes[d]
    BY <1>1, <1>2 DEF DenyDeviceCode, Typed, TypeOK, Code
  <2> QED BY <1>1, <1>2, <2>1, UnlockedWrite
<1>3. CASE codes[c].state # "pending"
  BY <1>1, <1>3, QuietStep DEF DenyDeviceCode
<1> QED BY <1>2, <1>3

LEMMA DeleteStep ==
  ASSUME Inv, NEW c \in Codes, DeleteExpiredDeviceCode(c)
  PROVE  Rest'
<1> USE DEF Inv, users, table, trail
<1>1. /\ CodeFree(c) /\ codes[c].state # "none"
      /\ codes'[c].state = "deleted" /\ codes'[c].polled = codes[c].polled
      /\ codes'[c].expires = codes[c].expires /\ codes'[c].subject = codes[c].subject
      /\ \A d \in Codes : d # c => codes'[d] = codes[d]
      /\ UNCHANGED <<now, status, admitted, req, audited, minted, waited, approvedAt>>
  BY DEF DeleteExpiredDeviceCode, Stored, Typed, TypeOK, Code
<1> QED BY <1>1, UnlockedWrite

LEMMA AuditStep ==
  ASSUME Inv, NEW p \in Procs, NEW e, Audit(p, e),
         e = "auth.device_approved" => req[p].pc = "accepted"
  PROVE  Rest'
<1> USE DEF Inv, Rest, users, table, trail
<1>1. /\ audited' = audited \cup {<<e, req[p].code, req[p].user>>}
      /\ UNCHANGED <<now, codes, status, admitted, minted, waited, approvedAt>>
      /\ req'[p].pc = "idle" /\ \A q \in Procs : q # p => req'[q] = req[q]
  BY FinishFacts DEF Audit
<1>2. RowLockExclusive' /\ PollView' /\ CodeHistory' /\ Minting'
  BY <1>1 DEF RowLockExclusive, PollView, CodeHistory, Minting, Polling, Entitled, Active
<1>3. \A c \in Codes, u \in Users : <<"auth.device_approved", c, u>> \in audited' => Bound(c, u)'
  BY <1>1 DEF Trail, Bound
<1>4. Trail'
  BY <1>1, <1>3 DEF Trail, Bound
<1> QED BY <1>2, <1>4

LEMMA PollLoadStep ==
  ASSUME Inv, NEW p \in Procs, NEW c \in Codes, PollLoad(p, c)
  PROVE  Rest'
<1> USE DEF Inv, Rest, users, table, trail
<1> DEFINE open == codes[c].state = "approved" /\ Entitled(codes[c].subject)
<1>1. /\ CodeFree(c) /\ UNCHANGED <<now, codes, status, admitted, audited, minted, waited, approvedAt>>
      /\ req' = [req EXCEPT ![p] = [Idle EXCEPT !.pc = "poll", !.code = c, !.at = now, !.open = open]]
  BY DEF PollLoad
<1>2. open <=> codes[c].state = "approved" /\ status[codes[c].subject] = "active"
            /\ codes[c].subject \in admitted
  BY DEF Entitled, Active
<1>3. open \in BOOLEAN
  BY DEF Entitled, Active
<1> HIDE DEF open
<1>4. /\ req'[p].pc = "poll" /\ req'[p].code = c /\ req'[p].at = now /\ req'[p].open = open
      /\ \A q \in Procs : q # p => req'[q] = req[q]
  BY <1>1 DEF Typed, TypeOK, Idle
<1>5. now \in Nat
  BY DEF Typed, TypeOK
<1>6. RowLockExclusive'
  BY <1>1, <1>4 DEF RowLockExclusive, Polling, CodeFree
<1>7. PollView'
  <2> SUFFICES ASSUME NEW q \in Procs, Polling(q)'
       PROVE /\ req'[q].at \in Nat /\ req'[q].at <= now
             /\ codes[req'[q].code].polled <= req'[q].at
             /\ codes[req'[q].code].state = "approved" => approvedAt[req'[q].code] <= req'[q].at
             /\ codes[req'[q].code].state = "approved" /\ status[codes[req'[q].code].subject] = "active"
                  /\ codes[req'[q].code].subject \in admitted /\ req'[q].pc = "poll" => req'[q].open
             /\ req'[q].pc = "consume" => codes[req'[q].code].state = "approved" /\ req'[q].open
    BY <1>1 DEF PollView, Entitled, Active
  <2>1. CASE q = p
    BY <1>2, <1>3, <1>4, <1>5, <2>1 DEF CodeHistory
  <2>2. CASE q # p
    BY <1>4, <2>2 DEF PollView, Polling, Entitled, Active
  <2> QED BY <2>1, <2>2
<1>8. CodeHistory' /\ Minting' /\ Trail'
  BY <1>1, <1>4 DEF CodeHistory, Minting, Trail, Bound
<1> QED BY <1>6, <1>7, <1>8

(* The poll that holds the lock writes last_polled_at and, if it consumes  *)
(* an approved code, its state; then the lock is gone.                     *)
LEMMA LockedWrite ==
  ASSUME Inv, NEW p \in Procs, NEW c \in Codes, Polling(p), req[p].code = c,
         \A d \in Codes : d # c => codes'[d] = codes[d] /\ waited'[d] = waited[d],
         codes'[c].subject = codes[c].subject, codes'[c].expires = codes[c].expires,
         codes'[c].polled \in {codes[c].polled, req[p].at},
         waited'[c] = waited[c] \/ (waited'[c] = req[p].at /\ codes'[c].polled = req[p].at
                                     /\ codes'[c].state # "none"),
         \A q \in Procs : q # p => req'[q] = req[q],
         \/ req'[p].pc = "idle" /\ codes'[c].state = codes[c].state
         \/ /\ codes[c].state = "approved" /\ codes'[c].state = "consumed"
            /\ req[p].at <= codes[c].expires
            /\ req'[p].pc = "mint" /\ req'[p].code = c /\ req'[p].open,
         UNCHANGED <<now, status, admitted, audited, minted, approvedAt>>
  PROVE  Rest'
<1> USE DEF Inv, Rest
<1>1. /\ now \in Nat /\ codes[c].polled \in Int /\ waited[c] \in Int
      /\ approvedAt[c] \in Int /\ codes[c].expires \in Int /\ minted[c] \in Nat
  BY DEF Typed, TypeOK, Code
<1>2. /\ req[p].at \in Nat /\ req[p].at <= now /\ codes[c].polled <= req[p].at
      /\ codes[c].state = "approved" => approvedAt[c] <= req[p].at
  BY DEF PollView
<1>3. \A q \in Procs : Polling(q)' => q # p /\ Polling(q) /\ req[q].code \in Codes /\ req[q].code # c
  BY DEF RowLockExclusive, Polling, Typed, Locals
<1>4. RowLockExclusive'
  BY <1>3 DEF RowLockExclusive
<1>5. PollView'
  BY <1>3 DEF PollView, Polling, Entitled, Active
<1>6. CodeHistory'
  BY <1>1, <1>2 DEF CodeHistory
<1>7. Minting'
  <2>1. codes[c].state = "approved" => minted[c] = 0
                                       /\ \A q \in Procs : req[q].pc = "mint" => req[q].code # c
    BY DEF CodeHistory, Minting
  <2>2. \A q \in Procs : req[q].pc = "mint" => req[q].code \in Codes /\ q # p
    BY DEF Typed, Locals, Polling
  <2> QED BY <2>1, <2>2 DEF Minting
<1>8. Trail'
  BY DEF Trail, Bound, Typed, Locals, Deciding
<1> QED BY <1>4, <1>5, <1>6, <1>7, <1>8

LEMMA SlowDownStep ==
  ASSUME Inv, NEW p \in Procs, PollSlowDown(p)
  PROVE  Rest'
<1> USE DEF Inv, users, table, trail
<1> DEFINE c == req[p].code
<1>1. Polling(p) /\ c \in Codes /\ UNCHANGED <<now, status, admitted, audited, minted, waited, approvedAt>>
  BY DEF PollSlowDown, Typed, Locals, Polling
<1>2. /\ codes'[c].state = codes[c].state /\ codes'[c].subject = codes[c].subject
      /\ codes'[c].expires = codes[c].expires /\ codes'[c].polled = req[p].at
      /\ \A d \in Codes : d # c => codes'[d] = codes[d]
  BY <1>1 DEF PollSlowDown, Typed, TypeOK, Code
<1>3. req'[p].pc = "idle" /\ \A q \in Procs : q # p => req'[q] = req[q]
  BY FinishFacts DEF PollSlowDown
<1> QED BY <1>1, <1>2, <1>3, LockedWrite

(* What Resolve does to the code and to the request. *)
LEMMA ResolveFacts ==
  ASSUME Typed, NEW p \in Procs, Polling(p), Resolve(p)
  PROVE  LET c == req[p].code IN
         /\ c \in Codes
         /\ \A d \in Codes : d # c => codes'[d] = codes[d] /\ waited'[d] = waited[d]
         /\ codes'[c].subject = codes[c].subject /\ codes'[c].expires = codes[c].expires
         /\ codes'[c].polled \in {codes[c].polled, req[p].at}
         /\ \/ waited'[c] = waited[c]
            \/ /\ waited'[c] = req[p].at /\ codes[c].state = "pending"
               /\ codes'[c].polled = req[p].at
         /\ \/ req'[p].pc = "idle" /\ codes'[c].state = codes[c].state
            \/ /\ codes[c].state = "approved" /\ codes'[c].state = "consumed"
               /\ req[p].at <= codes[c].expires
               /\ req'[p].pc = "mint" /\ req'[p].code = c /\ req'[p].open = req[p].open
         /\ \A q \in Procs : q # p => req'[q] = req[q]
<1> DEFINE c == req[p].code
<1>1. /\ c \in Codes /\ codes[c].expires \in Int /\ req[p].at \in Int
      /\ codes \in [Codes -> Code] /\ waited \in [Codes -> Time]
  BY DEF Typed, TypeOK, Locals, Code, Request
<1>2. /\ waited' = waited \/ (waited' = [waited EXCEPT ![c] = req[p].at] /\ codes[c].state = "pending")
  BY DEF Resolve
<1>3. CASE codes[c].state = "approved" /\ ~(req[p].at > codes[c].expires)
  <2>1. codes' = [codes EXCEPT ![c].state = "consumed", ![c].polled = req[p].at] /\ Goto(p, "mint")
    BY <1>3 DEF Resolve
  <2>2. /\ codes'[c].state = "consumed" /\ codes'[c].subject = codes[c].subject
        /\ codes'[c].expires = codes[c].expires /\ codes'[c].polled = req[p].at
        /\ \A d \in Codes : d # c => codes'[d] = codes[d]
    BY <1>1, <2>1 DEF Code
  <2>3. /\ req'[p].pc = "mint" /\ req'[p].code = c /\ req'[p].open = req[p].open
        /\ \A q \in Procs : q # p => req'[q] = req[q]
    BY <2>1, GotoFacts
  <2> QED BY <1>1, <1>2, <1>3, <2>2, <2>3
<1>4. CASE ~(codes[c].state = "approved" /\ ~(req[p].at > codes[c].expires))
  <2>1. PICK at \in {codes[c].polled, req[p].at} :
          /\ codes' = [codes EXCEPT ![c].polled = at] /\ Finish(p)
          /\ codes[c].state = "pending" => at = req[p].at
    BY <1>4 DEF Resolve
  <2>2. /\ codes'[c].state = codes[c].state /\ codes'[c].subject = codes[c].subject
        /\ codes'[c].expires = codes[c].expires /\ codes'[c].polled = at
        /\ \A d \in Codes : d # c => codes'[d] = codes[d]
    BY <1>1, <2>1 DEF Code
  <2>3. req'[p].pc = "idle" /\ \A q \in Procs : q # p => req'[q] = req[q]
    BY <2>1, FinishFacts
  <2> QED BY <1>1, <1>2, <2>1, <2>2, <2>3
<1> QED BY <1>3, <1>4

LEMMA ResolveStep ==
  ASSUME Inv, NEW p \in Procs, PollAnswer(p) \/ PollConsume(p)
  PROVE  Rest'
<1> USE DEF Inv, users, table, trail
<1> DEFINE c == req[p].code
<1>1. /\ Polling(p) /\ Resolve(p) /\ UNCHANGED <<now, status, admitted, audited, minted, approvedAt>>
      /\ codes[c].state = "approved" => req[p].pc = "consume"
  BY DEF PollAnswer, PollConsume, Polling
<1>2. req[p].pc = "consume" => req[p].open
  BY DEF Rest, PollView, Polling
<1>3. /\ c \in Codes
      /\ \A d \in Codes : d # c => codes'[d] = codes[d] /\ waited'[d] = waited[d]
      /\ codes'[c].subject = codes[c].subject /\ codes'[c].expires = codes[c].expires
      /\ codes'[c].polled \in {codes[c].polled, req[p].at}
      /\ \/ waited'[c] = waited[c]
         \/ /\ waited'[c] = req[p].at /\ codes[c].state = "pending"
            /\ codes'[c].polled = req[p].at
      /\ \/ req'[p].pc = "idle" /\ codes'[c].state = codes[c].state
         \/ /\ codes[c].state = "approved" /\ codes'[c].state = "consumed"
            /\ req[p].at <= codes[c].expires
            /\ req'[p].pc = "mint" /\ req'[p].code = c /\ req'[p].open = req[p].open
      /\ \A q \in Procs : q # p => req'[q] = req[q]
  BY <1>1, ResolveFacts
<1>4. req'[p].pc = "mint" => req'[p].open
  BY <1>1, <1>2, <1>3
<1> QED BY <1>1, <1>3, <1>4, LockedWrite

LEMMA CheckSubjectStep ==
  ASSUME Inv, NEW p \in Procs, PollCheckSubject(p)
  PROVE  Rest'
<1> USE DEF Inv, Rest, users, table, trail
<1> DEFINE c == req[p].code
<1>1. /\ req[p].pc = "poll" /\ codes[c].state = "approved"
      /\ UNCHANGED <<now, codes, status, admitted, audited, minted, waited, approvedAt>>
  BY DEF PollCheckSubject
<1>2. CASE Entitled(codes[c].subject)
  <2>1. /\ req'[p].pc = "consume" /\ req'[p].code = c /\ req'[p].at = req[p].at
        /\ req'[p].open = req[p].open /\ \A q \in Procs : q # p => req'[q] = req[q]
    BY <1>2, GotoFacts DEF PollCheckSubject
  <2>2. req[p].open
    BY <1>1, <1>2 DEF PollView, Polling
  <2>3. RowLockExclusive'
    BY <1>1, <2>1 DEF RowLockExclusive, Polling
  <2>4. PollView'
    BY <1>1, <2>1, <2>2 DEF PollView, Polling, Entitled, Active
  <2>5. CodeHistory' /\ Minting' /\ Trail'
    BY <1>1, <2>1 DEF CodeHistory, Minting, Trail, Bound
  <2> QED BY <2>3, <2>4, <2>5
<1>3. CASE ~(Entitled(codes[c].subject))
  BY <1>1, <1>3, FinishFacts, QuietStep DEF PollCheckSubject
<1> QED BY <1>2, <1>3

LEMMA IssueStep ==
  ASSUME Inv, NEW p \in Procs, IssueTokens(p)
  PROVE  Rest'
<1> USE DEF Inv, Rest, users, table, trail
<1> DEFINE c == req[p].code
<1>1. /\ req[p].pc = "mint" /\ c \in Codes
      /\ UNCHANGED <<now, codes, status, admitted, audited, waited, approvedAt>>
  BY DEF IssueTokens, Typed, Locals
<1>2. /\ minted'[c] = minted[c] + 1 /\ \A d \in Codes : d # c => minted'[d] = minted[d]
  BY <1>1 DEF IssueTokens, Typed, TypeOK
<1>3. req'[p].pc = "idle" /\ \A q \in Procs : q # p => req'[q] = req[q]
  BY FinishFacts DEF IssueTokens
<1>4. minted[c] = 0 /\ codes[c].state \in {"consumed", "deleted"}
  BY <1>1 DEF Minting
<1>5. RowLockExclusive' /\ PollView' /\ Trail'
  BY <1>1, <1>3 DEF RowLockExclusive, PollView, Trail, Bound, Polling, Entitled, Active
<1>6. CodeHistory'
  BY <1>1, <1>2, <1>4 DEF CodeHistory
<1>7. Minting'
  BY <1>1, <1>2, <1>3 DEF Minting, Typed, Locals
<1> QED BY <1>5, <1>6, <1>7

(* A change of status or policy: the polls it entitles are noted. *)
LEMMA EntitledStep ==
  ASSUME Inv, NoteEntitled, UNCHANGED <<now, codes, audited, minted, waited, approvedAt>>
  PROVE  Rest'
<1> USE DEF Inv, Rest
<1>1. \A p \in Procs :
        /\ req'[p].pc = req[p].pc /\ req'[p].code = req[p].code /\ req'[p].user = req[p].user
        /\ req'[p].at = req[p].at
        /\ req[p].open => req'[p].open
        /\ /\ req[p].pc = "poll" /\ codes[req[p].code].state = "approved"
           /\ status'[codes[req[p].code].subject] = "active"
           /\ codes[req[p].code].subject \in admitted'
           => req'[p].open
  BY DEF NoteEntitled, Typed, TypeOK, Request
<1>2. RowLockExclusive' /\ CodeHistory' /\ Trail' /\ Minting'
  BY <1>1 DEF RowLockExclusive, CodeHistory, Trail, Minting, Bound, Polling
<1>3. PollView'
  BY <1>1 DEF PollView, Polling, Entitled, Active
<1> QED BY <1>2, <1>3

LEMMA InvStep == Inv /\ [Next]_vars => Inv'
<1> SUFFICES ASSUME Inv, [Next]_vars PROVE Rest'
  BY TypedStep DEF Inv
<1> USE DEF users, table, trail
<1>0. Typed
  BY DEF Inv
<1>1. CASE Tick
  BY <1>1, TickStep
<1>2. ASSUME NEW p \in Procs, Browser(p) PROVE Rest'
  <2>1. ASSUME NEW c \in Codes, NEW u \in Users, NEW found, CallbackCheck(p, c, u, found) PROVE Rest'
    <3>1. req'[p].pc = "login" /\ \A q \in Procs : q # p => req'[q] = req[q]
      BY <1>0, <2>1 DEF CallbackCheck, Typed, TypeOK, Idle
    <3> QED BY <2>1, <3>1, QuietStep DEF CallbackCheck
  <2>2. ASSUME NEW s \in Sessions, CreateSession(p, s) PROVE Rest'
    BY <1>0, <2>2, FinishFacts, QuietStep DEF CreateSession
  <2>3. ASSUME NEW c \in Codes, NEW s \in Sessions, NEW a \in {"consent", "refusal"},
               HandleDeviceApprove(p, c, s, a)
        PROVE  Rest'
    <3>1. req'[p].pc = a /\ \A q \in Procs : q # p => req'[q] = req[q]
      BY <1>0, <2>3 DEF HandleDeviceApprove, Typed, TypeOK, Idle
    <3> QED BY <2>3, <3>1, QuietStep DEF HandleDeviceApprove
  <2>4. ASSUME NEW found, ApproveCheck(p, found) PROVE Rest'
    <3>1. req'[p].pc \in {"idle", "bind"} /\ \A q \in Procs : q # p => req'[q] = req[q]
      BY <1>0, <2>4, FinishFacts DEF ApproveCheck, Typed, TypeOK, Request
    <3> QED BY <2>4, <3>1, QuietStep DEF ApproveCheck
  <2>5. CASE DenyCheck(p)
    BY <1>0, <2>5, FinishFacts, GotoFacts, QuietStep DEF DenyCheck
  <2>6. CASE AuditApproved(p) \/ AuditDenied(p)
    BY <2>6, AuditStep DEF AuditApproved, AuditDenied
  <2> QED BY <1>2, <2>1, <2>2, <2>3, <2>4, <2>5, <2>6, ApproveStep, DenyStep DEF Browser
<1>3. ASSUME NEW p \in Procs, Poll(p) PROVE Rest'
  BY <1>3, PollLoadStep, SlowDownStep, CheckSubjectStep, ResolveStep, IssueStep DEF Poll
<1>4. ASSUME NEW p \in Procs, Abort(p) PROVE Rest'
  BY <1>0, <1>4, FinishFacts, QuietStep DEF Abort
<1>5. CASE Environment
  <2>1. ASSUME NEW u \in Users, TerminateSession(u) PROVE Rest'
    BY <2>1, UnrelatedStep DEF TerminateSession
  <2>2. ASSUME NEW A \in Policies, ChangePolicy(A) PROVE Rest'
    BY <2>2, EntitledStep DEF ChangePolicy
  <2>3. ASSUME NEW s \in Sessions, DeleteExpiredOrRevokedSession(s) PROVE Rest'
    BY <2>3, UnrelatedStep DEF DeleteExpiredOrRevokedSession
  <2>4. ASSUME NEW u \in Closable, NEW s, SetUserStatus(u, s) PROVE Rest'
    BY <2>4, EntitledStep DEF SetUserStatus
  <2> QED BY <1>5, <2>1, <2>2, <2>3, <2>4, StoreStep, DeleteStep DEF Environment
<1>6. CASE UNCHANGED vars
  BY <1>6, UnrelatedStep DEF vars
<1> QED BY <1>1, <1>2, <1>3, <1>4, <1>5, <1>6 DEF Next

LEMMA InvHolds == Spec => []Inv
BY InvInit, InvStep, PTL DEF Spec

(* Tokens are issued for a device code at most once: a code that is        *)
(* consumed is never approved again, and one request is left to issue.     *)
THEOREM CodeIsIssuedOnce == Spec => []IssuedOnce
<1>1. Inv => IssuedOnce
  BY DEF Inv, Rest, CodeHistory, IssuedOnce
<1> QED BY InvHolds, <1>1, PTL

(* A code approved after its expiry is never consumed: the poll that       *)
(* consumes it has read the clock after the approval and before expiry.    *)
THEOREM LateApprovalNeverConsumed == Spec => []LateApprovalIsInert
<1>1. Inv => LateApprovalIsInert
  BY DEF Inv, Rest, CodeHistory, LateApprovalIsInert
<1> QED BY InvHolds, <1>1, PTL

(* A poll that reaches token issuance had an active subject during the     *)
(* poll, however accounts are closed and opened in between.                *)
THEOREM OnlyOpenAccounts == Spec => []ClosedAccountGetsNothing
<1>1. Inv => ClosedAccountGetsNothing
  BY DEF Inv, Rest, PollView, Minting, Polling, ClosedAccountGetsNothing
<1> QED BY InvHolds, <1>1, PTL

(* The approval audit row names the user the code is bound to.             *)
THEOREM ApprovalTrail == Spec => []ApprovalTrailIsTrue
<1>1. Inv => ApprovalTrailIsTrue
  BY DEF Inv, Rest, Trail, Bound, ApprovalTrailIsTrue
<1> QED BY InvHolds, <1>1, PTL

----------------------------------------------------------------------------
(* Action properties                                                       *)

(* UPDATE ... WHERE state = 'pending' and the row lock: no statement       *)
(* touches a decision that has been made.                                  *)
LEMMA DecisionStep == Inv /\ [Next]_vars => KeepsDecision
<1> SUFFICES ASSUME Inv, [Next]_vars, NEW c \in Codes,
                    codes[c].state \in {"approved", "denied", "consumed"}
             PROVE  /\ codes'[c].subject = codes[c].subject
                    /\ \/ codes'[c].state \in {codes[c].state, "deleted"}
                       \/ codes[c].state = "approved" /\ codes'[c].state = "consumed"
  BY DEF KeepsDecision
<1> USE DEF users, table, trail
<1>0. Typed /\ codes \in [Codes -> Code] /\ codes[c] \in Code
  BY DEF Inv, Typed, TypeOK
<1>1. CASE codes' = codes
  BY <1>1
<1>2. ASSUME NEW d \in Codes, StoreDeviceAuthorization(d) \/ DeleteExpiredDeviceCode(d)
      PROVE  \/ codes'[c] = codes[c]
             \/ codes'[c].subject = codes[c].subject /\ codes'[c].state = "deleted"
  BY <1>0, <1>2 DEF StoreDeviceAuthorization, DeleteExpiredDeviceCode, Code
<1>3. ASSUME NEW p \in Procs, ApproveDeviceCode(p) \/ DenyDeviceCode(p)
      PROVE  codes'[c] = codes[c]
  <2>1. req[p].code \in Codes
    BY <1>0, <1>3 DEF ApproveDeviceCode, DenyDeviceCode, Typed, Locals, Deciding
  <2> QED BY <1>0, <1>3, <2>1 DEF ApproveDeviceCode, DenyDeviceCode
<1>4. ASSUME NEW p \in Procs, PollSlowDown(p)
      PROVE  codes'[c].subject = codes[c].subject /\ codes'[c].state = codes[c].state
  BY <1>0, <1>4 DEF PollSlowDown, Code
<1>5. ASSUME NEW p \in Procs, PollAnswer(p) \/ PollConsume(p)
      PROVE  /\ codes'[c].subject = codes[c].subject
             /\ \/ codes'[c].state = codes[c].state
                \/ codes[c].state = "approved" /\ codes'[c].state = "consumed"
  <2>1. Polling(p) /\ Resolve(p)
    BY <1>5 DEF PollAnswer, PollConsume, Polling
  <2> QED BY <1>0, <2>1, ResolveFacts
<1>6. ASSUME NEW p \in Procs, Browser(p), ~ApproveDeviceCode(p), ~DenyDeviceCode(p)
      PROVE  codes' = codes
  BY <1>6 DEF Browser, CallbackCheck, CreateSession, HandleDeviceApprove, ApproveCheck,
     AuditApproved, DenyCheck, AuditDenied, Audit
<1>7. ASSUME NEW p \in Procs, Poll(p), ~PollSlowDown(p), ~PollAnswer(p), ~PollConsume(p)
      PROVE  codes' = codes
  BY <1>7 DEF Poll, PollLoad, PollCheckSubject, IssueTokens
<1>8. ASSUME Environment,
             \A d \in Codes : ~StoreDeviceAuthorization(d) /\ ~DeleteExpiredDeviceCode(d)
      PROVE  codes' = codes
  BY <1>8
     DEF Environment, TerminateSession, SetUserStatus, ChangePolicy, DeleteExpiredOrRevokedSession
<1>9. (Tick \/ (\E p \in Procs : Abort(p)) \/ UNCHANGED vars) => codes' = codes
  BY DEF Tick, Abort, vars
<1> QED BY <1>1, <1>2, <1>3, <1>4, <1>5, <1>6, <1>7, <1>8, <1>9 DEF Next

(* The first decision about a code stands.                                 *)
THEOREM FirstDecisionStands == Spec => DecisionIsFinal
<1>1. Spec => [][KeepsDecision]_vars
  BY InvHolds, DecisionStep, PTL DEF Spec
<1> QED BY <1>1 DEF DecisionIsFinal

Spaced ==
  \A c \in Codes : waited'[c] # waited[c] /\ waited[c] # Null
                    => waited'[c] - waited[c] >= PollInterval

(* The throttle reads last_polled_at under the row lock, and               *)
(* last_polled_at is never before the last pending answer.                 *)
LEMMA SpacedStep == Inv /\ [Next]_vars => Spaced
<1> SUFFICES ASSUME Inv, [Next]_vars, NEW c \in Codes, waited'[c] # waited[c], waited[c] # Null
             PROVE  waited'[c] - waited[c] >= PollInterval
  BY DEF Spaced
<1> USE DEF users, table, trail
<1>1. ASSUME NEW p \in Procs, PollAnswer(p) \/ PollConsume(p)
      PROVE  waited'[c] - waited[c] >= PollInterval
  <2>1. Polling(p) /\ Resolve(p) /\ (req[p].pc = "poll" => ~Throttled(req[p].code, req[p].at))
    BY <1>1 DEF PollAnswer, PollConsume, Polling
  <2>2. c = req[p].code /\ waited'[c] = req[p].at /\ codes[c].state = "pending"
    BY <2>1, ResolveFacts DEF Inv
  <2>3. req[p].pc = "poll"
    BY <2>1, <2>2 DEF Inv, Rest, PollView, Polling
  <2>4. waited[c] <= codes[c].polled /\ codes[c].polled \in Int /\ waited[c] \in Nat
        /\ req[p].at \in Int
    BY DEF Inv, Rest, CodeHistory, Typed, TypeOK, Code, Request
  <2>5. req[p].at - codes[c].polled >= PollInterval
    BY <2>1, <2>2, <2>3, <2>4, DeviceConstants DEF Throttled, TooSoon
  <2> QED BY <2>2, <2>4, <2>5, DeviceConstants
<1>2. ASSUME NEW p \in Procs, Browser(p) PROVE waited' = waited
  BY <1>2 DEF Browser, CallbackCheck, CreateSession, HandleDeviceApprove, ApproveCheck,
     ApproveDeviceCode, DenyDeviceCode, AuditApproved, DenyCheck, AuditDenied, Audit
<1>3. ASSUME NEW p \in Procs, Poll(p), ~PollAnswer(p), ~PollConsume(p) PROVE waited' = waited
  BY <1>3 DEF Poll, PollLoad, PollSlowDown, PollCheckSubject, IssueTokens
<1>4. ASSUME Environment PROVE waited' = waited
  BY <1>4 DEF Environment, TerminateSession, SetUserStatus, ChangePolicy,
     DeleteExpiredOrRevokedSession, StoreDeviceAuthorization, DeleteExpiredDeviceCode
<1>5. (Tick \/ (\E p \in Procs : Abort(p)) \/ UNCHANGED vars) => waited' = waited
  BY DEF Tick, Abort, vars
<1> QED BY <1>1, <1>2, <1>3, <1>4, <1>5 DEF Next

(* Two pending answers for one code are PollInterval apart, however many   *)
(* polls run in parallel.                                                  *)
THEOREM PendingSpaced == Spec => PendingAnswersAreSpaced
<1>1. Spec => [][Spaced]_vars
  BY InvHolds, SpacedStep, PTL DEF Spec
<1> QED BY <1>1 DEF PendingAnswersAreSpaced, Spaced
=============================================================================
