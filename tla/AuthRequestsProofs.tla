------------------------- MODULE AuthRequestsProofs -------------------------
(***************************************************************************)
(* Proofs about AuthRequests, for every number of auth requests, users,    *)
(* sessions and concurrent HTTP requests, and every lifetime.              *)
(***************************************************************************)
EXTENDS AuthRequests, TLAPS

USE DEF Null, Time

(* A request that carries an auth time: of the session, or of the code. *)
Carries(p) == req[p].pc \in {"recover", "complete", "exchange"}

(* What a request knows in the state it is in. *)
Locals ==
  \A p \in Procs :
    /\ req[p].pc # "idle" => req[p].ar \in Requests /\ req[p].user \in Users
    /\ req[p].pc = "session" => req[p].sess \in Sessions
    /\ Carries(p) => req[p].at \in Nat

SessionsOwned ==
  \A s \in Sessions : sessions[s].state # "none" =>
    sessions[s].user \in Users /\ sessions[s].created \in Nat

Completed ==
  \A r \in Requests :
    /\ authReqs[r].code # 0 => authReqs[r].done
    /\ authReqs[r].done => authReqs[r].subject \in Users /\ authReqs[r].authTime \in Nat

Typed == TypeOK /\ Locals /\ SessionsOwned /\ Completed

LEMMA TypedInit == Init => Typed
BY DEF Init, Typed, TypeOK, Locals, SessionsOwned, Completed, Carries, AuthRequest, NoAuthRequest,
  Session, NoSession, HTTPRequest, Idle, PC, Status

LEMMA FinishType ==
  ASSUME Typed, NEW p \in Procs, Finish(p)
  PROVE  req' \in [Procs -> HTTPRequest] /\ Locals'
BY DEF Finish, Typed, TypeOK, Locals, Carries, HTTPRequest, Idle, PC

LEMMA GotoType ==
  ASSUME Typed, NEW p \in Procs, NEW pc \in PC, Goto(p, pc), req[p].pc # "idle",
         \/ pc \in {"cbSession", "cbComplete"}
         \/ pc = "complete" /\ Carries(p)
  PROVE  req' \in [Procs -> HTTPRequest] /\ Locals'
<1>1. req' \in [Procs -> HTTPRequest]
  BY DEF Goto, Typed, TypeOK, HTTPRequest
<1>2. /\ req'[p].pc = pc /\ req'[p].ar = req[p].ar /\ req'[p].user = req[p].user
      /\ req'[p].at = req[p].at /\ \A q \in Procs : q # p => req'[q] = req[q]
  BY DEF Goto, Typed, TypeOK, HTTPRequest
<1>3. Locals'
  BY <1>2 DEF Typed, Locals, Carries
<1> QED BY <1>1, <1>3

(* A step that leaves the auth requests alone but for one row. *)
LEMMA RequestRowType ==
  ASSUME Typed, NEW r \in Requests, NEW row \in AuthRequest,
         authReqs' = [authReqs EXCEPT ![r] = row],
         row.code # 0 => row.done,
         row.done => row.subject \in Users /\ row.authTime \in Nat
  PROVE  authReqs' \in [Requests -> AuthRequest] /\ Completed'
BY DEF Typed, TypeOK, Completed

LEMMA TypedStep == Typed /\ [Next]_vars => Typed'
<1> SUFFICES ASSUME Typed, [Next]_vars PROVE Typed' OBVIOUS
<1> USE DEF Typed, store, trail
<1>1. CASE Tick
  BY <1>1 DEF Tick, TypeOK, Locals, SessionsOwned, Completed, Carries
<1>2. ASSUME NEW r \in Requests, NEW c \in Channels, NEW m \in Modes, NEW a \in MaxAges,
             CreateAuthRequest(r, c, m, a)
      PROVE  Typed'
  <2> DEFINE row == [NoAuthRequest EXCEPT !.state = "stored", !.channel = c, !.mode = m,
                       !.maxAge = a, !.created = now, !.expires = now + RequestTTL]
  <2>1. /\ now + RequestTTL \in Time /\ now \in Time /\ a \in Time
        /\ c \in {"browser", "mcp", Nil} /\ m \in {"default", "silent", "interactive", Nil}
    BY AuthRequestConstants DEF TypeOK
  <2>2. row \in AuthRequest /\ row.code = 0 /\ row.done = FALSE
    BY <2>1 DEF AuthRequest, NoAuthRequest
  <2>3. authReqs' = [authReqs EXCEPT ![r] = row] /\ UNCHANGED <<now, sessions, status, req, trail>>
    BY <1>2 DEF CreateAuthRequest
  <2> HIDE DEF row
  <2>4. authReqs' \in [Requests -> AuthRequest] /\ Completed'
    BY <2>2, <2>3, RequestRowType
  <2> QED BY <2>3, <2>4 DEF TypeOK, Locals, SessionsOwned, Carries
<1>3. ASSUME NEW r \in Requests, RedirectToIdP(r) PROVE Typed'
  <2> DEFINE row == [authReqs[r] EXCEPT !.upstream = TRUE]
  <2>1. /\ row \in AuthRequest /\ row.code = authReqs[r].code /\ row.done = authReqs[r].done
        /\ row.subject = authReqs[r].subject /\ row.authTime = authReqs[r].authTime
    BY DEF TypeOK, AuthRequest
  <2>2. authReqs' = [authReqs EXCEPT ![r] = row] /\ UNCHANGED <<now, sessions, status, req, trail>>
    BY <1>3 DEF RedirectToIdP
  <2> HIDE DEF row
  <2>3. authReqs' \in [Requests -> AuthRequest] /\ Completed'
    BY <2>1, <2>2, RequestRowType DEF Completed
  <2> QED BY <2>2, <2>3 DEF TypeOK, Locals, SessionsOwned, Carries
<1>4. ASSUME NEW p \in Procs, NEW r \in Requests, NEW s \in Sessions, HandleLogin(p, r, s)
      PROVE  Typed'
  <2> DEFINE u == sessions[s].user
             new == [Idle EXCEPT !.pc = "session", !.ar = r, !.sess = s, !.user = u,
                                 !.status = status[u]]
  <2>1. u \in Users /\ status[u] \in Status
    BY <1>4 DEF HandleLogin, ValidSession, SessionsOwned, TypeOK
  <2>2. /\ new \in HTTPRequest /\ new.pc = "session" /\ new.ar = r /\ new.sess = s
        /\ new.user \in Users
    BY <2>1 DEF HTTPRequest, Idle, PC
  <2>3. req' = [req EXCEPT ![p] = new] /\ UNCHANGED <<now, store, trail>>
    BY <1>4 DEF HandleLogin
  <2> HIDE DEF new
  <2> QED BY <2>2, <2>3 DEF TypeOK, Locals, SessionsOwned, Completed, Carries
<1>5. ASSUME NEW p \in Procs, HandleExistingSession(p) PROVE Typed'
  <2>1. CASE Finish(p)
    BY <1>5, <2>1, FinishType DEF HandleExistingSession, TypeOK, SessionsOwned, Completed
  <2>2. CASE ~Finish(p)
    <3> DEFINE s == req[p].sess
    <3>1. req[p].pc = "session" /\ s \in Sessions /\ ValidSession(s)
      BY <1>5, <2>2 DEF HandleExistingSession, Locals
    <3>2. sessions[s].created \in Nat
      BY <3>1 DEF ValidSession, SessionsOwned
    <3>3. PICK next \in {"recover", "complete"} :
             req' = [req EXCEPT ![p].pc = next, ![p].at = sessions[s].created]
      BY <1>5, <2>2 DEF HandleExistingSession
    <3>4. [req[p] EXCEPT !.pc = next, !.at = sessions[s].created] \in HTTPRequest
      BY <3>2 DEF TypeOK, HTTPRequest, PC
    <3>5. req' \in [Procs -> HTTPRequest]
      BY <3>3, <3>4 DEF TypeOK
    <3>6. /\ req'[p].pc = next /\ req'[p].at = sessions[s].created
          /\ req'[p].ar = req[p].ar /\ req'[p].user = req[p].user
          /\ \A q \in Procs : q # p => req'[q] = req[q]
      BY <3>3 DEF TypeOK, HTTPRequest
    <3>7. Locals'
      BY <3>1, <3>2, <3>6 DEF Locals, Carries
    <3> QED BY <1>5, <3>5, <3>7 DEF HandleExistingSession, TypeOK, SessionsOwned, Completed
  <2> QED BY <2>1, <2>2
<1>6. ASSUME NEW p \in Procs, NEW r \in Requests, NEW u \in Users, Callback(p, r, u)
      PROVE  Typed'
  <2>1. PICK pc \in {"cbRecover", "cbSession"} :
          /\ req' = [req EXCEPT ![p] = [Idle EXCEPT !.pc = pc, !.ar = r, !.user = u]]
          /\ UNCHANGED <<now, store, trail>>
    BY <1>6 DEF Callback
  <2> QED BY <2>1 DEF TypeOK, Locals, SessionsOwned, Completed, Carries, HTTPRequest, Idle, PC
<1>7. ASSUME NEW p \in Procs, RecoverUser(p) PROVE Typed'
  <2>1. status' \in [Users -> Status]
    BY <1>7 DEF RecoverUser, TypeOK, Status
  <2>2. req' \in [Procs -> HTTPRequest] /\ Locals'
    BY <1>7, GotoType DEF RecoverUser, Carries, PC
  <2> QED BY <1>7, <2>1, <2>2 DEF RecoverUser, TypeOK, SessionsOwned, Completed
<1>8. ASSUME NEW p \in Procs, NEW s \in Sessions, CreateSession(p, s) PROVE Typed'
  <2>1. req[p].user \in Users /\ now \in Nat
    BY <1>8 DEF CreateSession, Locals, TypeOK
  <2>2. sessions' \in [Sessions -> Session] /\ SessionsOwned'
    BY <1>8, <2>1 DEF CreateSession, TypeOK, Session, SessionsOwned
  <2>3. req' \in [Procs -> HTTPRequest] /\ Locals'
    BY <1>8, GotoType DEF CreateSession, PC
  <2>4. seen' \subseteq Users \X Nat
    BY <1>8, <2>1 DEF CreateSession, TypeOK
  <2> QED BY <1>8, <2>2, <2>3, <2>4 DEF CreateSession, TypeOK, Completed
<1>9. ASSUME NEW p \in Procs, CompleteAuthRequest(p) PROVE Typed'
  <2> DEFINE r == req[p].ar
             u == req[p].user
             t == AuthTime(p)
             row == [authReqs[r] EXCEPT !.done = TRUE, !.subject = u, !.authTime = t]
  <2>1. r \in Requests /\ u \in Users /\ t \in Nat /\ now \in Nat
    BY <1>9 DEF CompleteAuthRequest, Locals, Carries, AuthTime, TypeOK
  <2>2. authReqs' = authReqs \/ authReqs' = [authReqs EXCEPT ![r] = row]
    BY <1>9 DEF CompleteAuthRequest
  <2>3. row \in AuthRequest /\ row.done = TRUE /\ row.subject = u /\ row.authTime = t
    <3> HIDE DEF r, u, t
    <3>1. authReqs[r] \in AuthRequest
      BY <2>1 DEF TypeOK
    <3> QED BY <2>1, <3>1 DEF AuthRequest
  <2> HIDE DEF row
  <2>4. authReqs' \in [Requests -> AuthRequest] /\ Completed'
    BY <2>1, <2>2, <2>3, RequestRowType DEF Completed, TypeOK
  <2>5. seen' \subseteq Users \X Nat
    BY <1>9, <2>1 DEF CompleteAuthRequest, TypeOK
  <2> QED BY <1>9, <2>4, <2>5, FinishType DEF CompleteAuthRequest, TypeOK, SessionsOwned
<1>10. ASSUME NEW r \in Requests, SaveAuthCode(r) PROVE Typed'
  <2> DEFINE row == [authReqs[r] EXCEPT !.code = @ + 1]
  <2>1. /\ row \in AuthRequest /\ row.done = authReqs[r].done
        /\ row.subject = authReqs[r].subject /\ row.authTime = authReqs[r].authTime
    BY DEF TypeOK, AuthRequest
  <2>2. /\ authReqs' = [authReqs EXCEPT ![r] = row] /\ authReqs[r].done
        /\ UNCHANGED <<now, sessions, status, req, trail>>
    BY <1>10 DEF SaveAuthCode
  <2> HIDE DEF row
  <2>3. authReqs' \in [Requests -> AuthRequest] /\ Completed'
    BY <2>1, <2>2, RequestRowType DEF Completed
  <2> QED BY <2>2, <2>3 DEF TypeOK, Locals, SessionsOwned, Carries
<1>11. ASSUME NEW p \in Procs, NEW r \in Requests, NEW k \in 1 .. MaxCodes,
              AuthRequestByCode(p, r, k)
       PROVE  Typed'
  <2> DEFINE new == [Idle EXCEPT !.pc = "exchange", !.ar = r, !.code = k,
                       !.user = authReqs[r].subject, !.at = authReqs[r].authTime]
  <2>0. k # 0 /\ k \in Nat
    BY AuthRequestConstants
  <2>1. authReqs[r].subject \in Users /\ authReqs[r].authTime \in Nat
    BY <1>11, <2>0 DEF AuthRequestByCode, Completed
  <2>2. /\ new \in HTTPRequest /\ new.pc = "exchange" /\ new.ar = r /\ new.user \in Users
        /\ new.at \in Nat
    BY <2>0, <2>1 DEF HTTPRequest, Idle, PC
  <2>3. req' = [req EXCEPT ![p] = new] /\ UNCHANGED <<now, store, trail>>
    BY <1>11 DEF AuthRequestByCode
  <2> HIDE DEF new
  <2> QED BY <2>2, <2>3 DEF TypeOK, Locals, SessionsOwned, Completed, Carries
<1>12. ASSUME NEW r \in Requests, authReqs' = [authReqs EXCEPT ![r].state = "deleted"]
       PROVE  authReqs' \in [Requests -> AuthRequest] /\ Completed'
  <2> DEFINE row == [authReqs[r] EXCEPT !.state = "deleted"]
  <2>1. /\ row \in AuthRequest /\ row.done = authReqs[r].done /\ row.code = authReqs[r].code
        /\ row.subject = authReqs[r].subject /\ row.authTime = authReqs[r].authTime
    BY DEF TypeOK, AuthRequest
  <2>2. authReqs' = [authReqs EXCEPT ![r] = row]
    BY <1>12
  <2> HIDE DEF row
  <2> QED BY <2>1, <2>2, RequestRowType DEF Completed
<1>13. ASSUME NEW p \in Procs, IssueTokens(p) PROVE Typed'
  <2> DEFINE r == req[p].ar
  <2>1. r \in Requests /\ req[p].user \in Users /\ req[p].at \in Nat
    BY <1>13 DEF IssueTokens, Locals, Carries
  <2>2. CASE /\ authReqs' = [authReqs EXCEPT ![r].state = "deleted"]
             /\ tokens' = tokens \cup {<<r, req[p].user, req[p].at>>}
             /\ issued' = [issued EXCEPT ![r] = @ + 1]
    <3>1. authReqs' \in [Requests -> AuthRequest] /\ Completed'
      BY <1>12, <2>1, <2>2
    <3>2. tokens' \subseteq Requests \X Users \X Nat
      BY <2>1, <2>2 DEF TypeOK
    <3>3. issued' \in [Requests -> Nat]
      BY <2>1, <2>2 DEF TypeOK
    <3> QED BY <1>13, <3>1, <3>2, <3>3, FinishType DEF IssueTokens, TypeOK, SessionsOwned
  <2>3. CASE UNCHANGED <<authReqs, tokens, issued>>
    BY <1>13, <2>3, FinishType DEF IssueTokens, TypeOK, SessionsOwned, Completed
  <2> QED BY <1>13, <2>2, <2>3 DEF IssueTokens
<1>14. ASSUME NEW u \in Users, TerminateSession(u) PROVE Typed'
  BY <1>14 DEF TerminateSession, TypeOK, Session, Locals, SessionsOwned, Completed, Carries
<1>15. ASSUME NEW u \in Users, NEW st \in Statuses, SetUserStatus(u, st) PROVE Typed'
  BY <1>15, AuthRequestConstants
     DEF SetUserStatus, TypeOK, Status, Locals, SessionsOwned, Completed, Carries
<1>15a. ASSUME NEW u \in Users, RequestDeletion(u) PROVE Typed'
  BY <1>15a DEF RequestDeletion, TypeOK, Status, Locals, SessionsOwned, Completed, Carries
<1>16. ASSUME NEW r \in Requests, DeleteExpiredAuthRequest(r) PROVE Typed'
  BY <1>12, <1>16 DEF DeleteExpiredAuthRequest, TypeOK, Locals, SessionsOwned, Carries
<1>17. ASSUME NEW s \in Sessions, DeleteExpiredOrRevokedSession(s) PROVE Typed'
  BY <1>17
     DEF DeleteExpiredOrRevokedSession, TypeOK, Session, Locals, SessionsOwned, Completed, Carries
<1>18. ASSUME NEW p \in Procs, Abort(p) PROVE Typed'
  BY <1>18, FinishType DEF Abort, TypeOK, SessionsOwned, Completed
<1>19. CASE UNCHANGED vars
  BY <1>19 DEF vars, TypeOK, Locals, SessionsOwned, Completed, Carries
<1>20. ASSUME NEW p \in Procs, Login(p) PROVE Typed'
  BY <1>4, <1>5, <1>6, <1>7, <1>8, <1>9, <1>20 DEF Login
<1>21. ASSUME NEW p \in Procs, Exchange(p) PROVE Typed'
  BY <1>11, <1>13, <1>21 DEF Exchange
<1>22. CASE Environment
  BY <1>2, <1>3, <1>10, <1>14, <1>15, <1>15a, <1>16, <1>17, <1>22 DEF Environment
<1> QED BY <1>1, <1>18, <1>19, <1>20, <1>21, <1>22 DEF Next

(* Auth requests, sessions and tokens stay well formed: a token always has *)
(* a subject and an auth time.                                             *)
THEOREM TypeCorrect == Spec => []TypeOK
<1>1. Typed => TypeOK
  BY DEF Typed
<1> QED BY TypedInit, TypedStep, <1>1, PTL DEF Spec

----------------------------------------------------------------------------
(***************************************************************************)
(* The inductive invariant.  A sign-in (u, t) that is good for auth        *)
(* request r stays good, because r keeps prompt, max_age and creation      *)
(* time; the invariant follows it from the session or the callback through *)
(* the auth request and the code to the token.                             *)
(***************************************************************************)
Good(r, u, t) ==
  /\ authReqs[r].state # "none"
  /\ <<u, t>> \in seen
  /\ authReqs[r].mode = "interactive" => t >= authReqs[r].created
  /\ authReqs[r].maxAge # Null =>
       authReqs[r].created - t < (authReqs[r].maxAge + 1) * Second

(* A session was opened by an upstream login of its user. *)
SessionSeen(s) ==
  sessions[s].state # "none" => <<sessions[s].user, sessions[s].created>> \in seen

(* What the steps that a request has left rely on. *)
Trusted(p) ==
  /\ req[p].pc # "idle" => authReqs[req[p].ar].state # "none"
  /\ req[p].pc = "session" =>
       /\ sessions[req[p].sess].state # "none"
       /\ sessions[req[p].sess].user = req[p].user
       /\ authReqs[req[p].ar].mode # "interactive"
  /\ Carries(p) => Good(req[p].ar, req[p].user, req[p].at)
  /\ req[p].pc \in {"recover", "cbRecover"} =>
       authReqs[req[p].ar].channel = "browser" /\ authReqs[req[p].ar].mode # "silent"

RowSound(r) ==
  /\ authReqs[r].created <= now
  /\ authReqs[r].upstream => authReqs[r].state # "none" /\ authReqs[r].mode # "silent"
  /\ authReqs[r].done => Good(r, authReqs[r].subject, authReqs[r].authTime)
  /\ issued[r] <= 1
  /\ issued[r] # 0 => authReqs[r].state = "deleted"

TokensGood(r) ==
  \A u \in Users, t \in Nat : <<r, u, t>> \in tokens => Good(r, u, t)

Rest ==
  /\ \A s \in Sessions : SessionSeen(s)
  /\ \A p \in Procs : Trusted(p)
  /\ \A r \in Requests : RowSound(r) /\ TokensGood(r)

Inv == Typed /\ Rest

LEMMA InvInit == Init => Inv
<1> SUFFICES ASSUME Init PROVE Inv OBVIOUS
<1>1. Typed
  BY TypedInit
<1>2. Rest
  BY
     DEF Init, Rest, SessionSeen, Trusted, RowSound, TokensGood, Carries, NoAuthRequest, NoSession, Idle
<1> QED BY <1>1, <1>2 DEF Inv

----------------------------------------------------------------------------
(* What no step takes back: auth requests and sessions keep what they were *)
(* created with, and nobody's sign-in is forgotten.                        *)
Kept ==
  /\ \A r \in Requests : authReqs[r].state # "none" =>
       /\ authReqs'[r].state # "none"
       /\ authReqs'[r].channel = authReqs[r].channel
       /\ authReqs'[r].mode = authReqs[r].mode
       /\ authReqs'[r].maxAge = authReqs[r].maxAge
       /\ authReqs'[r].created = authReqs[r].created
  /\ \A s \in Sessions : sessions[s].state # "none" =>
       /\ sessions'[s].state # "none"
       /\ sessions'[s].user = sessions[s].user
       /\ sessions'[s].created = sessions[s].created
  /\ seen \subseteq seen'
  /\ now \in Nat /\ now' \in Nat /\ now <= now'

LEMMA KeptStep == Typed /\ [Next]_vars => Kept
<1> SUFFICES ASSUME Typed, [Next]_vars PROVE Kept OBVIOUS
<1>0. TypeOK /\ Locals
  BY DEF Typed
<1> USE <1>0 DEF TypeOK, AuthRequest, Session, store, trail, Kept
<1>1. CASE Tick
  BY <1>1 DEF Tick
<1>2. CASE Environment
  <2>1. ASSUME NEW r \in Requests, NEW c \in Channels, NEW m \in Modes, NEW a \in MaxAges,
               CreateAuthRequest(r, c, m, a)
        PROVE  Kept
    BY <2>1 DEF CreateAuthRequest
  <2>2. ASSUME NEW r \in Requests, RedirectToIdP(r) PROVE Kept
    BY <2>2 DEF RedirectToIdP
  <2>3. ASSUME NEW r \in Requests, SaveAuthCode(r) PROVE Kept
    BY <2>3 DEF SaveAuthCode
  <2>4. ASSUME NEW r \in Requests, DeleteExpiredAuthRequest(r) PROVE Kept
    BY <2>4 DEF DeleteExpiredAuthRequest
  <2>5. ASSUME NEW u \in Users, TerminateSession(u) PROVE Kept
    BY <2>5 DEF TerminateSession
  <2>6. ASSUME NEW u \in Users, NEW st \in Statuses, SetUserStatus(u, st) PROVE Kept
    BY <2>6 DEF SetUserStatus
  <2>6a. ASSUME NEW u \in Users, RequestDeletion(u) PROVE Kept
    BY <2>6a DEF RequestDeletion
  <2>7. ASSUME NEW s \in Sessions, DeleteExpiredOrRevokedSession(s) PROVE Kept
    BY <2>7 DEF DeleteExpiredOrRevokedSession
  <2> QED BY <1>2, <2>1, <2>2, <2>3, <2>4, <2>5, <2>6, <2>6a, <2>7 DEF Environment
<1>3. ASSUME NEW p \in Procs, Login(p) PROVE Kept
  <2>1. ASSUME NEW r \in Requests, NEW s \in Sessions, HandleLogin(p, r, s) PROVE Kept
    BY <2>1 DEF HandleLogin
  <2>2. ASSUME NEW r \in Requests, NEW u \in Users, Callback(p, r, u) PROVE Kept
    BY <2>2 DEF Callback
  <2>3. CASE HandleExistingSession(p)
    BY <2>3 DEF HandleExistingSession
  <2>4. CASE RecoverUser(p)
    BY <2>4 DEF RecoverUser
  <2>5. CASE CompleteAuthRequest(p)
    <3> DEFINE t == AuthTime(p)
    <3>1. /\ \/ authReqs' = authReqs
             \/ authReqs' = [authReqs EXCEPT ![req[p].ar].done = TRUE, ![req[p].ar].subject = req[p].user,
                                             ![req[p].ar].authTime = t]
          /\ seen \subseteq seen' /\ UNCHANGED <<now, sessions>>
      BY <2>5 DEF CompleteAuthRequest
    <3> HIDE DEF t
    <3> QED BY <3>1
  <2>6. ASSUME NEW s \in Sessions, CreateSession(p, s) PROVE Kept
    BY <2>6 DEF CreateSession
  <2> QED BY <1>3, <2>1, <2>2, <2>3, <2>4, <2>5, <2>6 DEF Login
<1>4. ASSUME NEW p \in Procs, Exchange(p) PROVE Kept
  <2>1. ASSUME NEW r \in Requests, NEW k \in 1 .. MaxCodes, AuthRequestByCode(p, r, k) PROVE Kept
    BY <2>1 DEF AuthRequestByCode
  <2>2. CASE IssueTokens(p)
    BY <2>2 DEF IssueTokens
  <2> QED BY <1>4, <2>1, <2>2 DEF Exchange
<1>5. ASSUME NEW p \in Procs, Abort(p) PROVE Kept
  BY <1>5 DEF Abort
<1>6. CASE UNCHANGED vars
  BY <1>6 DEF vars
<1> QED BY <1>1, <1>2, <1>3, <1>4, <1>5, <1>6 DEF Next

LEMMA GoodKept ==
  ASSUME Kept, NEW r \in Requests, NEW u, NEW t, Good(r, u, t)
  PROVE  Good(r, u, t)'
BY DEF Kept, Good

(* The parts of the invariant that a step does not touch. *)
LEMMA SessionKept ==
  ASSUME Inv, Kept, NEW s \in Sessions,
         sessions[s].state # "none" \/ sessions'[s] = sessions[s]
  PROVE  SessionSeen(s)'
BY DEF Inv, Rest, SessionSeen, Kept

LEMMA TrustKept ==
  ASSUME Inv, Kept, NEW p \in Procs, req'[p] = req[p] \/ req'[p] = Idle
  PROVE  Trusted(p)'
<1>1. CASE req'[p] = Idle
  BY <1>1 DEF Trusted, Idle, Carries
<1>2. CASE req'[p] = req[p]
  <2>1. Trusted(p) /\ Locals
    BY DEF Inv, Rest, Typed
  <2>2. Carries(p) => Good(req[p].ar, req[p].user, req[p].at)'
    BY <1>2, <2>1, GoodKept DEF Trusted, Locals, Carries
  <2> QED BY <1>2, <2>1, <2>2 DEF Trusted, Locals, Carries, Kept, Good
<1> QED BY <1>1, <1>2

LEMMA RowKept ==
  ASSUME Inv, Kept, NEW r \in Requests, authReqs'[r] = authReqs[r], issued'[r] = issued[r]
  PROVE  RowSound(r)'
<1>1. RowSound(r) /\ authReqs[r] \in AuthRequest
  BY DEF Inv, Rest, Typed, TypeOK
<1> QED BY <1>1 DEF RowSound, Good, Kept, AuthRequest

LEMMA TokensKept ==
  ASSUME Inv, Kept, NEW r \in Requests, tokens' = tokens
  PROVE  TokensGood(r)'
BY GoodKept DEF Inv, Rest, TokensGood

----------------------------------------------------------------------------
(* The steps that do something for the invariant.                          *)

(* A valid session is one somebody signed in for. *)
LEMMA HandleLoginStep ==
  ASSUME Inv, Kept, Typed', NEW p \in Procs, NEW r \in Requests, NEW s \in Sessions,
         HandleLogin(p, r, s)
  PROVE  Rest'
<1>1. UNCHANGED <<now, authReqs, sessions, tokens, issued, seen>>
  BY DEF HandleLogin, store, trail
<1>2. /\ req'[p].pc = "session" /\ req'[p].ar = r /\ req'[p].sess = s
      /\ req'[p].user = sessions[s].user
      /\ \A q \in Procs : q # p => req'[q] = req[q]
  BY DEF HandleLogin, Idle, Inv, Typed, TypeOK
<1>3. authReqs[r].state # "none" /\ authReqs[r].mode # "interactive" /\ sessions[s].state # "none"
  BY DEF HandleLogin, Loadable, Stored, ValidSession
<1>4. Trusted(p)'
  BY <1>1, <1>2, <1>3 DEF Trusted, Carries
<1>5. \A q \in Procs : Trusted(q)'
  BY <1>2, <1>4, TrustKept
<1> QED BY <1>1, <1>5, SessionKept, RowKept, TokensKept DEF Rest

(* An age whose whole seconds do not exceed m is less than m + 1 seconds. *)
LEMMA WholeSeconds ==
  ASSUME NEW n \in Nat, NEW m \in Nat, ~(n \div Second > m)
  PROVE  n < (m + 1) * Second
<1>1. Second \in Nat \ {0}
  BY AuthRequestConstants
<1> DEFINE q == n \div Second
<1>2. q \in Nat /\ n < (q + 1) * Second
  BY <1>1
<1>3. (q + 1) * Second <= (m + 1) * Second
  <2>1. q <= m
    BY <1>2
  <2> HIDE DEF q
  <2> QED BY <1>1, <1>2, <2>1
<1> QED BY <1>1, <1>2, <1>3

(* The max_age test, and the prompt on which the session was accepted, make *)
(* the session's sign-in good for the request.                              *)
LEMMA HandleExistingSessionStep ==
  ASSUME Inv, Kept, Typed', NEW p \in Procs, HandleExistingSession(p)
  PROVE  Rest'
<1>1. UNCHANGED <<now, authReqs, sessions, tokens, issued, seen>>
  BY DEF HandleExistingSession, store, trail
<1>2. CASE Finish(p)
  <2>1. \A q \in Procs : req'[q] = req[q] \/ req'[q] = Idle
    BY <1>2 DEF Finish, Inv, Typed, TypeOK
  <2> QED BY <1>1, <2>1, SessionKept, TrustKept, RowKept, TokensKept DEF Rest
<1>3. CASE ~Finish(p)
  <2> DEFINE r == req[p].ar
             s == req[p].sess
             u == req[p].user
             t == sessions[s].created
             access == CheckAccess(req[p].status, authReqs[r].channel)
  <2>1. /\ req[p].pc = "session" /\ r \in Requests /\ s \in Sessions /\ u \in Users
        /\ ValidSession(s) /\ ~TooOldForMaxAge(r, t)
    BY <1>3 DEF HandleExistingSession, Inv, Typed, Locals
  <2>2. PICK next \in {"recover", "complete"} :
          /\ req' = [req EXCEPT ![p].pc = next, ![p].at = t]
          /\ next = "recover" => access = "recover" /\ authReqs[r].mode # "silent"
    BY <1>3 DEF HandleExistingSession
  <2>3. access = "recover" => authReqs[r].channel = "browser"
    BY DEF CheckAccess
  <2>4. /\ Trusted(p) /\ SessionSeen(s) /\ RowSound(r) /\ authReqs[r] \in AuthRequest
        /\ now \in Nat /\ t \in Nat
    BY <2>1 DEF Inv, Rest, Typed, TypeOK, SessionsOwned, ValidSession
  <2>a. authReqs[r].maxAge # Null =>
          authReqs[r].created - t < (authReqs[r].maxAge + 1) * Second
    <3> SUFFICES ASSUME authReqs[r].maxAge # Null
                 PROVE  authReqs[r].created - t < (authReqs[r].maxAge + 1) * Second
      OBVIOUS
    <3> DEFINE bound == (authReqs[r].maxAge + 1) * Second
    <3>1. /\ authReqs[r].maxAge \in Nat /\ authReqs[r].created \in Nat \cup {Null}
          /\ authReqs[r].created <= now
      BY <2>4 DEF RowSound, AuthRequest
    <3>2. bound \in Nat
      BY <3>1, AuthRequestConstants
    <3>3. CASE t > now
      <4> HIDE DEF bound
      <4> QED BY <2>4, <3>1, <3>2, <3>3 DEF bound
    <3>4. CASE t <= now
      <4>1. now - t < bound
        BY <2>1, <2>4, <3>1, <3>4, WholeSeconds DEF TooOldForMaxAge
      <4> HIDE DEF bound
      <4>2. authReqs[r].created - t < bound
        BY <2>4, <3>1, <3>2, <4>1
      <4> QED BY <4>2 DEF bound
    <3> QED BY <2>4, <3>3, <3>4
  <2>5. Good(r, u, t)
    BY <2>1, <2>4, <2>a DEF Trusted, SessionSeen, RowSound, Good, ValidSession, AuthRequest
  <2>6. /\ req'[p].pc = next /\ req'[p].ar = r /\ req'[p].user = u /\ req'[p].at = t
        /\ \A q \in Procs : q # p => req'[q] = req[q]
    BY <2>2 DEF Inv, Typed, TypeOK, HTTPRequest
  <2>7. Trusted(p)'
    <3>1. PICK rr \in Requests, uu \in {u}, tt \in {t} : rr = r /\ uu = u /\ tt = t
      BY <2>1
    <3>2. Good(rr, uu, tt)'
      BY <2>5, <3>1, GoodKept
    <3>3. authReqs[rr].state # "none"
      BY <2>5, <3>1 DEF Good
    <3>4. next = "recover" => authReqs[rr].channel = "browser" /\ authReqs[rr].mode # "silent"
      BY <2>2, <2>3, <3>1
    <3>5. req'[p].ar = rr /\ req'[p].user = uu /\ req'[p].at = tt
      BY <2>6, <3>1
    <3> HIDE DEF access, r, u, t
    <3> QED BY <1>1, <2>2, <2>6, <3>2, <3>3, <3>4, <3>5 DEF Trusted, Carries
  <2>8. \A q \in Procs : Trusted(q)'
    BY <2>6, <2>7, TrustKept
  <2> QED BY <1>1, <2>8, SessionKept, RowKept, TokensKept DEF Rest
<1> QED BY <1>2, <1>3

LEMMA CallbackStep ==
  ASSUME Inv, Kept, Typed', NEW p \in Procs, NEW r \in Requests, NEW u \in Users,
         Callback(p, r, u)
  PROVE  Rest'
<1> DEFINE access == CheckAccess(status[u], authReqs[r].channel)
<1>1. UNCHANGED <<now, authReqs, sessions, tokens, issued, seen>>
  BY DEF Callback, store, trail
<1>2. PICK pc \in {"cbRecover", "cbSession"} :
        /\ req' = [req EXCEPT ![p] = [Idle EXCEPT !.pc = pc, !.ar = r, !.user = u]]
        /\ pc = "cbRecover" => access = "recover"
  BY DEF Callback
<1>3. access = "recover" => authReqs[r].channel = "browser"
  BY DEF CheckAccess
<1>4. authReqs[r].state # "none" /\ authReqs[r].mode # "silent"
  BY DEF Callback, Inv, Rest, RowSound
<1> HIDE DEF access
<1>5. /\ req'[p].pc = pc /\ req'[p].ar = r /\ \A q \in Procs : q # p => req'[q] = req[q]
  BY <1>2 DEF Idle, Inv, Typed, TypeOK
<1>6. Trusted(p)'
  BY <1>1, <1>2, <1>3, <1>4, <1>5 DEF Trusted, Carries
<1>7. \A q \in Procs : Trusted(q)'
  BY <1>5, <1>6, TrustKept
<1> QED BY <1>1, <1>7, SessionKept, RowKept, TokensKept DEF Rest

LEMMA RecoverUserStep ==
  ASSUME Inv, Kept, Typed', NEW p \in Procs, RecoverUser(p)
  PROVE  Rest'
<1>1. UNCHANGED <<now, authReqs, sessions, tokens, issued, seen>>
  BY DEF RecoverUser, trail
<1>2. /\ \/ req[p].pc = "recover" /\ req'[p].pc = "complete"
         \/ req[p].pc = "cbRecover" /\ req'[p].pc = "cbSession"
      /\ req'[p].ar = req[p].ar /\ req'[p].user = req[p].user /\ req'[p].at = req[p].at
      /\ \A q \in Procs : q # p => req'[q] = req[q]
  BY DEF RecoverUser, Goto, Inv, Typed, TypeOK, HTTPRequest
<1>3. Trusted(p)'
  BY <1>1, <1>2 DEF Inv, Rest, Trusted, Carries, Good
<1>4. \A q \in Procs : Trusted(q)'
  BY <1>2, <1>3, TrustKept
<1> QED BY <1>1, <1>4, SessionKept, RowKept, TokensKept DEF Rest

LEMMA CreateSessionStep ==
  ASSUME Inv, Kept, Typed', NEW p \in Procs, NEW s \in Sessions, CreateSession(p, s)
  PROVE  Rest'
<1>1. UNCHANGED <<authReqs, tokens, issued>>
  BY DEF CreateSession
<1>2. /\ req[p].pc = "cbSession" /\ req'[p].pc = "cbComplete" /\ req'[p].ar = req[p].ar
      /\ \A q \in Procs : q # p => req'[q] = req[q]
  BY DEF CreateSession, Goto, Inv, Typed, TypeOK, HTTPRequest
<1>3. Trusted(p)'
  BY <1>1, <1>2 DEF Inv, Rest, Trusted, Carries
<1>4. \A q \in Procs : Trusted(q)'
  BY <1>2, <1>3, TrustKept
<1>5. /\ sessions'[s].user = req[p].user /\ sessions'[s].created = now
      /\ <<req[p].user, now>> \in seen'
      /\ \A z \in Sessions : z # s => sessions'[z] = sessions[z]
  BY DEF CreateSession, Inv, Typed, TypeOK
<1>6. \A z \in Sessions : SessionSeen(z)'
  BY <1>5, SessionKept DEF SessionSeen
<1> QED BY <1>1, <1>4, <1>6, RowKept, TokensKept DEF Rest

(* Whoever completes the request last writes a sign-in that is good for it. *)
LEMMA CompleteAuthRequestStep ==
  ASSUME Inv, Kept, Typed', NEW p \in Procs, CompleteAuthRequest(p)
  PROVE  Rest'
<1>1. UNCHANGED <<now, sessions, tokens, issued>>
  BY DEF CompleteAuthRequest
<1>0. PICK r \in Requests, u \in Users, t \in {AuthTime(p)} : r = req[p].ar /\ u = req[p].user /\ t = AuthTime(p)
  BY DEF CompleteAuthRequest, Inv, Typed, Locals
<1>2. /\ req[p].pc \in {"complete", "cbComplete"}
      /\ now \in Nat /\ authReqs[r] \in AuthRequest
      /\ Trusted(p) /\ RowSound(r)
  BY DEF CompleteAuthRequest, Inv, Rest, Typed, TypeOK
<1>3. Good(r, u, t)'
  <2>1. CASE req[p].pc = "complete"
    <3>1. Good(r, u, t)
      BY <1>0, <1>2, <2>1 DEF Trusted, Carries, AuthTime
    <3> QED BY <3>1, GoodKept
  <2>2. CASE req[p].pc = "cbComplete"
    <3>1. t = now /\ <<u, t>> \in seen'
      BY <1>0, <2>2 DEF AuthTime, CompleteAuthRequest
    <3>2. authReqs[r].state # "none" /\ authReqs[r].created <= t
      BY <1>0, <1>2, <2>2, <3>1 DEF Trusted, RowSound
    <3>3. ASSUME authReqs[r].maxAge # Null
          PROVE  authReqs[r].created - t < (authReqs[r].maxAge + 1) * Second
      <4>1. authReqs[r].maxAge \in Nat /\ authReqs[r].created \in Nat \cup {Null}
        BY <1>2, <3>3 DEF AuthRequest
      <4>2. 0 < (authReqs[r].maxAge + 1) * Second
        BY <4>1, AuthRequestConstants
      <4> QED BY <1>2, <3>1, <3>2, <4>1, <4>2, AuthRequestConstants
    <3> QED BY <3>1, <3>2, <3>3 DEF Good, Kept
  <2> QED BY <1>2, <2>1, <2>2
<1>4. \/ authReqs' = authReqs
      \/ authReqs' = [authReqs EXCEPT ![r].done = TRUE, ![r].subject = u, ![r].authTime = t]
  BY <1>0 DEF CompleteAuthRequest
<1>5. \/ authReqs' = authReqs
      \/ /\ authReqs'[r].subject = u /\ authReqs'[r].authTime = t
         /\ authReqs'[r].state = authReqs[r].state /\ authReqs'[r].created = authReqs[r].created
         /\ authReqs'[r].mode = authReqs[r].mode /\ authReqs'[r].upstream = authReqs[r].upstream
         /\ \A z \in Requests : z # r => authReqs'[z] = authReqs[z]
  BY <1>2, <1>4 DEF Inv, Typed, TypeOK, AuthRequest
<1>6. RowSound(r)'
  BY <1>1, <1>2, <1>3, <1>5, RowKept DEF RowSound, Good
<1>7. \A z \in Requests : RowSound(z)'
  BY <1>1, <1>5, <1>6, RowKept
<1>8. \A q \in Procs : req'[q] = req[q] \/ req'[q] = Idle
  BY DEF CompleteAuthRequest, Finish, Inv, Typed, TypeOK
<1> QED BY <1>1, <1>7, <1>8, TrustKept, SessionKept, TokensKept DEF Rest

(* The code leads to the subject and the auth time of the auth request. *)
LEMMA AuthRequestByCodeStep ==
  ASSUME Inv, Kept, Typed', NEW p \in Procs, NEW r \in Requests, NEW k \in 1 .. MaxCodes,
         AuthRequestByCode(p, r, k)
  PROVE  Rest'
<1>1. UNCHANGED <<now, authReqs, sessions, tokens, issued, seen>>
  BY DEF AuthRequestByCode, store, trail
<1>2. authReqs[r].code = k /\ k # 0
  BY AuthRequestConstants DEF AuthRequestByCode
<1>3. PICK u, t : u = authReqs[r].subject /\ t = authReqs[r].authTime
  OBVIOUS
<1>4. Good(r, u, t)
  BY <1>2, <1>3 DEF Inv, Rest, Typed, Completed, RowSound
<1>5. /\ req'[p].pc = "exchange" /\ req'[p].ar = r /\ req'[p].user = u /\ req'[p].at = t
      /\ \A q \in Procs : q # p => req'[q] = req[q]
  BY <1>3 DEF AuthRequestByCode, Idle, Inv, Typed, TypeOK
<1>6. Good(r, u, t)' /\ authReqs'[r].state # "none"
  BY <1>4, GoodKept DEF Good
<1>7. Trusted(p)'
  BY <1>5, <1>6 DEF Trusted, Carries
<1>8. \A q \in Procs : Trusted(q)'
  BY <1>5, <1>7, TrustKept
<1> QED BY <1>1, <1>8, SessionKept, RowKept, TokensKept DEF Rest

(* A row that is deleted stays deleted, so that no second exchange finds it. *)
LEMMA RowDeleted ==
  ASSUME Inv, Kept, NEW r \in Requests, authReqs' = [authReqs EXCEPT ![r].state = "deleted"],
         Stored(r), issued'[r] \in {0, 1}
  PROVE  RowSound(r)' /\ \A z \in Requests : z # r => authReqs'[z] = authReqs[z]
<1>1. /\ authReqs'[r].state = "deleted" /\ authReqs'[r].created = authReqs[r].created
      /\ authReqs'[r].mode = authReqs[r].mode /\ authReqs'[r].upstream = authReqs[r].upstream
      /\ authReqs'[r].done = authReqs[r].done /\ authReqs'[r].subject = authReqs[r].subject
      /\ authReqs'[r].authTime = authReqs[r].authTime
      /\ \A z \in Requests : z # r => authReqs'[z] = authReqs[z]
  BY DEF Inv, Typed, TypeOK, AuthRequest
<1>2. PICK u, t : u = authReqs[r].subject /\ t = authReqs[r].authTime
  OBVIOUS
<1>3. RowSound(r) /\ authReqs[r] \in AuthRequest
  BY DEF Inv, Rest, Typed, TypeOK
<1>4. authReqs[r].done => Good(r, u, t)'
  BY <1>2, <1>3, GoodKept DEF RowSound
<1>5. authReqs'[r].created <= now'
  BY <1>1, <1>3 DEF RowSound, Kept, AuthRequest
<1> QED BY <1>1, <1>2, <1>3, <1>4, <1>5 DEF RowSound

LEMMA IssueTokensStep ==
  ASSUME Inv, Kept, Typed', NEW p \in Procs, IssueTokens(p)
  PROVE  Rest'
<1>1. UNCHANGED <<now, sessions, seen>>
  BY DEF IssueTokens
<1>2. PICK r \in Requests, u \in {req[p].user}, t \in {req[p].at} : r = req[p].ar /\ u = req[p].user /\ t = req[p].at
  BY DEF IssueTokens, Inv, Typed, Locals
<1>3. Good(r, u, t)'
  <2>1. Good(r, u, t)
    BY <1>2 DEF IssueTokens, Inv, Rest, Trusted, Carries
  <2> QED BY <2>1, GoodKept
<1>4. \A q \in Procs : Trusted(q)'
  <2>1. \A q \in Procs : req'[q] = req[q] \/ req'[q] = Idle
    BY DEF IssueTokens, Finish, Inv, Typed, TypeOK
  <2> QED BY <2>1, TrustKept
<1>5. CASE UNCHANGED <<authReqs, tokens, issued>>
  BY <1>1, <1>4, <1>5, SessionKept, RowKept, TokensKept DEF Rest
<1>6. CASE ~UNCHANGED <<authReqs, tokens, issued>>
  <2>1. /\ Stored(r) /\ authReqs' = [authReqs EXCEPT ![r].state = "deleted"]
        /\ tokens' = tokens \cup {<<r, u, t>>}
        /\ issued' = [issued EXCEPT ![r] = @ + 1]
    BY <1>2, <1>6 DEF IssueTokens
  <2>2. issued[r] = 0 /\ issued \in [Requests -> Nat]
    BY <2>1 DEF Inv, Rest, RowSound, Stored, Typed, TypeOK
  <2>3. issued'[r] = 1 /\ \A z \in Requests : z # r => issued'[z] = issued[z]
    BY <2>1, <2>2
  <2>4. \A z \in Requests : RowSound(z)'
    BY <2>1, <2>3, RowDeleted, RowKept
  <2>5. ASSUME NEW z \in Requests PROVE TokensGood(z)'
    <3> SUFFICES ASSUME NEW v \in Users, NEW w \in Nat, <<z, v, w>> \in tokens' PROVE Good(z, v, w)'
      BY DEF TokensGood
    <3>1. CASE <<z, v, w>> \in tokens
      BY <3>1, GoodKept DEF Inv, Rest, TokensGood
    <3>2. CASE z = r /\ v = u /\ w = t
      BY <1>3, <3>2
    <3> QED BY <2>1, <3>1, <3>2
  <2> QED BY <1>1, <1>4, <2>4, <2>5, SessionKept DEF Rest
<1> QED BY <1>5, <1>6

LEMMA InvStep == Inv /\ [Next]_vars => Inv'
<1> SUFFICES ASSUME Inv, [Next]_vars PROVE Inv' OBVIOUS
<1>1. Typed' /\ Kept
  BY TypedStep, KeptStep DEF Inv
<1> USE <1>1
<1> SUFFICES Rest'
  BY DEF Inv
<1>2. ASSUME UNCHANGED <<tokens, issued>>,
             \A q \in Procs : req'[q] = req[q] \/ req'[q] = Idle,
             \A s \in Sessions : sessions[s].state # "none" \/ sessions'[s] = sessions[s],
             \A r \in Requests : authReqs'[r] = authReqs[r] \/ RowSound(r)'
      PROVE  Rest'
  BY <1>2, SessionKept, TrustKept, RowKept, TokensKept DEF Rest
<1> USE DEF store, trail
<1>3. CASE Tick
  BY <1>2, <1>3 DEF Tick
<1>4. ASSUME NEW p \in Procs, Login(p) PROVE Rest'
  BY <1>4, HandleLoginStep, HandleExistingSessionStep, CallbackStep, RecoverUserStep,
     CreateSessionStep, CompleteAuthRequestStep DEF Login
<1>5. ASSUME NEW p \in Procs, Exchange(p) PROVE Rest'
  BY <1>5, AuthRequestByCodeStep, IssueTokensStep DEF Exchange
<1>6. ASSUME NEW p \in Procs, Abort(p) PROVE Rest'
  BY <1>2, <1>6 DEF Abort, Finish, Inv, Typed, TypeOK
<1>7. CASE Environment
  <2>0. /\ authReqs \in [Requests -> AuthRequest] /\ sessions \in [Sessions -> Session]
        /\ issued \in [Requests -> Nat] /\ now \in Nat
    BY DEF Inv, Typed, TypeOK
  <2>1. ASSUME NEW r \in Requests, NEW c \in Channels, NEW m \in Modes, NEW a \in MaxAges,
               CreateAuthRequest(r, c, m, a)
        PROVE  Rest'
    <3>1. /\ authReqs'[r].created = now /\ authReqs'[r].done = FALSE /\ authReqs'[r].upstream = FALSE
          /\ \A z \in Requests : z # r => authReqs'[z] = authReqs[z]
          /\ UNCHANGED <<now, sessions, req, tokens, issued>>
      BY <2>0, <2>1 DEF CreateAuthRequest, NoAuthRequest
    <3>2. issued[r] = 0
      BY <2>1 DEF CreateAuthRequest, Inv, Rest, RowSound
    <3>3. RowSound(r)'
      BY <2>0, <3>1, <3>2 DEF RowSound
    <3> QED BY <1>2, <3>1, <3>3
  <2>2. ASSUME NEW r \in Requests, RedirectToIdP(r) PROVE Rest'
    <3>1. /\ authReqs'[r] = [authReqs[r] EXCEPT !.upstream = TRUE]
          /\ \A z \in Requests : z # r => authReqs'[z] = authReqs[z]
          /\ UNCHANGED <<now, sessions, req, tokens, issued, seen>>
          /\ authReqs[r].state # "none" /\ authReqs[r].mode # "silent"
      BY <2>0, <2>2 DEF RedirectToIdP, Loadable, Stored
    <3>2. RowSound(r) /\ authReqs[r] \in AuthRequest
      BY <2>0 DEF Inv, Rest
    <3>3. RowSound(r)'
      BY <3>1, <3>2 DEF RowSound, Good, AuthRequest
    <3> QED BY <1>2, <3>1, <3>3
  <2>3. ASSUME NEW r \in Requests, SaveAuthCode(r) PROVE Rest'
    <3>1. /\ authReqs'[r] = [authReqs[r] EXCEPT !.code = @ + 1]
          /\ \A z \in Requests : z # r => authReqs'[z] = authReqs[z]
          /\ UNCHANGED <<now, sessions, req, tokens, issued, seen>>
      BY <2>0, <2>3 DEF SaveAuthCode
    <3>2. RowSound(r) /\ authReqs[r] \in AuthRequest
      BY <2>0 DEF Inv, Rest
    <3>3. RowSound(r)'
      BY <3>1, <3>2 DEF RowSound, Good, AuthRequest
    <3> QED BY <1>2, <3>1, <3>3
  <2>4. ASSUME NEW r \in Requests, DeleteExpiredAuthRequest(r) PROVE Rest'
    <3>1. /\ Stored(r) /\ authReqs' = [authReqs EXCEPT ![r].state = "deleted"]
          /\ UNCHANGED <<now, sessions, req, tokens, issued, seen>>
      BY <2>4 DEF DeleteExpiredAuthRequest
    <3>2. issued'[r] = 0
      BY <3>1 DEF Inv, Rest, RowSound, Stored
    <3>3. RowSound(r)' /\ \A z \in Requests : z # r => authReqs'[z] = authReqs[z]
      BY <3>1, <3>2, RowDeleted
    <3> QED BY <1>2, <3>1, <3>3
  <2>5. ASSUME NEW u \in Users, TerminateSession(u) PROVE Rest'
    <3>1. UNCHANGED <<authReqs, req, tokens, issued>>
      BY <2>5 DEF TerminateSession
    <3>2. \A s \in Sessions : sessions[s].state # "none" \/ sessions'[s] = sessions[s]
      BY <2>5 DEF TerminateSession
    <3> QED BY <1>2, <3>1, <3>2
  <2>6. ASSUME NEW u \in Users, NEW st \in Statuses, SetUserStatus(u, st) PROVE Rest'
    BY <1>2, <2>6 DEF SetUserStatus
  <2>6a. ASSUME NEW u \in Users, RequestDeletion(u) PROVE Rest'
    BY <1>2, <2>6a DEF RequestDeletion
  <2>7. ASSUME NEW s \in Sessions, DeleteExpiredOrRevokedSession(s) PROVE Rest'
    BY <1>2, <2>0, <2>7 DEF DeleteExpiredOrRevokedSession
  <2> QED BY <1>7, <2>1, <2>2, <2>3, <2>4, <2>5, <2>6, <2>6a, <2>7 DEF Environment
<1>8. CASE UNCHANGED vars
  BY <1>2, <1>8 DEF vars
<1> QED BY <1>3, <1>4, <1>5, <1>6, <1>7, <1>8 DEF Next

LEMMA InvHolds == Spec => []Inv
BY InvInit, InvStep, PTL DEF Spec

----------------------------------------------------------------------------
(* However many codes are saved and exchanged in parallel, the DELETE that *)
(* must hit one row lets one exchange through.                             *)
THEOREM CodeIsRedeemedOnce == Spec => []IssuedOnce
<1>1. Inv => IssuedOnce
  BY DEF Inv, Rest, RowSound, IssuedOnce
<1> QED BY InvHolds, <1>1, PTL

(* auth_time is a time at which the subject signed in upstream.            *)
THEOREM HonestAuthTime == Spec => []AuthTimeIsHonest
<1>1. Inv => AuthTimeIsHonest
  BY DEF Inv, Rest, Typed, TypeOK, TokensGood, Good, AuthTimeIsHonest
<1> QED BY InvHolds, <1>1, PTL

(* prompt=login is answered by a sign-in after the request was made, even  *)
(* when a session and a callback complete it at the same time.             *)
THEOREM FreshInteraction == Spec => []InteractiveIsFresh
<1>1. Inv => InteractiveIsFresh
  BY DEF Inv, Rest, Typed, TypeOK, TokensGood, Good, InteractiveIsFresh
<1> QED BY InvHolds, <1>1, PTL

(* Tokens of a request with max_age rest on a sign-in that was less than a *)
(* second past max_age when the request was made.                          *)
THEOREM MaxAgeHonoured == Spec => []MaxAgeIsHonoured
<1>1. Inv => MaxAgeIsHonoured
  BY DEF Inv, Rest, Typed, TypeOK, TokensGood, Good, MaxAgeIsHonoured
<1> QED BY InvHolds, <1>1, PTL

----------------------------------------------------------------------------
LEMMA RecoveryStep == Inv /\ [Next]_vars => RecoveredByPeople
<1> SUFFICES ASSUME Inv, [Next]_vars, NEW u \in Users,
                    status[u] = "pending_deletion", status'[u] = "active"
             PROVE  SetUserStatus(u, "active") \/ BrowserRecovers(u)
  BY DEF RecoveredByPeople
<1> USE DEF store, trail
<1>0. status \in [Users -> Status]
  BY DEF Inv, Typed, TypeOK
<1>1. ASSUME NEW p \in Procs, Login(p) PROVE RecoverUser(p)
  BY <1>1
     DEF Login, HandleLogin, Callback, HandleExistingSession, CompleteAuthRequest, CreateSession
<1>2. ASSUME NEW p \in Procs, RecoverUser(p) PROVE BrowserRecovers(u)
  BY <1>0, <1>2 DEF RecoverUser, Inv, Rest, Trusted, BrowserRecovers
<1>3. ASSUME NEW p \in Procs, Exchange(p) \/ Abort(p) PROVE FALSE
  BY <1>3 DEF Exchange, AuthRequestByCode, IssueTokens, Abort
<1>4. CASE Environment
  <2>1. ASSUME NEW v \in Users, NEW st \in Statuses, SetUserStatus(v, st)
        PROVE  SetUserStatus(u, "active")
    <3>1. v = u /\ st = "active"
      BY <1>0, <2>1 DEF SetUserStatus
    <3> QED BY <2>1, <3>1
  <2>2. ASSUME NEW v \in Users, RequestDeletion(v) PROVE FALSE
    BY <1>0, <2>2 DEF RequestDeletion
  <2> QED BY <1>4, <2>1, <2>2 DEF Environment, CreateAuthRequest, RedirectToIdP, SaveAuthCode,
        DeleteExpiredAuthRequest, TerminateSession, DeleteExpiredOrRevokedSession
<1>5. CASE Tick \/ UNCHANGED vars
  BY <1>5 DEF Tick, vars
<1> QED BY <1>1, <1>2, <1>3, <1>4, <1>5 DEF Next

(* A pending deletion is cancelled only by the operator or by a browser    *)
(* login in which the user took part: never by prompt=none and never by    *)
(* the mcp channel.                                                        *)
THEOREM RecoveryIsInteractive == Spec => OnlyInteractionRecovers
<1>1. Spec => [][RecoveredByPeople]_vars
  BY InvHolds, RecoveryStep, PTL DEF Spec
<1> QED BY <1>1 DEF OnlyInteractionRecovers
=============================================================================
