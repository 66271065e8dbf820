---------------------------- MODULE AuthRequests ----------------------------
(***************************************************************************)
(* The authorization-code flow of authgate: auth requests, their           *)
(* completion by a reused session or by an upstream login (browser and mcp *)
(* channels), the recovery of an account that is pending deletion, and the *)
(* exchange of the code for tokens.                                        *)
(*                                                                         *)
(* Every HTTP request is a process.  The login handlers run one statement  *)
(* after the other without a transaction, so that each is a step of its    *)
(* own and works on what the earlier ones have read.                       *)
(***************************************************************************)
EXTENDS Integers, FiniteSets

CONSTANTS
  Requests,         \* auth requests that can ever be created
  Users,
  Sessions,         \* sessions that can ever be created
  Procs,            \* concurrent HTTP requests
  Nil,
  Second,           \* clock ticks in a second: max_age counts whole seconds
  RequestTTL,       \* lifetime of an auth request (ten minutes)
  SessionTTL,       \* SESSION_TTL
  RequestRetention, \* how long cleanup keeps an expired auth request (one hour)
  Channels,         \* login channels of the clients
  Modes,            \* prompt modes of the requests
  MaxAges,          \* max_age values of the requests; Null is "not requested"
  Statuses,         \* bound: the statuses an operator gives an account
  Deletions,        \* whether users ask for the deletion of their accounts
  MaxCodes,         \* bound: codes saved for one request
  MaxTime,          \* bound: the last clock value explored
  MayFail           \* whether a request may break off half way

Null == -1

ASSUME AuthRequestConstants ==
  /\ Nil \notin Requests /\ Nil \notin Users /\ Nil \notin Sessions
  /\ Second \in Nat \ {0}
  /\ RequestTTL \in Nat /\ SessionTTL \in Nat /\ RequestRetention \in Nat
  /\ Channels \subseteq {"browser", "mcp"}
  /\ Modes \subseteq {"default", "silent", "interactive"}
  /\ MaxAges \subseteq Nat \cup {Null}
  /\ Statuses \subseteq {"active", "disabled"}
  /\ MaxCodes \in Nat /\ MaxTime \in Nat
  /\ Deletions \in BOOLEAN /\ MayFail \in BOOLEAN

VARIABLES
  now,        \* s.clock.Now(), time.Now()
  authReqs,   \* table auth_requests
  sessions,   \* table sessions
  status,     \* users.status
  req,        \* control state and locals of each HTTP request
  tokens,     \* tokens issued: <<auth request, subject, auth time>>
  issued,     \* history: how often a code of the auth request was redeemed
  seen        \* history: <<user, time>> of an upstream login in progress

vars == <<now, authReqs, sessions, status, req, tokens, issued, seen>>
store == <<authReqs, sessions, status>>
trail == <<tokens, issued, seen>>

----------------------------------------------------------------------------
(* Types                                                                   *)

Time == Nat \cup {Null}

Status == {"active", "pending_deletion", "disabled"}

AuthRequest == [state    : {"none", "stored", "deleted"},
                channel  : {"browser", "mcp", Nil},  \* LoginChannel of its client
                mode     : {"default", "silent", "interactive", Nil},
                maxAge   : Time,
                created  : Time,
                expires  : Time,
                upstream : BOOLEAN,   \* a state cookie for it was handed out
                done     : BOOLEAN,
                subject  : Users \cup {Nil},
                authTime : Time,
                code     : Nat]       \* the code saved last, 0 for none

NoAuthRequest == [state |-> "none", channel |-> Nil, mode |-> Nil, maxAge |-> Null,
                  created |-> Null, expires |-> Null, upstream |-> FALSE,
                  done |-> FALSE, subject |-> Nil, authTime |-> Null, code |-> 0]

Session == [state   : {"none", "stored", "deleted"},
            user    : Users \cup {Nil},
            created : Time,
            revoked : BOOLEAN]

NoSession == [state |-> "none", user |-> Nil, created |-> Null, revoked |-> FALSE]

(***************************************************************************)
(* session    /login has loaded the auth request and the session's user    *)
(* recover    the session's account is pending deletion and is recovered   *)
(* complete   /login is about to complete the request                      *)
(* cbRecover, cbSession, cbComplete   the same for the upstream callback   *)
(* exchange   AuthRequestByCode has returned, tokens are about to be issued *)
(***************************************************************************)
PC == {"idle", "session", "recover", "complete", "cbRecover", "cbSession",
       "cbComplete", "exchange"}

HTTPRequest == [pc     : PC,
                ar     : Requests \cup {Nil},
                user   : Users \cup {Nil},
                sess   : Sessions \cup {Nil},
                status : Status \cup {Nil},  \* status of the user as it was read
                at     : Time,               \* auth time
                code   : Nat]

Idle == [pc |-> "idle", ar |-> Nil, user |-> Nil, sess |-> Nil, status |-> Nil,
         at |-> Null, code |-> 0]

TypeOK ==
  /\ now \in Nat
  /\ authReqs \in [Requests -> AuthRequest]
  /\ sessions \in [Sessions -> Session]
  /\ status \in [Users -> Status]
  /\ req \in [Procs -> HTTPRequest]
  /\ tokens \subseteq Requests \X Users \X Nat
  /\ issued \in [Requests -> Nat]
  /\ seen \subseteq Users \X Nat

----------------------------------------------------------------------------
(* A definition named X_Bug is X with one mistake in it; it belongs to no  *)
(* specification and shows that a property can fail.                       *)

Finish(p) == req' = [req EXCEPT ![p] = Idle]

Goto(p, pc) == req' = [req EXCEPT ![p].pc = pc]

Stored(r) == authReqs[r].state = "stored"

(* GetAuthRequestModel: present and not expired. *)
Loadable(r) == Stored(r) /\ now <= authReqs[r].expires

(* GetValidSessionUser, GetValidSessionCreatedAt *)
ValidSession(s) ==
  /\ sessions[s].state = "stored"
  /\ ~sessions[s].revoked
  /\ now < sessions[s].created + SessionTTL

(* The status x channel matrix; a deleted account is like a disabled one. *)
CheckAccess(st, channel) ==
  CASE st = "active" -> "allow"
    [] st = "pending_deletion" /\ channel = "browser" -> "recover"
    [] OTHER -> "deny"

(* Rounds the age down and the limit up. *)
TooOldForMaxAge_Bug(r, at) ==
  authReqs[r].maxAge # Null /\ (now - at) \div Second > authReqs[r].maxAge + 1

(* sessionTooOldForMaxAge: the age is cut down to whole seconds. *)
TooOldForMaxAge(r, at) ==
  authReqs[r].maxAge # Null /\ (now - at) \div Second > authReqs[r].maxAge

----------------------------------------------------------------------------
Init ==
  /\ now = 0
  /\ authReqs = [r \in Requests |-> NoAuthRequest]
  /\ sessions = [s \in Sessions |-> NoSession]
  /\ status = [u \in Users |-> "active"]
  /\ req = [p \in Procs |-> Idle]
  /\ tokens = {}
  /\ issued = [r \in Requests |-> 0]
  /\ seen = {}

Tick ==
  /\ now < MaxTime
  /\ now' = now + 1
  /\ UNCHANGED <<store, req, trail>>

(* CreateAuthRequest, once resource and PKCE have passed.  The provider     *)
(* derives max_age = 0 from prompt=login.                                   *)
CreateAuthRequest(r, channel, mode, maxAge) ==
  /\ authReqs[r].state = "none"
  /\ authReqs' = [authReqs EXCEPT ![r] =
       [NoAuthRequest EXCEPT !.state = "stored", !.channel = channel, !.mode = mode,
          !.maxAge = maxAge, !.created = now, !.expires = now + RequestTTL]]
  /\ UNCHANGED <<now, sessions, status, req, trail>>

----------------------------------------------------------------------------
(* GET /login and GET /mcp/login                                           *)

(* The answer is a redirect to the IdP: an interactive prompt, no usable    *)
(* session, or one too old for max_age; never under prompt=none.            *)
RedirectToIdP(r) ==
  /\ Loadable(r)
  /\ authReqs[r].mode # "silent"
  /\ ~authReqs[r].upstream
  /\ authReqs' = [authReqs EXCEPT ![r].upstream = TRUE]
  /\ UNCHANGED <<now, sessions, status, req, trail>>

(* prompt=login reuses a session, too. *)
HandleLogin_Bug(p, r, s) ==
  LET u == sessions[s].user IN
  /\ req[p].pc = "idle"
  /\ Loadable(r)
  /\ ValidSession(s)
  /\ status[u] # "disabled"
  /\ req' = [req EXCEPT ![p] = [Idle EXCEPT !.pc = "session", !.ar = r, !.sess = s,
                                            !.user = u, !.status = status[u]]]
  /\ UNCHANGED <<now, store, trail>>

(* loadLoginAuthRequest, loginPromptMode, GetValidSession *)
HandleLogin(p, r, s) ==
  LET u == sessions[s].user IN
  /\ req[p].pc = "idle"
  /\ Loadable(r)
  /\ authReqs[r].mode # "interactive"
  /\ ValidSession(s)
  /\ status[u] # "disabled"
  /\ req' = [req EXCEPT ![p] = [Idle EXCEPT !.pc = "session", !.ar = r, !.sess = s,
                                            !.user = u, !.status = status[u]]]
  /\ UNCHANGED <<now, store, trail>>

(* Recovers the account of a prompt=none request. *)
HandleExistingSession_Bug(p) ==
  LET r == req[p].ar
      s == req[p].sess
      access == CheckAccess(req[p].status, authReqs[r].channel)
      next == IF access = "recover" THEN "recover" ELSE "complete"
  IN
  /\ req[p].pc = "session"
  /\ IF ValidSession(s) /\ ~TooOldForMaxAge(r, sessions[s].created) /\ access # "deny"
     THEN req' = [req EXCEPT ![p].pc = next, ![p].at = sessions[s].created]
     ELSE Finish(p)
  /\ UNCHANGED <<now, store, trail>>

(* SessionAuthTime, max_age, then handleExistingSession: CheckAccess on the *)
(* status read before.  The channel and policy checks may refuse: Abort.    *)
HandleExistingSession(p) ==
  LET r == req[p].ar
      s == req[p].sess
      access == CheckAccess(req[p].status, authReqs[r].channel)
      next == IF access = "recover" THEN "recover" ELSE "complete"
  IN
  /\ req[p].pc = "session"
  /\ IF /\ ValidSession(s)
        /\ ~TooOldForMaxAge(r, sessions[s].created)
        /\ access # "deny"
        /\ access = "recover" => authReqs[r].mode # "silent"
     THEN req' = [req EXCEPT ![p].pc = next, ![p].at = sessions[s].created]
     ELSE Finish(p)
  /\ UNCHANGED <<now, store, trail>>

----------------------------------------------------------------------------
(* The upstream callback: CompleteBrowserLogin, CompleteMCPLogin           *)

(* Only a browser that was sent to the IdP for this auth request holds the  *)
(* state cookie.  The account exists; signup is modelled with the accounts. *)
Callback(p, r, u) ==
  LET access == CheckAccess(status[u], authReqs[r].channel) IN
  /\ req[p].pc = "idle"
  /\ Loadable(r)
  /\ authReqs[r].upstream
  /\ access # "deny"
  /\ req' = [req EXCEPT ![p] = [Idle EXCEPT
       !.pc = IF access = "recover" THEN "cbRecover" ELSE "cbSession",
       !.ar = r, !.user = u]]
  /\ UNCHANGED <<now, store, trail>>

(* UPDATE ... WHERE status = 'pending_deletion'; the callback reads the     *)
(* user again without looking at its status.                                *)
RecoverUser(p) ==
  LET u == req[p].user IN
  /\ req[p].pc \in {"recover", "cbRecover"}
  /\ status' = IF status[u] = "pending_deletion" THEN [status EXCEPT ![u] = "active"]
                                                 ELSE status
  /\ Goto(p, IF req[p].pc = "recover" THEN "complete" ELSE "cbSession")
  /\ UNCHANGED <<now, authReqs, sessions, trail>>

CreateSession(p, s) ==
  /\ req[p].pc = "cbSession"
  /\ sessions[s].state = "none"
  /\ sessions' = [sessions EXCEPT ![s] = [state |-> "stored", user |-> req[p].user,
                                          created |-> now, revoked |-> FALSE]]
  /\ seen' = seen \cup {<<req[p].user, now>>}
  /\ Goto(p, "cbComplete")
  /\ UNCHANGED <<now, authReqs, status, tokens, issued>>

(* Takes the current time for a reused session, too. *)
AuthTime_Bug(p) == now

(* A fresh login passes the zero time, which stands for the current time. *)
AuthTime(p) == IF req[p].pc = "cbComplete" THEN now ELSE req[p].at

(* Does not write auth_time. *)
CompleteAuthRequest_Bug(p) ==
  LET r == req[p].ar IN
  /\ req[p].pc \in {"complete", "cbComplete"}
  /\ authReqs' = IF Stored(r) /\ authReqs[r].expires > AuthTime(p)
                 THEN [authReqs EXCEPT ![r].done = TRUE, ![r].subject = req[p].user]
                 ELSE authReqs
  /\ seen' = IF req[p].pc = "cbComplete" THEN seen \cup {<<req[p].user, now>>} ELSE seen
  /\ Finish(p)
  /\ UNCHANGED <<now, sessions, status, tokens, issued>>

(* UPDATE ... SET subject, auth_time, done WHERE id AND expires_at > auth_time: *)
(* whatever the request's state, and whoever completed it before.               *)
CompleteAuthRequest(p) ==
  LET r == req[p].ar IN
  /\ req[p].pc \in {"complete", "cbComplete"}
  /\ authReqs' = IF Stored(r) /\ authReqs[r].expires > AuthTime(p)
                 THEN [authReqs EXCEPT ![r].done = TRUE, ![r].subject = req[p].user,
                                       ![r].authTime = AuthTime(p)]
                 ELSE authReqs
  /\ seen' = IF req[p].pc = "cbComplete" THEN seen \cup {<<req[p].user, now>>} ELSE seen
  /\ Finish(p)
  /\ UNCHANGED <<now, sessions, status, tokens, issued>>

----------------------------------------------------------------------------
(* /authorize/callback and /oauth/token                                    *)

(* The provider loads the request, insists that it is done, and saves a     *)
(* new code over the one before.                                            *)
SaveAuthCode(r) ==
  /\ Loadable(r)
  /\ authReqs[r].done
  /\ authReqs[r].code < MaxCodes
  /\ authReqs' = [authReqs EXCEPT ![r].code = @ + 1]
  /\ UNCHANGED <<now, sessions, status, req, trail>>

(* By the code saved last; a refusal changes nothing. *)
AuthRequestByCode(p, r, k) ==
  /\ req[p].pc = "idle"
  /\ Loadable(r)
  /\ authReqs[r].code = k
  /\ status[authReqs[r].subject] = "active"
  /\ req' = [req EXCEPT ![p] = [Idle EXCEPT !.pc = "exchange", !.ar = r, !.code = k,
               !.user = authReqs[r].subject, !.at = authReqs[r].authTime]]
  /\ UNCHANGED <<now, store, trail>>

(* The number of rows the DELETE hit is not checked. *)
IssueTokens_Bug(p) ==
  LET r == req[p].ar IN
  /\ req[p].pc = "exchange"
  /\ authReqs' = [authReqs EXCEPT ![r].state = "deleted"]
  /\ tokens' = tokens \cup {<<r, req[p].user, req[p].at>>}
  /\ issued' = [issued EXCEPT ![r] = @ + 1]
  /\ Finish(p)
  /\ UNCHANGED <<now, sessions, status, seen>>

(* CreateAccessToken, CreateAccessAndRefreshTokens: consumeAuthCode must    *)
(* delete exactly one row, in the transaction that stores the grant.  The   *)
(* provider's DeleteAuthRequest afterwards finds nothing to delete.         *)
IssueTokens(p) ==
  LET r == req[p].ar IN
  /\ req[p].pc = "exchange"
  /\ IF /\ Stored(r)
        /\ authReqs[r].code = req[p].code
        /\ authReqs[r].done
        /\ now < authReqs[r].expires
     THEN /\ authReqs' = [authReqs EXCEPT ![r].state = "deleted"]
          /\ tokens' = tokens \cup {<<r, req[p].user, req[p].at>>}
          /\ issued' = [issued EXCEPT ![r] = @ + 1]
     ELSE UNCHANGED <<authReqs, tokens, issued>>
  /\ Finish(p)
  /\ UNCHANGED <<now, sessions, status, seen>>

----------------------------------------------------------------------------
(* Logout, account changes, cleanup and failures                           *)

TerminateSession(u) ==
  /\ \E s \in Sessions : sessions[s].user = u /\ ValidSession(s)
  /\ sessions' = [s \in Sessions |-> IF sessions[s].state = "stored" /\ sessions[s].user = u
                                     THEN [sessions[s] EXCEPT !.revoked = TRUE]
                                     ELSE sessions[s]]
  /\ UNCHANGED <<now, authReqs, status, req, trail>>

(* UPDATE ... WHERE status = 'active' *)
RequestDeletion(u) ==
  /\ Deletions
  /\ status[u] = "active"
  /\ status' = [status EXCEPT ![u] = "pending_deletion"]
  /\ UNCHANGED <<now, authReqs, sessions, req, trail>>

(* DisableUser, and the operator opening an account: no condition. *)
SetUserStatus(u, st) ==
  /\ status' = [status EXCEPT ![u] = st]
  /\ UNCHANGED <<now, authReqs, sessions, req, trail>>

DeleteExpiredAuthRequest(r) ==
  /\ Stored(r)
  /\ authReqs[r].expires < now - RequestRetention
  /\ authReqs' = [authReqs EXCEPT ![r].state = "deleted"]
  /\ UNCHANGED <<now, sessions, status, req, trail>>

DeleteExpiredOrRevokedSession(s) ==
  /\ sessions[s].state = "stored"
  /\ sessions[s].revoked \/ sessions[s].created + SessionTTL < now
  /\ sessions' = [sessions EXCEPT ![s].state = "deleted"]
  /\ UNCHANGED <<now, authReqs, status, req, trail>>

(* A crash, a cancelled request, a database error, a refusal by channel or  *)
(* access policy.                                                           *)
Abort(p) ==
  /\ MayFail
  /\ req[p].pc # "idle"
  /\ Finish(p)
  /\ UNCHANGED <<now, store, trail>>

Login(p) ==
  \/ \E r \in Requests, s \in Sessions : HandleLogin(p, r, s)
  \/ \E r \in Requests, u \in Users : Callback(p, r, u)
  \/ HandleExistingSession(p) \/ RecoverUser(p) \/ CompleteAuthRequest(p)
  \/ \E s \in Sessions : CreateSession(p, s)

Exchange(p) ==
  \/ \E r \in Requests, k \in 1..MaxCodes : AuthRequestByCode(p, r, k)
  \/ IssueTokens(p)

Environment ==
  \/ \E r \in Requests : \/ \E c \in Channels, m \in Modes, a \in MaxAges :
                              CreateAuthRequest(r, c, m, a)
                         \/ RedirectToIdP(r)
                         \/ SaveAuthCode(r)
                         \/ DeleteExpiredAuthRequest(r)
  \/ \E u \in Users : \/ TerminateSession(u)
                      \/ RequestDeletion(u)
                      \/ \E st \in Statuses : SetUserStatus(u, st)
  \/ \E s \in Sessions : DeleteExpiredOrRevokedSession(s)

Next ==
  \/ Tick
  \/ \E p \in Procs : Login(p) \/ Exchange(p) \/ Abort(p)
  \/ Environment

Spec == Init /\ [][Next]_vars

----------------------------------------------------------------------------
(* Properties                                                              *)

(* However often codes are saved for an auth request and exchanged in      *)
(* parallel, tokens are issued for it at most once (consumeAuthCode).      *)
IssuedOnce == \A r \in Requests : issued[r] <= 1

(* auth_time is a time at which the subject really signed in upstream,     *)
(* whoever else completed the auth request in between.                     *)
AuthTimeIsHonest ==
  \A r \in Requests, u \in Users, t \in 0..now :
    <<r, u, t>> \in tokens => <<u, t>> \in seen

(* Tokens of a prompt=login request rest on a sign-in after the request    *)
(* was made.                                                               *)
InteractiveIsFresh ==
  \A r \in Requests, u \in Users, t \in 0..now :
    <<r, u, t>> \in tokens /\ authReqs[r].mode = "interactive"
      => t >= authReqs[r].created

(* A request with max_age never ends in tokens whose sign-in was, when    *)
(* the request was made, a whole second or more past max_age: the session  *)
(* is read again and aged again before it answers (SessionAuthTime,        *)
(* sessionTooOldForMaxAge).                                                *)
MaxAgeIsHonoured ==
  \A r \in Requests, u \in Users, t \in 0..now :
    <<r, u, t>> \in tokens /\ authReqs[r].maxAge # Null
      => authReqs[r].created - t < (authReqs[r].maxAge + 1) * Second

(* A browser login in which the user took part is about to recover u. *)
BrowserRecovers(u) ==
  \E p \in Procs : /\ req[p].pc \in {"recover", "cbRecover"}
                   /\ req[p].user = u
                   /\ authReqs[req[p].ar].channel = "browser"
                   /\ authReqs[req[p].ar].mode # "silent"

RecoveredByPeople ==
  \A u \in Users :
    status[u] = "pending_deletion" /\ status'[u] = "active" =>
      SetUserStatus(u, "active") \/ BrowserRecovers(u)

(* Nobody's deletion is cancelled by a prompt=none check or by the mcp     *)
(* channel: only by the operator or by a browser login the user took part  *)
(* in.                                                                     *)
OnlyInteractionRecovers == [][RecoveredByPeople]_vars

=============================================================================
