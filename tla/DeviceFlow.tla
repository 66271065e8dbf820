----------------------------- MODULE DeviceFlow -----------------------------
(***************************************************************************)
(* The device authorization flow of authgate (RFC 8628): a CLI obtains a   *)
(* device code and polls for it, a user approves or denies it in a browser *)
(* session, and the poll that finds it approved consumes it and issues     *)
(* tokens.                                                                 *)
(*                                                                         *)
(* Every HTTP request is a process.  A browser request runs several        *)
(* statements without a transaction around them, so that each is a step of *)
(* its own; a poll runs one transaction that holds the row lock of the     *)
(* device code from its first statement to its commit.                     *)
(***************************************************************************)
EXTENDS Integers, FiniteSets

CONSTANTS
  Codes,            \* device codes that can ever be stored
  Users,
  Sessions,         \* sessions that can ever be created
  Procs,            \* concurrent requests
  Nil,
  CodeTTL,          \* lifetime of a device code (five minutes)
  SessionTTL,       \* SESSION_TTL
  PollInterval,     \* devicePollInterval
  CodeRetention,    \* how long cleanup keeps an expired device code (one hour)
  Closable,         \* bound: the users whose account status changes
  Policies,         \* sets of users the client's access policy may admit
  MaxTime,          \* bound: the last clock value explored
  MayFail           \* whether a request may break off half way

ASSUME DeviceConstants ==
  /\ Nil \notin Codes /\ Nil \notin Users /\ Nil \notin Sessions
  /\ CodeTTL \in Nat /\ SessionTTL \in Nat /\ PollInterval \in Nat
  /\ CodeRetention \in Nat /\ MaxTime \in Nat
  /\ Closable \subseteq Users
  /\ Policies \subseteq SUBSET Users /\ Policies # {}
  /\ MayFail \in BOOLEAN

VARIABLES
  now,          \* s.clock.Now()
  codes,        \* table device_codes
  sessions,     \* table sessions
  status,       \* users.status
  admitted,     \* the users the client's access policy admits
  req,          \* control state and locals of each request
  audited,      \* audit_log: <<event, code, user>>
  minted,       \* how often tokens were issued for a code
  waited,       \* history: when a poll was last told authorization_pending
  approvedAt    \* history: when a code was approved

table == <<codes, sessions>>
users == <<status, admitted>>
trail == <<audited, minted, waited, approvedAt>>
vars == <<now, codes, sessions, status, admitted, req, audited, minted, waited,
          approvedAt>>

----------------------------------------------------------------------------
(* Types                                                                   *)

Null == -1

Time == Nat \cup {Null}

Code == [state   : {"none", "pending", "approved", "denied", "consumed", "deleted"},
         subject : Users \cup {Nil},
         expires : Time,
         polled  : Time]

NoCode == [state |-> "none", subject |-> Nil, expires |-> Null, polled |-> Null]

Session == [state : {"none", "stored", "deleted"},
            user  : Users \cup {Nil},
            created : Time,
            revoked : BOOLEAN]

NoSession == [state |-> "none", user |-> Nil, created |-> Null, revoked |-> FALSE]

(***************************************************************************)
(* login      the callback has passed its checks, the session is missing   *)
(* consent    approve was posted: session and account are checked          *)
(* bind       policy checked, auth time read, about to approve             *)
(* accepted   approved; the audit row is missing                           *)
(* refusal    deny was posted: session and account are checked             *)
(* drop       the code was pending when read, about to deny                *)
(* dropped    the deny statement has run; the audit row is missing         *)
(* poll       a poll holds the row lock and has read row and clock         *)
(* consume    the same, and the subject has been checked                   *)
(* mint       the code is consumed; tokens are about to be issued          *)
(***************************************************************************)
PC == {"idle", "login", "consent", "bind", "accepted", "refusal", "drop",
       "dropped", "poll", "consume", "mint"}

Request == [pc   : PC,
            code : Codes \cup {Nil},
            user : Users \cup {Nil},
            sess : Sessions \cup {Nil},
            at   : Time,     \* clock reading of a poll, auth time of an approval
            open : BOOLEAN]  \* history: the subject was entitled during the poll

Idle == [pc |-> "idle", code |-> Nil, user |-> Nil, sess |-> Nil, at |-> Null,
         open |-> FALSE]

Event == {"auth.device_approved", "auth.device_denied"} \X Codes \X Users

TypeOK ==
  /\ now \in Nat
  /\ codes \in [Codes -> Code]
  /\ sessions \in [Sessions -> Session]
  /\ status \in [Users -> {"active", "pending_deletion", "disabled", "deleted"}]
  /\ admitted \subseteq Users
  /\ req \in [Procs -> Request]
  /\ audited \subseteq Event
  /\ minted \in [Codes -> Nat]
  /\ waited \in [Codes -> Time]
  /\ approvedAt \in [Codes -> Time]

----------------------------------------------------------------------------
(* A definition named X_Bug is X with one mistake in it; it belongs to no  *)
(* specification and shows that a property can fail.                       *)

Stored(c) == codes[c].state \notin {"none", "deleted"}

(* SELECT ... FOR UPDATE of a poll; the UPDATEs of a browser request wait. *)
CodeFree(c) == \A q \in Procs : req[q].pc \in {"poll", "consume"} => req[q].code # c

(* GetValidSession, SessionAuthTime *)
ValidSession(s) ==
  /\ sessions[s].state = "stored"
  /\ ~sessions[s].revoked
  /\ now < sessions[s].created + SessionTTL

(* CheckAccess(status, "device") = AccessAllow, and the checks of           *)
(* GetValidSession and stateChecker: nothing but an active account passes.  *)
Active(u) == status[u] = "active"

(* What a poll asks of the subject of an approved code: enforceStaticClientAccess *)
(* on top of stateChecker.                                                        *)
Entitled(u) == Active(u) /\ u \in admitted

Finish(p) == req' = [req EXCEPT ![p] = Idle]

Goto(p, pc) == req' = [req EXCEPT ![p].pc = pc]

----------------------------------------------------------------------------
Init ==
  /\ now = 0
  /\ codes = [c \in Codes |-> NoCode]
  /\ sessions = [s \in Sessions |-> NoSession]
  /\ status = [u \in Users |-> "active"]
  /\ admitted \in Policies
  /\ req = [p \in Procs |-> Idle]
  /\ audited = {}
  /\ minted = [c \in Codes |-> 0]
  /\ waited = [c \in Codes |-> Null]
  /\ approvedAt = [c \in Codes |-> Null]

Tick ==
  /\ now < MaxTime
  /\ now' = now + 1
  /\ UNCHANGED <<table, users, req, trail>>

(* InsertDeviceCode *)
StoreDeviceAuthorization(c) ==
  /\ codes[c].state = "none"
  /\ codes' = [codes EXCEPT ![c] = [NoCode EXCEPT !.state = "pending",
                                                  !.expires = now + CodeTTL]]
  /\ UNCHANGED <<now, sessions, users, req, trail>>

----------------------------------------------------------------------------
(* The browser: sign in, approve, deny, sign out                           *)

(* CompleteDeviceLogin up to its last check.  A client that is not found is *)
(* left to the approval.                                                    *)
CallbackCheck(p, c, u, found) ==
  /\ req[p].pc = "idle"
  /\ codes[c].state = "pending"
  /\ now <= codes[c].expires
  /\ Active(u)
  /\ found => u \in admitted
  /\ req' = [req EXCEPT ![p] = [Idle EXCEPT !.pc = "login", !.user = u]]
  /\ UNCHANGED <<now, table, users, trail>>

CreateSession(p, s) ==
  /\ req[p].pc = "login"
  /\ sessions[s].state = "none"
  /\ sessions' = [sessions EXCEPT ![s] = [state |-> "stored", user |-> req[p].user,
                                          created |-> now, revoked |-> FALSE]]
  /\ Finish(p)
  /\ UNCHANGED <<now, codes, users, trail>>

(* HandleDeviceApprove: session and account, then the posted action. *)
HandleDeviceApprove(p, c, s, action) ==
  /\ req[p].pc = "idle"
  /\ Stored(c)
  /\ ValidSession(s)
  /\ Active(sessions[s].user)
  /\ req' = [req EXCEPT ![p] = [Idle EXCEPT !.pc = action, !.code = c, !.sess = s,
                                            !.user = sessions[s].user]]
  /\ UNCHANGED <<now, table, users, trail>>

(* approveDeviceCode up to SessionAuthTime; a refusal changes nothing. *)
ApproveCheck(p, found) ==
  /\ req[p].pc = "consent"
  /\ IF /\ found
        /\ Stored(req[p].code) /\ req[p].user \in admitted /\ ValidSession(req[p].sess)
     THEN req' = [req EXCEPT ![p].pc = "bind", ![p].at = sessions[req[p].sess].created]
     ELSE Finish(p)
  /\ UNCHANGED <<now, table, users, trail>>

(* No AND state = 'pending'. *)
ApproveDeviceCode_Bug(p) ==
  LET c == req[p].code IN
  /\ req[p].pc = "bind"
  /\ CodeFree(c)
  /\ IF Stored(c) /\ codes[c].expires > req[p].at
     THEN /\ codes' = [codes EXCEPT ![c].state = "approved", ![c].subject = req[p].user]
          /\ approvedAt' = [approvedAt EXCEPT ![c] = now]
          /\ Goto(p, "accepted")
     ELSE /\ Finish(p)
          /\ UNCHANGED <<codes, approvedAt>>
  /\ UNCHANGED <<now, sessions, users, audited, minted, waited>>

(* Does not look at the number of rows the UPDATE hit. *)
ApproveDeviceCodeRows_Bug(p) ==
  LET c == req[p].code IN
  /\ req[p].pc = "bind"
  /\ CodeFree(c)
  /\ IF codes[c].state = "pending" /\ codes[c].expires > req[p].at
     THEN /\ codes' = [codes EXCEPT ![c].state = "approved", ![c].subject = req[p].user]
          /\ approvedAt' = [approvedAt EXCEPT ![c] = now]
     ELSE UNCHANGED <<codes, approvedAt>>
  /\ Goto(p, "accepted")
  /\ UNCHANGED <<now, sessions, users, audited, minted, waited>>

(* UPDATE ... WHERE state = 'pending' AND expires_at > auth_time; no row hit *)
(* is an error.  The auth time is the session's, not the current time.       *)
ApproveDeviceCode(p) ==
  LET c == req[p].code IN
  /\ req[p].pc = "bind"
  /\ CodeFree(c)
  /\ IF codes[c].state = "pending" /\ codes[c].expires > req[p].at
     THEN /\ codes' = [codes EXCEPT ![c].state = "approved", ![c].subject = req[p].user]
          /\ approvedAt' = [approvedAt EXCEPT ![c] = now]
          /\ Goto(p, "accepted")
     ELSE /\ Finish(p)
          /\ UNCHANGED <<codes, approvedAt>>
  /\ UNCHANGED <<now, sessions, users, audited, minted, waited>>

Audit(p, event) ==
  /\ audited' = audited \cup {<<event, req[p].code, req[p].user>>}
  /\ Finish(p)
  /\ UNCHANGED <<now, table, users, minted, waited, approvedAt>>

AuditApproved(p) == req[p].pc = "accepted" /\ Audit(p, "auth.device_approved")

(* denyDeviceCode: a code that is not pending is left alone, not audited. *)
DenyCheck(p) ==
  /\ req[p].pc = "refusal"
  /\ IF codes[req[p].code].state = "pending" THEN Goto(p, "drop") ELSE Finish(p)
  /\ UNCHANGED <<now, table, users, trail>>

(* A state the table does not know. *)
DenyDeviceCode_Bug(p) ==
  LET c == req[p].code IN
  /\ req[p].pc = "drop"
  /\ CodeFree(c)
  /\ codes' = IF codes[c].state = "pending" THEN [codes EXCEPT ![c].state = "rejected"]
                                            ELSE codes
  /\ Goto(p, "dropped")
  /\ UNCHANGED <<now, sessions, users, trail>>

(* UPDATE ... WHERE state = 'pending', :exec *)
DenyDeviceCode(p) ==
  LET c == req[p].code IN
  /\ req[p].pc = "drop"
  /\ CodeFree(c)
  /\ codes' = IF codes[c].state = "pending" THEN [codes EXCEPT ![c].state = "denied"]
                                            ELSE codes
  /\ Goto(p, "dropped")
  /\ UNCHANGED <<now, sessions, users, trail>>

AuditDenied(p) == req[p].pc = "dropped" /\ Audit(p, "auth.device_denied")

(* Logout revokes every session of the user. *)
TerminateSession(u) ==
  /\ \E s \in Sessions : sessions[s].user = u /\ ValidSession(s)
  /\ sessions' = [s \in Sessions |-> IF sessions[s].state = "stored" /\ sessions[s].user = u
                                     THEN [sessions[s] EXCEPT !.revoked = TRUE]
                                     ELSE sessions[s]]
  /\ UNCHANGED <<now, codes, users, req, trail>>

----------------------------------------------------------------------------
(* The device: GetDeviceAuthorizatonState, then token issuance             *)

(* loadDeviceAuthorizationForUpdate and the clock reading *)
PollLoad(p, c) ==
  /\ req[p].pc = "idle"
  /\ Stored(c)
  /\ CodeFree(c)
  /\ req' = [req EXCEPT ![p] = [Idle EXCEPT !.pc = "poll", !.code = c, !.at = now,
                            !.open = codes[c].state = "approved" /\ Entitled(codes[c].subject)]]
  /\ UNCHANGED <<now, table, users, trail>>

(* Off by one. *)
TooSoon_Bug(c, at) ==
  codes[c].polled # Null /\ at - codes[c].polled < PollInterval - 1

TooSoon(c, at) ==
  codes[c].polled # Null /\ at - codes[c].polled < PollInterval

(* Throttles an approved code too. *)
Throttled_Bug(c, at) == codes[c].state \in {"pending", "approved"} /\ TooSoon(c, at)

Throttled(c, at) == codes[c].state = "pending" /\ TooSoon(c, at)

PollSlowDown(p) ==
  LET c == req[p].code IN
  /\ req[p].pc = "poll"
  /\ Throttled(c, req[p].at)
  /\ codes' = [codes EXCEPT ![c].polled = req[p].at]
  /\ Finish(p)
  /\ UNCHANGED <<now, sessions, users, trail>>

(* The approved code's subject is trusted as it was approved. *)
PollCheckSubject_Bug(p) ==
  LET c == req[p].code IN
  /\ req[p].pc = "poll"
  /\ codes[c].state = "approved"
  /\ ~Throttled(c, req[p].at)
  /\ Goto(p, "consume")
  /\ UNCHANGED <<now, table, users, trail>>

(* The subject's status and the access policy once more; a refusal rolls    *)
(* back, so that last_polled_at stays and the code stays approved.          *)
PollCheckSubject(p) ==
  LET c == req[p].code
      u == codes[c].subject IN
  /\ req[p].pc = "poll"
  /\ codes[c].state = "approved"
  /\ ~Throttled(c, req[p].at)
  /\ IF Entitled(u) THEN Goto(p, "consume") ELSE Finish(p)
  /\ UNCHANGED <<now, table, users, trail>>

(* No expiry check before approved -> consumed. *)
Resolve_Bug(p) ==
  LET c == req[p].code
      polled == IF codes[c].state \in {"denied", "consumed"} THEN codes[c].polled
                                                             ELSE req[p].at
  IN
  /\ IF codes[c].state = "approved"
     THEN /\ codes' = [codes EXCEPT ![c].state = "consumed", ![c].polled = polled]
          /\ Goto(p, "mint")
     ELSE /\ codes' = [codes EXCEPT ![c].polled = polled]
          /\ Finish(p)
  /\ waited' = IF codes[c].state = "pending" /\ req[p].at <= codes[c].expires
               THEN [waited EXCEPT ![c] = req[p].at] ELSE waited

(* resolveDeviceAuthorizationState and the commit.  The answers are         *)
(* expired, denied, tokens, already consumed and authorization_pending.     *)
Resolve(p) ==
  LET c == req[p].code
      expired == req[p].at > codes[c].expires
      polled == IF codes[c].state \in {"denied", "consumed"} THEN codes[c].polled
                                                             ELSE req[p].at
  IN
  /\ IF codes[c].state = "approved" /\ ~expired
     THEN /\ codes' = [codes EXCEPT ![c].state = "consumed", ![c].polled = polled]
          /\ Goto(p, "mint")
     ELSE /\ codes' = [codes EXCEPT ![c].polled = polled]
          /\ Finish(p)
  /\ waited' = IF codes[c].state = "pending" /\ ~expired
               THEN [waited EXCEPT ![c] = req[p].at] ELSE waited

PollAnswer(p) ==
  LET c == req[p].code IN
  /\ req[p].pc = "poll"
  /\ codes[c].state # "approved"
  /\ ~Throttled(c, req[p].at)
  /\ Resolve(p)
  /\ UNCHANGED <<now, sessions, users, audited, minted, approvedAt>>

(* The commit is forgotten: the code stays approved. *)
PollConsume_Bug(p) ==
  /\ req[p].pc = "consume"
  /\ req[p].at <= codes[req[p].code].expires
  /\ Goto(p, "mint")
  /\ UNCHANGED <<now, table, users, trail>>

PollConsume(p) ==
  /\ req[p].pc = "consume"
  /\ Resolve(p)
  /\ UNCHANGED <<now, sessions, users, audited, minted, approvedAt>>

(* CreateAccessAndRefreshTokens, in a transaction of its own *)
IssueTokens(p) ==
  /\ req[p].pc = "mint"
  /\ minted' = [minted EXCEPT ![req[p].code] = @ + 1]
  /\ Finish(p)
  /\ UNCHANGED <<now, table, users, audited, waited, approvedAt>>

----------------------------------------------------------------------------
(* Accounts, configuration, cleanup and failures                           *)

(* History: the polls whose subject the new state entitles. *)
NoteEntitled ==
  req' = [p \in Procs |->
    LET c == req[p].code IN
    IF /\ req[p].pc = "poll" /\ codes[c].state = "approved"
       /\ status'[codes[c].subject] = "active" /\ codes[c].subject \in admitted'
    THEN [req[p] EXCEPT !.open = TRUE] ELSE req[p]]

(* RequestDeletion, RecoverUser, DisableUser, SetUserStatus, DeleteUser:   *)
(* the status another part of the system gives the account.                *)
SetUserStatus(u, s) ==
  /\ status' = [status EXCEPT ![u] = s]
  /\ UNCHANGED <<now, table, admitted, trail>>
  /\ NoteEntitled

(* The access policy of the static client, changed by a redeployment. *)
ChangePolicy(A) ==
  /\ admitted' = A
  /\ UNCHANGED <<now, table, status, trail>>
  /\ NoteEntitled

DeleteExpiredDeviceCode(c) ==
  /\ Stored(c)
  /\ CodeFree(c)
  /\ codes[c].expires < now - CodeRetention
  /\ codes' = [codes EXCEPT ![c].state = "deleted"]
  /\ UNCHANGED <<now, sessions, users, req, trail>>

DeleteExpiredOrRevokedSession(s) ==
  /\ sessions[s].state = "stored"
  /\ sessions[s].revoked \/ sessions[s].created + SessionTTL < now
  /\ sessions' = [sessions EXCEPT ![s].state = "deleted"]
  /\ UNCHANGED <<now, codes, users, req, trail>>

(* A crash, a cancelled request or a database error. *)
Abort(p) ==
  /\ MayFail
  /\ req[p].pc # "idle"
  /\ Finish(p)
  /\ UNCHANGED <<now, table, users, trail>>

Browser(p) ==
  \/ \E c \in Codes, u \in Users, found \in BOOLEAN : CallbackCheck(p, c, u, found)
  \/ \E s \in Sessions : CreateSession(p, s)
  \/ \E c \in Codes, s \in Sessions, a \in {"consent", "refusal"} :
       HandleDeviceApprove(p, c, s, a)
  \/ \E found \in BOOLEAN : ApproveCheck(p, found)
  \/ ApproveDeviceCode(p) \/ AuditApproved(p)
  \/ DenyCheck(p) \/ DenyDeviceCode(p) \/ AuditDenied(p)

Poll(p) ==
  \/ \E c \in Codes : PollLoad(p, c)
  \/ PollSlowDown(p) \/ PollCheckSubject(p) \/ PollAnswer(p) \/ PollConsume(p)
  \/ IssueTokens(p)

Environment ==
  \/ \E u \in Users : TerminateSession(u)
  \/ \E u \in Closable, s \in {"active", "disabled"} : SetUserStatus(u, s)
  \/ \E A \in Policies : ChangePolicy(A)
  \/ \E s \in Sessions : DeleteExpiredOrRevokedSession(s)
  \/ \E c \in Codes : StoreDeviceAuthorization(c) \/ DeleteExpiredDeviceCode(c)

Next ==
  \/ Tick
  \/ \E p \in Procs : Browser(p) \/ Poll(p) \/ Abort(p)
  \/ Environment

Spec == Init /\ [][Next]_vars

(***************************************************************************)
(* Fairness: a handler that can run runs on, and the device keeps polling: *)
(* a poll waits for the row lock, which Postgres grants in queue order.    *)
(***************************************************************************)
Progress(p) ==
  \/ \E s \in Sessions : CreateSession(p, s)
  \/ \E found \in BOOLEAN : ApproveCheck(p, found)
  \/ AuditApproved(p) \/ DenyCheck(p) \/ AuditDenied(p)
  \/ PollSlowDown(p) \/ PollCheckSubject(p) \/ PollAnswer(p) \/ PollConsume(p)
  \/ IssueTokens(p)

Fairness ==
  /\ \A p \in Procs : /\ WF_vars(Progress(p))
                      /\ SF_vars(ApproveDeviceCode(p))
                      /\ SF_vars(DenyDeviceCode(p))
  /\ \A c \in Codes : SF_vars(\E p \in Procs : PollLoad(p, c))

FairSpec == Spec /\ Fairness

----------------------------------------------------------------------------
(* Properties                                                              *)

(* However many polls race for an approved code, and whatever breaks off   *)
(* between consuming it and issuing, tokens are issued for it at most once *)
(* (GetDeviceAuthorizatonState).                                           *)
IssuedOnce == \A c \in Codes : minted[c] <= 1

KeepsDecision ==
  \A c \in Codes :
    codes[c].state \in {"approved", "denied", "consumed"} =>
      /\ codes'[c].subject = codes[c].subject
      /\ \/ codes'[c].state \in {codes[c].state, "deleted"}
         \/ codes[c].state = "approved" /\ codes'[c].state = "consumed"

(* The first decision on a code stands: of two users, or two tabs, that    *)
(* saw it pending, the later one neither rebinds nor reverses it           *)
(* (ApproveDeviceCode, DenyDeviceCode).                                    *)
DecisionIsFinal == [][KeepsDecision]_vars

(* A code approved after its expiry, which ApproveDeviceCode lets happen,  *)
(* is never consumed.                                                      *)
LateApprovalIsInert ==
  \A c \in Codes : codes[c].state = "consumed" => approvedAt[c] <= codes[c].expires

(* A poll gets tokens only for an account that was, at some moment of the  *)
(* poll, active and admitted by the client's policy, whatever held when it *)
(* approved (GetDeviceAuthorizatonState).                                  *)
ClosedAccountGetsNothing ==
  \A p \in Procs : req[p].pc \in {"consume", "mint"} => req[p].open

(* The approval trail names the user whose approval took effect, also when *)
(* two users approve one code at once (approveDeviceCode).                 *)
ApprovalTrailIsTrue ==
  \A c \in Codes, u \in Users :
    <<"auth.device_approved", c, u>> \in audited => codes[c].subject = u

(* Two polls that are told authorization_pending are PollInterval apart,   *)
(* also when the device polls in parallel.                                 *)
PendingAnswersAreSpaced ==
  [][\A c \in Codes :
       waited'[c] # waited[c] /\ waited[c] # Null
         => waited'[c] - waited[c] >= PollInterval]_vars

(* An approved code is exchanged for tokens, however fast the device       *)
(* polls, unless it expires or its subject is refused first.               *)
ApprovedCodeDelivers ==
  \A c \in Codes, u \in Users :
    codes[c].state = "approved" /\ codes[c].subject = u
      ~> minted[c] = 1 \/ now > codes[c].expires \/ ~Entitled(u)

(* The comment in denyDeviceCode: auth.device_denied is not recorded for a *)
(* code that was already approved or consumed.                             *)
DenialTrailIsTrue ==
  \A c \in Codes, u \in Users :
    <<"auth.device_denied", c, u>> \in audited =>
      codes[c].state \in {"denied", "deleted"}

=============================================================================
