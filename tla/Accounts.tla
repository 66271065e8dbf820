------------------------------ MODULE Accounts ------------------------------
(***************************************************************************)
(* Accounts of authgate: signup from an upstream login, the deletion       *)
(* request with its waiting period, recovery by a browser login, the       *)
(* operator's disabling, and the final deletion by the cleanup job, which  *)
(* every replica runs and a Postgres advisory lock admits one at a time.   *)
(*                                                                         *)
(* An upstream login is a process whose statements are steps of their own. *)
(* The cleanup of a replica lists the due accounts first and deletes them  *)
(* one transaction at a time, so that its list may be stale.               *)
(***************************************************************************)
EXTENDS Integers, FiniteSets

CONSTANTS
  People,           \* upstream identities (provider, subject)
  Emails,
  EmailOf,          \* the address the IdP asserts for an identity
  AccountIds,       \* users rows that can ever be inserted
  Procs,            \* concurrent upstream logins
  Replicas,
  Nil,
  DeletionDelay,    \* 30 days
  MaxTime,          \* bound: the last clock value explored
  MaxFaults         \* bound: requests, deletions and replicas that break off

ASSUME AccountConstants ==
  /\ Nil \notin People /\ Nil \notin Emails /\ Nil \notin AccountIds
  /\ Nil \notin Replicas
  /\ EmailOf \in [People -> Emails]
  /\ DeletionDelay \in Nat /\ MaxTime \in Nat /\ MaxFaults \in Nat

VARIABLES
  now,         \* s.clock.Now()
  accounts,    \* tables users and user_identities
  sessions,    \* accounts with a row in table sessions
  req,         \* control state and locals of each upstream login
  worker,      \* control state and locals of each replica's cleanup
  lock,        \* the replica that holds the cleanup advisory lock, or Nil
  leaked,      \* the session with the lock is idle in the replica's pool
  faults       \* the failures so far

vars == <<now, accounts, sessions, req, worker, lock, leaked, faults>>

----------------------------------------------------------------------------
(* Types                                                                   *)

Null == -1

Time == Nat \cup {Null}

Account == [status    : {"none", "active", "pending_deletion", "disabled", "deleted"},
            person    : People \cup {Nil},   \* its row of user_identities
            email     : Emails \cup {Nil},   \* email_hash
            requested : Time,                \* deletion_requested_at
            scheduled : Time,                \* deletion_scheduled_at
            deletedAt : Time]                \* deleted_at

NoAccount == [status |-> "none", person |-> Nil, email |-> Nil,
              requested |-> Null, scheduled |-> Null, deletedAt |-> Null]

(* signup, recover, session: the statement the login runs next. *)
Login == [pc     : {"idle", "signup", "recover", "session"},
          person : People \cup {Nil},
          user   : AccountIds \cup {Nil}]

Idle == [pc |-> "idle", person |-> Nil, user |-> Nil]

(***************************************************************************)
(* list        the cleanup run has the advisory lock and has read the      *)
(*             clock                                                       *)
(* delete      it goes through the accounts it has listed                  *)
(* identities  the users row is marked and locked; the identities come     *)
(*             next                                                        *)
(* sessions    the identities are deleted; the sessions come next          *)
(* commit      everything is written, nothing is visible yet               *)
(***************************************************************************)
Cleanup == [pc   : {"idle", "list", "delete", "identities", "sessions", "commit"},
            at   : Time,
            due  : SUBSET AccountIds,
            user : AccountIds \cup {Nil}]

Waiting == [pc |-> "idle", at |-> Null, due |-> {}, user |-> Nil]

TypeOK ==
  /\ now \in Nat
  /\ accounts \in [AccountIds -> Account]
  /\ sessions \subseteq AccountIds
  /\ req \in [Procs -> Login]
  /\ worker \in [Replicas -> Cleanup]
  /\ lock \in Replicas \cup {Nil}
  /\ leaked \in BOOLEAN
  /\ faults \in Nat

----------------------------------------------------------------------------
(* A definition named X_Bug is X with one mistake in it; it belongs to no  *)
(* specification and shows that a property can fail.                       *)

(* One of the failures the bound admits. *)
Fault == faults < MaxFaults /\ faults' = faults + 1

Finish(p) == req' = [req EXCEPT ![p] = Idle]

(* The deleting transaction of a cleanup run is open. *)
Deleting(w) == worker[w].pc \in {"identities", "sessions", "commit"}

(* The row lock a deletion holds from its guarded UPDATE to its commit. *)
RowFree(a) == \A w \in Replicas : Deleting(w) => worker[w].user # a

(* GetUserByProviderIdentity *)
OwnedBy(h) == {a \in AccountIds : accounts[a].person = h}

(* No unique index on the address. *)
Conflicts_Bug(h) == \E a \in AccountIds : accounts[a].person = h

(* The unique indexes on email_hash and provider_sub_hash. *)
Conflicts(h) ==
  \E a \in AccountIds : accounts[a].email = EmailOf[h] \/ accounts[a].person = h

(* MarkUserDeletedByID's condition *)
Due(a, at) ==
  accounts[a].status = "pending_deletion" /\ accounts[a].scheduled < at

----------------------------------------------------------------------------
Init ==
  /\ now = 0
  /\ accounts = [a \in AccountIds |-> NoAccount]
  /\ sessions = {}
  /\ req = [p \in Procs |-> Idle]
  /\ worker = [w \in Replicas |-> Waiting]
  /\ lock = Nil
  /\ leaked = FALSE
  /\ faults = 0

Tick ==
  /\ now < MaxTime
  /\ now' = now + 1
  /\ UNCHANGED <<accounts, sessions, req, worker, lock, leaked, faults>>

----------------------------------------------------------------------------
(* The browser callback: prepareBrowserCallbackUser, CreateSession         *)

CallbackNew(p, h) ==
  /\ req[p].pc = "idle"
  /\ OwnedBy(h) = {}
  /\ req' = [req EXCEPT ![p] = [Idle EXCEPT !.pc = "signup", !.person = h]]
  /\ UNCHANGED <<now, accounts, sessions, worker, lock, leaked, faults>>

(* CheckAccess(status, "browser"): a disabled account is refused. *)
CallbackKnown(p, h) ==
  \E a \in OwnedBy(h) :
    /\ req[p].pc = "idle"
    /\ accounts[a].status \in {"active", "pending_deletion"}
    /\ req' = [req EXCEPT ![p] = [Idle EXCEPT !.user = a, !.pc =
         IF accounts[a].status = "active" THEN "session" ELSE "recover"]]
    /\ UNCHANGED <<now, accounts, sessions, worker, lock, leaked, faults>>

(* CreateUserWithIdentity, one transaction.  A unique index makes it wait   *)
(* for a deletion that is about to free the address.                        *)
CreateUserWithIdentity(p, a) ==
  LET h == req[p].person IN
  /\ req[p].pc = "signup"
  /\ accounts[a].status = "none"
  /\ \A b \in AccountIds : accounts[b].email = EmailOf[h] => RowFree(b)
  /\ IF Conflicts(h)
     THEN Finish(p) /\ UNCHANGED accounts
     ELSE /\ accounts' = [accounts EXCEPT ![a] =
               [NoAccount EXCEPT !.status = "active", !.person = h, !.email = EmailOf[h]]]
          /\ req' = [req EXCEPT ![p] = [Idle EXCEPT !.pc = "session", !.user = a]]
  /\ UNCHANGED <<now, sessions, worker, lock, leaked, faults>>

(* Trusts the status read before the UPDATE. *)
RecoverUser_Bug(p) ==
  LET a == req[p].user IN
  /\ req[p].pc = "recover"
  /\ RowFree(a)
  /\ accounts' = [accounts EXCEPT ![a].status = "active",
                                  ![a].requested = Null, ![a].scheduled = Null]
  /\ req' = [req EXCEPT ![p].pc = "session"]
  /\ UNCHANGED <<now, sessions, worker, lock, leaked, faults>>

(* UPDATE ... WHERE status = 'pending_deletion', :exec; no row hit is no    *)
(* error, and the status read afterwards is not looked at.                  *)
RecoverUser(p) ==
  LET a == req[p].user IN
  /\ req[p].pc = "recover"
  /\ RowFree(a)
  /\ accounts' = IF accounts[a].status = "pending_deletion"
                 THEN [accounts EXCEPT ![a].status = "active",
                                       ![a].requested = Null, ![a].scheduled = Null]
                 ELSE accounts
  /\ req' = [req EXCEPT ![p].pc = "session"]
  /\ UNCHANGED <<now, sessions, worker, lock, leaked, faults>>

(* The foreign key makes the INSERT wait for a deletion of the users row,   *)
(* whose key column email_hash changes, and finds the row afterwards: it    *)
(* is marked, not removed.  The audit rows of a login are left out.         *)
CreateSession(p) ==
  /\ req[p].pc = "session"
  /\ RowFree(req[p].user)
  /\ sessions' = sessions \cup {req[p].user}
  /\ Finish(p)
  /\ UNCHANGED <<now, accounts, worker, lock, leaked, faults>>

----------------------------------------------------------------------------
(* Deletion request and operator                                           *)

RequestDeletion(a) ==
  /\ RowFree(a)
  /\ accounts[a].status = "active"
  /\ accounts' = [accounts EXCEPT ![a].status = "pending_deletion", ![a].requested = now,
                                  ![a].scheduled = now + DeletionDelay]
  /\ UNCHANGED <<now, sessions, req, worker, lock, leaked, faults>>

(* A status no other statement knows. *)
SetUserStatus_Bug(a, st) ==
  /\ RowFree(a)
  /\ accounts[a].status # "none"
  /\ accounts' = [accounts EXCEPT ![a].status = "closed"]
  /\ UNCHANGED <<now, sessions, req, worker, lock, leaked, faults>>

(* DisableUser, and the operator opening the account again: an UPDATE that  *)
(* asks for the id only.  Whatever the status was, deleted included, it is  *)
(* overwritten, and every other column stays as it is.                      *)
SetUserStatus(a, st) ==
  /\ RowFree(a)
  /\ accounts[a].status # "none"
  /\ accounts' = [accounts EXCEPT ![a].status = st]
  /\ UNCHANGED <<now, sessions, req, worker, lock, leaked, faults>>

----------------------------------------------------------------------------
(* The cleanup run                                                         *)

(* pg_try_advisory_lock; a replica that does not get it skips its turn.     *)
(* The lock is the session's: a run that draws the very connection an       *)
(* earlier one left it on gets it a second time.                            *)
TryLock(w) ==
  /\ worker[w].pc = "idle"
  /\ lock = Nil \/ (leaked /\ lock = w)
  /\ lock' = w
  /\ worker' = [worker EXCEPT ![w] = [Waiting EXCEPT !.pc = "list", !.at = now]]
  /\ UNCHANGED <<now, accounts, sessions, req, leaked, faults>>

ListPendingDeletionUsers(w) ==
  /\ worker[w].pc = "list"
  /\ worker' = [worker EXCEPT ![w].pc = "delete",
                              ![w].due = {a \in AccountIds : Due(a, worker[w].at)}]
  /\ UNCHANGED <<now, accounts, sessions, req, lock, leaked, faults>>

(* Trusts the list: no condition on the UPDATE. *)
MarkUserDeleted_Bug(w, a) ==
  /\ worker[w].pc = "delete"
  /\ a \in worker[w].due
  /\ RowFree(a)
  /\ worker' = [worker EXCEPT ![w].pc = "identities", ![w].user = a]
  /\ UNCHANGED <<now, accounts, sessions, req, lock, leaked, faults>>

(* The guarded UPDATE comes first; an account that is no longer due is     *)
(* skipped.                                                                *)
MarkUserDeleted(w, a) ==
  /\ worker[w].pc = "delete"
  /\ a \in worker[w].due
  /\ RowFree(a)
  /\ worker' = IF Due(a, worker[w].at)
               THEN [worker EXCEPT ![w].pc = "identities", ![w].user = a]
               ELSE [worker EXCEPT ![w].due = @ \ {a}]
  /\ UNCHANGED <<now, accounts, sessions, req, lock, leaked, faults>>

(* On r.db, outside the transaction. *)
DeleteUserIdentities_Bug(w) ==
  /\ worker[w].pc = "identities"
  /\ accounts' = [accounts EXCEPT ![worker[w].user].person = Nil]
  /\ worker' = [worker EXCEPT ![w].pc = "sessions"]
  /\ UNCHANGED <<now, sessions, req, lock, leaked, faults>>

(* Inside the transaction: nobody sees it before the commit. *)
DeleteUserIdentities(w) ==
  /\ worker[w].pc = "identities"
  /\ worker' = [worker EXCEPT ![w].pc = "sessions"]
  /\ UNCHANGED <<now, accounts, sessions, req, lock, leaked, faults>>

(* Sessions, refresh tokens, the personal data of the audit trail, the hook. *)
DeleteSessions(w) ==
  /\ worker[w].pc = "sessions"
  /\ worker' = [worker EXCEPT ![w].pc = "commit"]
  /\ UNCHANGED <<now, accounts, sessions, req, lock, leaked, faults>>

(* The commit: all that the transaction wrote becomes visible at once. *)
DeleteUser(w) ==
  LET a == worker[w].user IN
  /\ worker[w].pc = "commit"
  /\ accounts' = [accounts EXCEPT ![a] =
       [NoAccount EXCEPT !.status = "deleted", !.deletedAt = worker[w].at]]
  /\ sessions' = sessions \ {a}
  /\ worker' = [worker EXCEPT ![w].pc = "delete", ![w].user = Nil, ![w].due = @ \ {a}]
  /\ UNCHANGED <<now, req, lock, leaked, faults>>

(* A statement, the hook or the commit fails and the transaction rolls      *)
(* back; the run goes on with the rest.                                     *)
DeleteUserFails(w) ==
  /\ Fault
  /\ Deleting(w)
  /\ worker' = [worker EXCEPT ![w].pc = "delete", ![w].user = Nil,
                              ![w].due = @ \ {worker[w].user}]
  /\ UNCHANGED <<now, accounts, sessions, req, lock, leaked>>

(* The advisory lock is not given back. *)
Unlock_Bug(w) ==
  /\ worker[w].pc = "delete"
  /\ worker[w].due = {}
  /\ worker' = [worker EXCEPT ![w] = Waiting]
  /\ UNCHANGED <<now, accounts, sessions, req, lock, leaked, faults>>

(* pg_advisory_unlock; a session that had the lock twice still has it once. *)
Unlock(w) ==
  /\ worker[w].pc = "delete"
  /\ worker[w].due = {}
  /\ lock' = IF leaked THEN lock ELSE Nil
  /\ worker' = [worker EXCEPT ![w] = Waiting]
  /\ UNCHANGED <<now, accounts, sessions, req, leaked, faults>>

(* The run's context is cancelled by a shutdown, wherever the run is: its   *)
(* transaction rolls back, every later statement fails and so does the      *)
(* unlock, which uses the same context.  conn.Close puts the connection     *)
(* back into the pool, lock and all.  An unlock that fails for another      *)
(* reason does the same at the end of the run.                              *)
UnlockFails(w) ==
  /\ Fault
  /\ worker[w].pc # "idle"
  /\ leaked' = TRUE
  /\ worker' = [worker EXCEPT ![w] = Waiting]
  /\ UNCHANGED <<now, accounts, sessions, req, lock>>

(* The pool closes the idle connection when its lifetime is over, or the    *)
(* process exits; Postgres frees the session's locks.                       *)
CloseConnection(w) ==
  /\ leaked
  /\ lock = w
  /\ worker[w].pc = "idle"
  /\ lock' = Nil
  /\ leaked' = FALSE
  /\ UNCHANGED <<now, accounts, sessions, req, worker, faults>>

(* The replica crashes: Postgres ends its sessions, which frees the         *)
(* advisory lock and rolls the open transaction back.                       *)
ReplicaStops(w) ==
  /\ Fault
  /\ worker[w].pc # "idle"
  /\ lock' = Nil
  /\ leaked' = FALSE
  /\ worker' = [worker EXCEPT ![w] = Waiting]
  /\ UNCHANGED <<now, accounts, sessions, req>>

Abort(p) ==
  /\ Fault
  /\ req[p].pc # "idle"
  /\ Finish(p)
  /\ UNCHANGED <<now, accounts, sessions, worker, lock, leaked>>

SignIn(p) ==
  \/ \E h \in People : CallbackNew(p, h) \/ CallbackKnown(p, h)
  \/ \E a \in AccountIds : CreateUserWithIdentity(p, a)
  \/ RecoverUser(p) \/ CreateSession(p)

RunCleanup(w) ==
  \/ ListPendingDeletionUsers(w)
  \/ \E a \in AccountIds : MarkUserDeleted(w, a)
  \/ DeleteUserIdentities(w) \/ DeleteSessions(w) \/ DeleteUser(w)
  \/ DeleteUserFails(w) \/ Unlock(w)

Next ==
  \/ Tick
  \/ \E p \in Procs : SignIn(p) \/ Abort(p)
  \/ \E a \in AccountIds : \/ RequestDeletion(a)
                           \/ \E st \in {"active", "disabled"} : SetUserStatus(a, st)
  \/ \E w \in Replicas : \/ TryLock(w) \/ RunCleanup(w)
                         \/ UnlockFails(w) \/ CloseConnection(w) \/ ReplicaStops(w)

Spec == Init /\ [][Next]_vars

(* Every replica runs its cleanup again and again, a run goes on, and no    *)
(* connection of a pool lives for ever.                                     *)
Fairness ==
  /\ WF_vars(\E w \in Replicas : TryLock(w))
  /\ \A w \in Replicas : WF_vars(RunCleanup(w)) /\ WF_vars(CloseConnection(w))

FairSpec == Spec /\ Fairness

----------------------------------------------------------------------------
(* Properties                                                              *)

(* Two first logins of one person, or of two people with one address,      *)
(* never make two accounts (CreateUserWithIdentity).                       *)
OneAccountPerPerson ==
  \A a, b \in AccountIds :
    a # b => /\ accounts[a].person = Nil \/ accounts[a].person # accounts[b].person
             /\ accounts[a].email = Nil \/ accounts[a].email # accounts[b].email

(* A deletion is all or nothing: an account whose deletion never committed *)
(* keeps its identity and its address, and can be signed in to, also when  *)
(* a cleanup run with a stale list took it on, failed half way or stopped  *)
(* there; one whose deletion committed has neither, whatever status an     *)
(* operator gave it since (DeleteUser, setUserStatus).                     *)
IdentityIsKept ==
  \A a \in AccountIds : accounts[a].status # "none" =>
    \/ /\ accounts[a].deletedAt = Null
       /\ accounts[a].person # Nil /\ accounts[a].email # Nil
    \/ /\ accounts[a].deletedAt # Null
       /\ accounts[a].person = Nil /\ accounts[a].email = Nil

WaitsForDeletion ==
  \A a \in AccountIds :
    accounts[a].status # "deleted" /\ accounts'[a].status = "deleted" =>
      /\ accounts[a].status = "pending_deletion"
      /\ accounts[a].requested + DeletionDelay < now

(* An account is deleted only after the whole waiting period of its latest *)
(* deletion request, also when it was recovered and requested again after  *)
(* a cleanup run had listed it.                                            *)
DeletionWaits == [][WaitsForDeletion]_vars

Reopens ==
  \A a \in AccountIds :
    accounts[a].status \in {"disabled", "deleted"} /\ accounts'[a].status # accounts[a].status
      => \E st \in {"active", "disabled"} : SetUserStatus(a, st)

(* Only the operator moves an account out of disabled or deleted: a login  *)
(* that read it as pending deletion and recovers it after the operator     *)
(* disabled it, or after the cleanup deleted it, does not open it again    *)
(* (ensureBrowserAccess, RecoverUser).                                     *)
ClosedStaysClosed == [][Reopens]_vars

(* An account whose waiting period is over is deleted, unless it is        *)
(* recovered or disabled: the advisory lock never keeps every replica out, *)
(* not even when a run ended without giving it back.                       *)
DueAccountsGo ==
  \A a \in AccountIds : Due(a, now) ~> accounts[a].status # "pending_deletion"

=============================================================================
