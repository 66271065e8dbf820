--------------------------- MODULE AccountsProofs ---------------------------
(***************************************************************************)
(* Proofs about Accounts, for every number of people, accounts, concurrent *)
(* logins and replicas, and every waiting period.                          *)
(***************************************************************************)
EXTENDS Accounts, TLAPS

USE DEF Null, Time

(* What a login and a cleanup run know in the state they are in. *)
Locals ==
  /\ \A p \in Procs :
       /\ req[p].pc = "signup" => req[p].person \in People
       /\ req[p].pc \in {"recover", "session"} => req[p].user \in AccountIds
  /\ \A w \in Replicas :
       /\ worker[w].pc # "idle" => worker[w].at \in Nat /\ worker[w].at <= now
       /\ Deleting(w) => worker[w].user \in AccountIds

Typed == TypeOK /\ Locals

(* The advisory lock: a cleanup run that is under way is the only one. *)
OneCleanup == \A w \in Replicas : worker[w].pc # "idle" => lock = w

(* A row has its identity and its address until its deletion commits, and  *)
(* neither of them from then on.                                           *)
RowSound(a) ==
  /\ accounts[a].status = "none" \/ accounts[a].deletedAt # Null =>
       accounts[a].person = Nil /\ accounts[a].email = Nil
  /\ accounts[a].status # "none" /\ accounts[a].deletedAt = Null =>
       accounts[a].person # Nil /\ accounts[a].email # Nil
  /\ accounts[a].status = "pending_deletion" =>
       /\ accounts[a].requested \in Nat
       /\ accounts[a].scheduled = accounts[a].requested + DeletionDelay

(* The row lock: what the guarded UPDATE saw is still so at the commit. *)
StillDue ==
  \A w \in Replicas : Deleting(w) => Due(worker[w].user, worker[w].at)

Inv ==
  /\ Typed
  /\ OneCleanup
  /\ \A a \in AccountIds : RowSound(a)
  /\ OneAccountPerPerson
  /\ StillDue

LEMMA InvInit == Init => Inv
<1> SUFFICES ASSUME Init PROVE Inv OBVIOUS
<1>1. NoAccount \in Account /\ Idle \in Login /\ Waiting \in Cleanup
  BY DEF NoAccount, Account, Idle, Login, Waiting, Cleanup
<1>2. TypeOK
  BY <1>1 DEF Init, TypeOK
<1>3. Locals /\ OneCleanup /\ StillDue
  BY DEF Init, Locals, OneCleanup, StillDue, Deleting, Idle, Waiting
<1>4. OneAccountPerPerson /\ \A a \in AccountIds : RowSound(a)
  BY DEF Init, OneAccountPerPerson, RowSound, NoAccount
<1> QED BY <1>2, <1>3, <1>4 DEF Inv, Typed

----------------------------------------------------------------------------
(* A login that ends, or goes on to open the session. *)
LEMMA LoginRow ==
  ASSUME Inv, NEW p \in Procs, NEW new \in Login, req' = [req EXCEPT ![p] = new],
         new.pc = "signup" => new.person \in People,
         new.pc \in {"recover", "session"} => new.user \in AccountIds,
         UNCHANGED <<now, worker>>
  PROVE  req' \in [Procs -> Login] /\ Locals'
BY DEF Inv, Typed, TypeOK, Locals, Deleting

LEMMA FinishRow ==
  ASSUME Inv, NEW p \in Procs, Finish(p), UNCHANGED <<now, worker>>
  PROVE  req' \in [Procs -> Login] /\ Locals'
<1>1. Idle \in Login /\ Idle.pc = "idle"
  BY DEF Idle, Login
<1> QED BY <1>1, LoginRow DEF Finish

(* Nobody changes a row that a deletion has locked. *)
LEMMA AccountRow ==
  ASSUME Inv, NEW a \in AccountIds, NEW row \in Account,
         accounts' = [accounts EXCEPT ![a] = row], UNCHANGED worker,
         RowFree(a) \/ ~Due(a, now)
  PROVE  /\ accounts' \in [AccountIds -> Account]
         /\ StillDue'
         /\ accounts'[a] = row
         /\ \A b \in AccountIds : b # a => accounts'[b] = accounts[b]
<1>1. /\ accounts \in [AccountIds -> Account] /\ accounts[a] \in Account
      /\ worker \in [Replicas -> Cleanup] /\ now \in Nat
  BY DEF Inv, Typed, TypeOK
<1>2. ASSUME NEW w \in Replicas, Deleting(w), worker[w].user = a PROVE FALSE
  <2>1. worker[w].at <= now /\ worker[w].at \in Nat /\ Due(a, worker[w].at)
    BY <1>2 DEF Inv, StillDue, Deleting, Typed, Locals
  <2>2. Due(a, now)
    BY <1>1, <2>1 DEF Due, Account
  <2> QED BY <1>2, <2>2 DEF RowFree
<1> QED BY <1>1, <1>2 DEF Inv, StillDue, Due, Deleting, Typed, Locals

(* A step of the cleanup run that has the advisory lock. *)
LEMMA WorkerRow ==
  ASSUME Inv, NEW w \in Replicas, NEW new \in Cleanup, worker' = [worker EXCEPT ![w] = new],
         UNCHANGED <<now, req>>,
         new.pc # "idle" => new.at \in Nat /\ new.at <= now /\ lock' = w,
         new.pc \in {"identities", "sessions", "commit"} =>
           new.user \in AccountIds /\ Due(new.user, new.at)',
         \A x \in Replicas : x # w => worker[x].pc = "idle"
  PROVE  worker' \in [Replicas -> Cleanup] /\ Locals' /\ OneCleanup' /\ StillDue'
<1>1. /\ worker'[w] = new /\ \A x \in Replicas : x # w => worker'[x] = worker[x]
      /\ worker' \in [Replicas -> Cleanup]
  BY DEF Inv, Typed, TypeOK
<1>2. Locals'
  BY <1>1 DEF Inv, Typed, Locals, Deleting
<1>3. OneCleanup'
  BY <1>1 DEF OneCleanup
<1>4. StillDue'
  BY <1>1 DEF StillDue, Due, Deleting
<1> QED BY <1>1, <1>2, <1>3, <1>4

----------------------------------------------------------------------------
LEMMA SignInStep == ASSUME Inv, NEW p \in Procs, SignIn(p) PROVE Inv'
<1>0. /\ Typed /\ TypeOK /\ Locals /\ accounts \in [AccountIds -> Account]
      /\ Nil \notin People /\ Nil \notin Emails /\ Nil \notin AccountIds
  BY AccountConstants DEF Inv, Typed, TypeOK
<1>1. ASSUME NEW h \in People, CallbackNew(p, h) PROVE Inv'
  <2> DEFINE new == [Idle EXCEPT !.pc = "signup", !.person = h]
  <2>1. new \in Login /\ new.pc = "signup" /\ new.person = h
    BY DEF Idle, Login
  <2>2. req' = [req EXCEPT ![p] = new] /\ UNCHANGED <<now, accounts, sessions, worker, lock, leaked, faults>>
    BY <1>1 DEF CallbackNew
  <2> HIDE DEF new
  <2>3. req' \in [Procs -> Login] /\ Locals'
    BY <2>1, <2>2, LoginRow
  <2> QED BY <2>2, <2>3
             DEF Inv, Typed, TypeOK, OneCleanup, RowSound, OneAccountPerPerson, StillDue, Due, Deleting
<1>2. ASSUME NEW h \in People, CallbackKnown(p, h) PROVE Inv'
  <2>1. PICK a \in AccountIds, pc \in {"session", "recover"} :
          /\ req' = [req EXCEPT ![p] = [Idle EXCEPT !.user = a, !.pc = pc]]
          /\ UNCHANGED <<now, accounts, sessions, worker, lock, leaked, faults>>
    BY <1>2 DEF CallbackKnown, OwnedBy
  <2> DEFINE new == [Idle EXCEPT !.user = a, !.pc = pc]
  <2>2. new \in Login /\ new.pc = pc /\ new.user = a
    BY DEF Idle, Login
  <2> HIDE DEF new
  <2>3. req' \in [Procs -> Login] /\ Locals'
    BY <2>1, <2>2, LoginRow DEF new
  <2> QED BY <2>1, <2>3
             DEF Inv, Typed, TypeOK, OneCleanup, RowSound, OneAccountPerPerson, StillDue, Due, Deleting
<1>3. ASSUME NEW a \in AccountIds, CreateUserWithIdentity(p, a) PROVE Inv'
  <2> DEFINE h == req[p].person
             row == [NoAccount EXCEPT !.status = "active", !.person = h, !.email = EmailOf[h]]
             new == [Idle EXCEPT !.pc = "session", !.user = a]
  <2>1. h \in People /\ EmailOf[h] \in Emails /\ UNCHANGED <<now, sessions, worker, lock, leaked, faults>>
    BY <1>0, <1>3, AccountConstants DEF CreateUserWithIdentity, Locals
  <2>2. CASE Conflicts(h)
    <3>1. Finish(p) /\ UNCHANGED accounts
      BY <1>3, <2>2 DEF CreateUserWithIdentity
    <3> QED BY <2>1, <3>1, FinishRow
          DEF Inv, Typed, TypeOK, OneCleanup, RowSound, OneAccountPerPerson, StillDue, Due, Deleting
  <2>3. CASE ~Conflicts(h)
    <3>1. /\ row \in Account /\ row.status = "active" /\ row.person = h /\ row.email = EmailOf[h]
          /\ row.deletedAt = Null
          /\ new \in Login /\ new.pc = "session" /\ new.user = a
      BY <2>1 DEF NoAccount, Account, Idle, Login
    <3>2. /\ accounts' = [accounts EXCEPT ![a] = row] /\ req' = [req EXCEPT ![p] = new]
          /\ ~Due(a, now)
      BY <1>3, <2>3 DEF CreateUserWithIdentity, Due
    <3>3. \A b \in AccountIds : accounts[b].person # h /\ accounts[b].email # EmailOf[h]
      BY <2>3 DEF Conflicts
    <3> HIDE DEF row, new, h
    <3>4. /\ accounts' \in [AccountIds -> Account] /\ StillDue' /\ accounts'[a] = row
          /\ \A b \in AccountIds : b # a => accounts'[b] = accounts[b]
      BY <2>1, <3>1, <3>2, AccountRow
    <3>5. req' \in [Procs -> Login] /\ Locals'
      BY <2>1, <3>1, <3>2, LoginRow
    <3>6. \A b \in AccountIds : RowSound(b)'
      BY <1>0, <2>1, <3>1, <3>4 DEF Inv, RowSound
    <3>7. OneAccountPerPerson'
      BY <1>0, <2>1, <3>1, <3>3, <3>4 DEF Inv, OneAccountPerPerson
    <3> QED BY <2>1, <3>4, <3>5, <3>6, <3>7 DEF Inv, Typed, TypeOK, OneCleanup
  <2> QED BY <2>2, <2>3
<1>4. CASE RecoverUser(p)
  <2> DEFINE a == req[p].user
             row == [accounts[a] EXCEPT !.status = "active", !.requested = Null, !.scheduled = Null]
             new == [req[p] EXCEPT !.pc = "session"]
  <2>1. /\ a \in AccountIds /\ RowFree(a) /\ UNCHANGED <<now, sessions, worker, lock, leaked, faults>>
        /\ req' = [req EXCEPT ![p] = new]
    BY <1>0, <1>4 DEF RecoverUser, Locals
  <2>2. new \in Login /\ new.pc = "session" /\ new.user = a
    BY <1>0 DEF TypeOK, Login
  <2>3. req' \in [Procs -> Login] /\ Locals'
    <3> HIDE DEF new, a
    <3> QED BY <2>1, <2>2, LoginRow
  <2>4. CASE accounts' = accounts
    BY <2>1, <2>3, <2>4
      DEF Inv, Typed, TypeOK, OneCleanup, RowSound, OneAccountPerPerson, StillDue, Due, Deleting
  <2>5. CASE accounts' # accounts
    <3>1. accounts' = [accounts EXCEPT ![a] = row] /\ accounts[a].status = "pending_deletion"
      BY <1>4, <2>5 DEF RecoverUser
    <3>2. accounts[a] \in Account
      BY <1>0, <2>1
    <3>3. /\ row \in Account /\ row.status = "active" /\ row.person = accounts[a].person
          /\ row.email = accounts[a].email /\ row.deletedAt = accounts[a].deletedAt
      BY <3>2 DEF Account
    <3> HIDE DEF row, new, a
    <3>4. /\ accounts' \in [AccountIds -> Account] /\ StillDue' /\ accounts'[a] = row
          /\ \A b \in AccountIds : b # a => accounts'[b] = accounts[b]
      BY <2>1, <3>1, <3>3, AccountRow
    <3>5. \A b \in AccountIds : RowSound(b)'
      BY <2>1, <3>1, <3>3, <3>4 DEF Inv, RowSound
    <3>6. OneAccountPerPerson'
      BY <2>1, <3>3, <3>4 DEF Inv, OneAccountPerPerson
    <3> QED BY <2>1, <2>3, <3>4, <3>5, <3>6 DEF Inv, Typed, TypeOK, OneCleanup
  <2> QED BY <2>4, <2>5
<1>5. CASE CreateSession(p)
  <2>1. req[p].user \in AccountIds /\ UNCHANGED <<now, accounts, worker, lock, leaked, faults>> /\ Finish(p)
    BY <1>0, <1>5 DEF CreateSession, Locals
  <2>2. sessions' \subseteq AccountIds
    BY <1>0, <1>5, <2>1 DEF CreateSession, TypeOK
  <2> QED BY <2>1, <2>2, FinishRow
        DEF Inv, Typed, TypeOK, OneCleanup, RowSound, OneAccountPerPerson, StillDue, Due, Deleting
<1> QED BY <1>1, <1>2, <1>3, <1>4, <1>5 DEF SignIn

(* A change of status that keeps the identity. *)
LEMMA StatusStep ==
  ASSUME Inv, NEW a \in AccountIds,
         RequestDeletion(a) \/ \E st \in {"active", "disabled"} : SetUserStatus(a, st)
  PROVE  Inv'
<1>0. /\ accounts \in [AccountIds -> Account] /\ accounts[a] \in Account /\ now \in Nat
      /\ DeletionDelay \in Nat
  BY AccountConstants DEF Inv, Typed, TypeOK
<1>1. UNCHANGED <<now, sessions, req, worker, lock, leaked, faults>>
  BY DEF RequestDeletion, SetUserStatus
<1>2. PICK row \in Account :
        /\ accounts' = [accounts EXCEPT ![a] = row]
        /\ row.status # "none" /\ row.deletedAt = accounts[a].deletedAt
        /\ row.person = accounts[a].person /\ row.email = accounts[a].email
        /\ row.status = "pending_deletion" =>
             row.requested \in Nat /\ row.scheduled = row.requested + DeletionDelay
  <2>1. CASE RequestDeletion(a)
    <3> DEFINE d == now + DeletionDelay
               row == [accounts[a] EXCEPT !.status = "pending_deletion", !.requested = now,
                                          !.scheduled = d]
    <3>1. d \in Nat /\ d = now + DeletionDelay
      BY <1>0
    <3>2. accounts' = [accounts EXCEPT ![a] = row]
      BY <2>1 DEF RequestDeletion
    <3> HIDE DEF d
    <3>3. /\ row \in Account /\ row.status = "pending_deletion" /\ row.requested = now
          /\ row.scheduled = d /\ row.person = accounts[a].person /\ row.email = accounts[a].email
          /\ row.deletedAt = accounts[a].deletedAt
      BY <1>0, <3>1 DEF Account
    <3> HIDE DEF row
    <3> QED BY <1>0, <3>1, <3>2, <3>3
  <2>2. ASSUME NEW st \in {"active", "disabled"}, SetUserStatus(a, st)
        PROVE  \E row \in Account :
                 /\ accounts' = [accounts EXCEPT ![a] = row]
                 /\ row.status \notin {"none", "pending_deletion"}
                 /\ row.deletedAt = accounts[a].deletedAt
                 /\ row.person = accounts[a].person /\ row.email = accounts[a].email
    <3> DEFINE row == [accounts[a] EXCEPT !.status = st]
    <3>1. /\ row \in Account /\ row.status = st /\ row.deletedAt = accounts[a].deletedAt
          /\ row.person = accounts[a].person /\ row.email = accounts[a].email
      BY <1>0 DEF Account
    <3>2. accounts' = [accounts EXCEPT ![a] = row]
      BY <2>2 DEF SetUserStatus
    <3> HIDE DEF row
    <3> QED BY <3>1, <3>2
  <2> QED BY <2>1, <2>2
<1>3. accounts[a].status # "none" /\ RowFree(a)
  BY DEF RequestDeletion, SetUserStatus
<1>4. /\ accounts' \in [AccountIds -> Account] /\ StillDue' /\ accounts'[a] = row
      /\ \A b \in AccountIds : b # a => accounts'[b] = accounts[b]
  BY <1>1, <1>2, <1>3, AccountRow
<1>5. \A b \in AccountIds : RowSound(b)'
  BY <1>2, <1>3, <1>4 DEF Inv, RowSound
<1>6. OneAccountPerPerson'
  BY <1>2, <1>4 DEF Inv, OneAccountPerPerson
<1> QED BY <1>1, <1>4, <1>5, <1>6 DEF Inv, Typed, TypeOK, Locals, Deleting, OneCleanup

LEMMA CleanupStep ==
  ASSUME Inv, NEW w \in Replicas,
         \/ TryLock(w) \/ RunCleanup(w)
         \/ UnlockFails(w) \/ CloseConnection(w) \/ ReplicaStops(w)
  PROVE  Inv'
<1>0. /\ TypeOK /\ Locals /\ worker \in [Replicas -> Cleanup] /\ worker[w] \in Cleanup
      /\ now \in Nat /\ Nil \notin Replicas /\ Nil \notin AccountIds
      /\ faults \in Nat /\ leaked \in BOOLEAN
  BY AccountConstants DEF Inv, Typed, TypeOK
<1>1. \A x \in Replicas : x # w => worker[x].pc = "idle"
  BY <1>0 DEF Inv, OneCleanup, TryLock, RunCleanup, ListPendingDeletionUsers, MarkUserDeleted,
     DeleteUserIdentities, DeleteSessions, DeleteUser, DeleteUserFails, Deleting, Unlock,
     UnlockFails, CloseConnection, ReplicaStops
(* Whatever leaves the accounts alone only has to keep the run's own state. *)
<1>2. ASSUME NEW new \in Cleanup, worker' = [worker EXCEPT ![w] = new],
             UNCHANGED <<now, accounts, sessions, req>>, faults' \in Nat, lock' \in Replicas \cup {Nil},
             leaked' \in BOOLEAN,
             new.pc # "idle" => new.at \in Nat /\ new.at <= now /\ lock' = w,
             new.pc \in {"identities", "sessions", "commit"} =>
               new.user \in AccountIds /\ Due(new.user, new.at)
      PROVE  Inv'
  <2>1. new.pc \in {"identities", "sessions", "commit"} =>
          new.user \in AccountIds /\ Due(new.user, new.at)'
    BY <1>2 DEF Due
  <2>2. worker' \in [Replicas -> Cleanup] /\ Locals' /\ OneCleanup' /\ StillDue'
    BY <1>1, <1>2, <2>1, WorkerRow
  <2> QED BY <1>2, <2>2 DEF Inv, Typed, TypeOK, RowSound, OneAccountPerPerson
<1>3. ASSUME worker' = [worker EXCEPT ![w] = Waiting], lock' \in Replicas \cup {Nil},
             faults' \in Nat, leaked' \in BOOLEAN, UNCHANGED <<now, accounts, sessions, req>>
      PROVE  Inv'
  <2>1. Waiting \in Cleanup /\ Waiting.pc = "idle"
    BY DEF Waiting, Cleanup
  <2> QED BY <1>2, <1>3, <2>1
<1>4. CASE TryLock(w)
  <2> DEFINE new == [Waiting EXCEPT !.pc = "list", !.at = now]
  <2>1. new \in Cleanup /\ new.pc = "list" /\ new.at = now
    BY <1>0 DEF Waiting, Cleanup
  <2>2. /\ worker' = [worker EXCEPT ![w] = new] /\ lock' = w
        /\ UNCHANGED <<now, accounts, sessions, req, leaked, faults>>
    BY <1>4 DEF TryLock
  <2> HIDE DEF new
  <2>3. /\ new.at \in Nat /\ new.at <= now /\ faults' \in Nat /\ lock' \in Replicas \cup {Nil}
        /\ leaked' \in BOOLEAN
    BY <1>0, <2>1, <2>2
  <2> QED BY <1>2, <2>1, <2>2, <2>3
<1>5. worker[w].pc # "idle" => worker[w].at \in Nat /\ worker[w].at <= now /\ lock = w
  BY DEF Inv, Typed, Locals, OneCleanup
<1>6. CASE ListPendingDeletionUsers(w)
  <2> DEFINE due == {a \in AccountIds : Due(a, worker[w].at)}
             new == [worker[w] EXCEPT !.pc = "delete", !.due = due]
  <2>1. due \subseteq AccountIds
    OBVIOUS
  <2>2. /\ worker' = [worker EXCEPT ![w] = new] /\ worker[w].pc = "list"
        /\ UNCHANGED <<now, accounts, sessions, req, lock, leaked, faults>>
    BY <1>0, <1>6 DEF ListPendingDeletionUsers
  <2> HIDE DEF due
  <2>3. new \in Cleanup /\ new.pc = "delete" /\ new.at = worker[w].at
    BY <1>0, <2>1 DEF Cleanup
  <2> HIDE DEF new
  <2> QED BY <1>0, <1>2, <1>5, <2>2, <2>3
<1>7. ASSUME NEW a \in AccountIds, MarkUserDeleted(w, a) PROVE Inv'
  <2>1. UNCHANGED <<now, accounts, sessions, req, lock, leaked, faults>> /\ worker[w].pc = "delete"
    BY <1>7 DEF MarkUserDeleted
  <2>2. CASE Due(a, worker[w].at)
    <3> DEFINE new == [worker[w] EXCEPT !.pc = "identities", !.user = a]
    <3>1. worker' = [worker EXCEPT ![w] = new]
      BY <1>0, <1>7, <2>2 DEF MarkUserDeleted
    <3>2. new \in Cleanup /\ new.pc = "identities" /\ new.user = a /\ new.at = worker[w].at
      BY <1>0 DEF Cleanup
    <3> HIDE DEF new
    <3> QED BY <1>0, <1>2, <1>5, <2>1, <2>2, <3>1, <3>2
  <2>3. CASE ~Due(a, worker[w].at)
    <3> DEFINE new == [worker[w] EXCEPT !.due = @ \ {a}]
    <3>1. worker' = [worker EXCEPT ![w] = new]
      BY <1>0, <1>7, <2>3 DEF MarkUserDeleted
    <3>2. new \in Cleanup /\ new.pc = "delete" /\ new.at = worker[w].at
      BY <1>0, <2>1 DEF Cleanup
    <3> HIDE DEF new
    <3> QED BY <1>0, <1>2, <1>5, <2>1, <3>1, <3>2
  <2> QED BY <2>2, <2>3
<1>8. CASE DeleteUser(w)
  <2> DEFINE a == worker[w].user
             row == [NoAccount EXCEPT !.status = "deleted", !.deletedAt = worker[w].at]
             new == [worker[w] EXCEPT !.pc = "delete", !.user = Nil, !.due = @ \ {a}]
  <2>1. /\ worker[w].pc = "commit" /\ a \in AccountIds
        /\ accounts' = [accounts EXCEPT ![a] = row]
        /\ worker' = [worker EXCEPT ![w] = new]
        /\ sessions' = sessions \ {a} /\ UNCHANGED <<now, req, lock, leaked, faults>>
    BY <1>0, <1>8 DEF DeleteUser, Locals, Deleting
  <2>2. new \in Cleanup /\ new.pc = "delete" /\ new.at = worker[w].at
    BY <1>0 DEF Cleanup
  <2>3. /\ row \in Account /\ row.status = "deleted" /\ row.person = Nil /\ row.email = Nil
        /\ row.deletedAt # Null
    <3>1. worker[w].at \in Nat /\ worker[w].at # Null
      BY <1>5, <2>1
    <3>2. row.deletedAt = worker[w].at /\ row \in Account
      BY <3>1 DEF NoAccount, Account
    <3> QED BY <3>1, <3>2 DEF NoAccount
  <2> HIDE DEF row, new, a
  <2>4. worker' \in [Replicas -> Cleanup] /\ Locals' /\ OneCleanup' /\ StillDue'
    BY <1>1, <1>5, <2>1, <2>2, WorkerRow
  <2>5. /\ accounts' \in [AccountIds -> Account] /\ accounts'[a] = row
        /\ \A b \in AccountIds : b # a => accounts'[b] = accounts[b]
    BY <1>0, <2>1, <2>3 DEF TypeOK
  <2>6. \A b \in AccountIds : RowSound(b)'
    BY <2>3, <2>5 DEF Inv, RowSound
  <2>7. OneAccountPerPerson'
    BY <2>3, <2>5 DEF Inv, OneAccountPerPerson
  <2>8. sessions' \subseteq AccountIds
    BY <1>0, <2>1 DEF TypeOK
  <2> QED BY <2>1, <2>4, <2>5, <2>6, <2>7, <2>8 DEF Inv, Typed, TypeOK
<1>9. CASE DeleteUserFails(w)
  <2> DEFINE new == [worker[w] EXCEPT !.pc = "delete", !.user = Nil, !.due = @ \ {worker[w].user}]
  <2>1. /\ worker[w].pc # "idle" /\ worker' = [worker EXCEPT ![w] = new] /\ faults' = faults + 1
        /\ UNCHANGED <<now, accounts, sessions, req, lock, leaked>>
    BY <1>0, <1>9 DEF DeleteUserFails, Deleting, Fault
  <2>2. new \in Cleanup /\ new.pc = "delete" /\ new.at = worker[w].at
    BY <1>0 DEF Cleanup
  <2> HIDE DEF new
  <2>3. faults' \in Nat /\ lock' \in Replicas \cup {Nil} /\ leaked' \in BOOLEAN
    BY <1>0, <1>5, <2>1
  <2> QED BY <1>2, <1>5, <2>1, <2>2, <2>3
<1>10. CASE DeleteUserIdentities(w) \/ DeleteSessions(w)
  <2>1. PICK pc \in {"sessions", "commit"} : worker' = [worker EXCEPT ![w].pc = pc]
    BY <1>10 DEF DeleteUserIdentities, DeleteSessions
  <2> DEFINE new == [worker[w] EXCEPT !.pc = pc]
  <2>2. /\ worker' = [worker EXCEPT ![w] = new] /\ Deleting(w)
        /\ UNCHANGED <<now, accounts, sessions, req, lock, leaked, faults>>
    BY <1>0, <1>10, <2>1 DEF DeleteUserIdentities, DeleteSessions, Deleting
  <2>3. new \in Cleanup /\ new.pc = pc /\ new.at = worker[w].at /\ new.user = worker[w].user
    BY <1>0 DEF Cleanup
  <2>4. /\ worker[w].user \in AccountIds /\ Due(worker[w].user, worker[w].at)
        /\ worker[w].pc # "idle"
    BY <1>0, <2>2 DEF Inv, StillDue, Locals, Deleting
  <2> HIDE DEF new
  <2> QED BY <1>0, <1>2, <1>5, <2>2, <2>3, <2>4
<1>11. CASE Unlock(w)
  <2>1. lock' \in Replicas \cup {Nil}
    BY <1>5, <1>11 DEF Unlock
  <2> QED BY <1>0, <1>3, <1>11, <2>1 DEF Unlock
<1>12. CASE UnlockFails(w)
  <2>1. lock' \in Replicas \cup {Nil}
    BY <1>5, <1>12 DEF UnlockFails
  <2> QED BY <1>0, <1>3, <1>12, <2>1 DEF UnlockFails, Fault
<1>13. CASE CloseConnection(w)
  <2>1. /\ UNCHANGED <<now, accounts, sessions, req, worker, faults>> /\ lock' = Nil
        /\ leaked' = FALSE /\ \A x \in Replicas : worker[x].pc = "idle"
    BY <1>1, <1>13 DEF CloseConnection
  <2> QED BY <2>1 DEF Inv, Typed, TypeOK, Locals, OneCleanup, RowSound, OneAccountPerPerson,
        StillDue, Due, Deleting
<1>14. CASE ReplicaStops(w)
  <2>1. faults' \in Nat
    BY <1>0, <1>14 DEF ReplicaStops, Fault
  <2>2. lock' \in Replicas \cup {Nil} /\ leaked' \in BOOLEAN
    BY <1>14 DEF ReplicaStops
  <2> QED BY <1>3, <1>14, <2>1, <2>2 DEF ReplicaStops
<1> QED BY <1>4, <1>6, <1>7, <1>8, <1>9, <1>10, <1>11, <1>12, <1>13, <1>14 DEF RunCleanup

LEMMA InvStep == Inv /\ [Next]_vars => Inv'
<1> SUFFICES ASSUME Inv, [Next]_vars PROVE Inv' OBVIOUS
<1>0. now \in Nat /\ faults \in Nat
  BY DEF Inv, Typed, TypeOK
<1>1. CASE Tick
  <2>1. now' \in Nat /\ now <= now' /\ UNCHANGED <<accounts, sessions, req, worker, lock, leaked, faults>>
    BY <1>0, <1>1 DEF Tick
  <2>2. Locals'
    BY <1>0, <2>1 DEF Inv, Typed, Locals, Deleting
  <2> QED BY <2>1, <2>2
        DEF Inv, Typed, TypeOK, OneCleanup, RowSound, OneAccountPerPerson, StillDue, Due, Deleting
<1>2. ASSUME NEW p \in Procs, Abort(p) PROVE Inv'
  <2>1. /\ Finish(p) /\ UNCHANGED <<now, accounts, sessions, worker, lock, leaked>> /\ faults' \in Nat
    BY <1>0, <1>2 DEF Abort, Fault
  <2> QED BY <2>1, FinishRow
        DEF Inv, Typed, TypeOK, OneCleanup, RowSound, OneAccountPerPerson, StillDue, Due, Deleting
<1>3. CASE UNCHANGED vars
  BY <1>3 DEF vars, Inv, Typed, TypeOK, Locals, OneCleanup, RowSound, OneAccountPerPerson,
     StillDue, Due, Deleting
<1> QED BY <1>1, <1>2, <1>3, SignInStep, StatusStep, CleanupStep DEF Next

LEMMA InvHolds == Spec => []Inv
BY InvInit, InvStep, PTL DEF Spec

----------------------------------------------------------------------------
(* Accounts, logins and cleanup runs stay well formed.                     *)
THEOREM TypeCorrect == Spec => []TypeOK
<1>1. Inv => TypeOK
  BY DEF Inv, Typed
<1> QED BY InvHolds, <1>1, PTL

(* The unique indexes: no interleaving of signups makes two accounts of    *)
(* one person or of one address.                                           *)
THEOREM SignupIsUnique == Spec => []OneAccountPerPerson
<1>1. Inv => OneAccountPerPerson
  BY DEF Inv
<1> QED BY InvHolds, <1>1, PTL

(* Cleanup wipes nobody who was recovered or disabled since it listed the  *)
(* due accounts, and leaves no account half deleted.                       *)
THEOREM NobodyLosesIdentity == Spec => []IdentityIsKept
<1>1. Inv => IdentityIsKept
  BY DEF Inv, RowSound, IdentityIsKept
<1> QED BY InvHolds, <1>1, PTL

----------------------------------------------------------------------------
(* Which accounts a step changes.                                          *)
LEMMA StatusChange ==
  ASSUME Inv, [Next]_vars, NEW a \in AccountIds, accounts'[a].status # accounts[a].status
  PROVE  \/ accounts[a].status = "none" /\ accounts'[a].status = "active"
         \/ accounts[a].status = "pending_deletion" /\ accounts'[a].status = "active"
         \/ accounts[a].status = "active" /\ accounts'[a].status = "pending_deletion"
         \/ \E st \in {"active", "disabled"} : SetUserStatus(a, st) /\ accounts'[a].status = st
         \/ \E w \in Replicas : /\ DeleteUser(w) /\ a = worker[w].user
                                /\ worker[w].pc = "commit" /\ accounts'[a].status = "deleted"
<1>0. accounts \in [AccountIds -> Account] /\ \A b \in AccountIds : accounts[b] \in Account
  BY DEF Inv, Typed, TypeOK
<1>1. ASSUME NEW p \in Procs, NEW b \in AccountIds, CreateUserWithIdentity(p, b)
      PROVE  accounts[a].status = "none" /\ accounts'[a].status = "active"
  BY <1>0, <1>1 DEF CreateUserWithIdentity, NoAccount
<1>2. ASSUME NEW p \in Procs, RecoverUser(p)
      PROVE  accounts[a].status = "pending_deletion" /\ accounts'[a].status = "active"
  BY <1>0, <1>2 DEF RecoverUser, Account
<1>3. ASSUME NEW b \in AccountIds, RequestDeletion(b)
      PROVE  accounts[a].status = "active" /\ accounts'[a].status = "pending_deletion"
  BY <1>0, <1>3 DEF RequestDeletion, Account
<1>4. ASSUME NEW b \in AccountIds, NEW st \in {"active", "disabled"}, SetUserStatus(b, st)
      PROVE  SetUserStatus(a, st) /\ accounts'[a].status = st
  <2>1. accounts' = [accounts EXCEPT ![b].status = st]
    BY <1>4 DEF SetUserStatus
  <2>2. a = b
    BY <1>0, <2>1
  <2> QED BY <1>0, <1>4, <2>1, <2>2 DEF Account
<1>5. ASSUME NEW w \in Replicas, DeleteUser(w)
      PROVE  a = worker[w].user /\ worker[w].pc = "commit" /\ accounts'[a].status = "deleted"
  BY <1>0, <1>5 DEF DeleteUser, NoAccount
<1>6. ASSUME NEW p \in Procs, SignIn(p) PROVE RecoverUser(p) \/ \E b \in AccountIds : CreateUserWithIdentity(p, b)
  BY <1>6 DEF SignIn, CallbackNew, CallbackKnown, CreateSession
<1>7. ASSUME NEW w \in Replicas,
             \/ TryLock(w) \/ RunCleanup(w)
             \/ UnlockFails(w) \/ CloseConnection(w) \/ ReplicaStops(w)
      PROVE  DeleteUser(w)
  BY <1>7 DEF TryLock, RunCleanup, ReplicaStops, ListPendingDeletionUsers, MarkUserDeleted,
     DeleteUserIdentities, DeleteSessions, DeleteUserFails, Unlock, UnlockFails, CloseConnection
<1>8. ~Tick /\ ~UNCHANGED vars /\ \A p \in Procs : ~Abort(p)
  BY DEF Tick, vars, Abort
<1> QED BY <1>1, <1>2, <1>3, <1>4, <1>5, <1>6, <1>7, <1>8 DEF Next

LEMMA WaitStep == Inv /\ [Next]_vars => WaitsForDeletion
<1> SUFFICES ASSUME Inv, [Next]_vars, NEW a \in AccountIds,
                    accounts[a].status # "deleted", accounts'[a].status = "deleted"
             PROVE  accounts[a].status = "pending_deletion" /\ accounts[a].requested + DeletionDelay < now
  BY DEF WaitsForDeletion
<1>1. PICK w \in Replicas : a = worker[w].user /\ worker[w].pc = "commit"
  BY StatusChange
<1>2. Due(a, worker[w].at) /\ worker[w].at \in Nat /\ worker[w].at <= now /\ RowSound(a) /\ now \in Nat
  BY <1>1 DEF Inv, StillDue, Deleting, Typed, TypeOK, Locals
<1> QED BY <1>2, AccountConstants DEF Due, RowSound

(* Thirty days after the latest request, and not before, also for an       *)
(* account that was recovered and requested again behind the back of a     *)
(* cleanup run.                                                            *)
THEOREM WholePeriodWaited == Spec => DeletionWaits
BY InvHolds, WaitStep, PTL DEF Spec, DeletionWaits

LEMMA ReopenStep == Inv /\ [Next]_vars => Reopens
<1> SUFFICES ASSUME Inv, [Next]_vars, NEW a \in AccountIds,
                    accounts[a].status \in {"disabled", "deleted"},
                    accounts'[a].status # accounts[a].status
             PROVE  \E st \in {"active", "disabled"} : SetUserStatus(a, st)
  BY DEF Reopens
<1>1. ASSUME NEW w \in Replicas, a = worker[w].user, worker[w].pc = "commit" PROVE FALSE
  BY <1>1 DEF Inv, StillDue, Due, Deleting
<1> QED BY <1>1, StatusChange

(* A late RecoverUser never opens a disabled or deleted account: only the  *)
(* operator's unconditional UPDATE changes the status of one.              *)
THEOREM ClosedForGood == Spec => ClosedStaysClosed
BY InvHolds, ReopenStep, PTL DEF Spec, ClosedStaysClosed
=============================================================================
