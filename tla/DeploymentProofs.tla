-------------------------- MODULE DeploymentProofs --------------------------
(***************************************************************************)
(* Proofs about Deployment, for any number of replicas, browsers and       *)
(* resources, any access token lifetime and all plans: any sequence of     *)
(* releases, any root secrets and any assertions of the provider.          *)
(***************************************************************************)
EXTENDS Deployment, TLAPS

Account == [subject : Subjects(plan), roots : plan.roots]

Typed ==
  /\ TypeOK
  /\ replica \in [Replicas -> Process \cup {Down}]
  /\ login \in [Browsers -> Login \cup {NoLogin}]
  /\ account \in Account \cup {Nil}

----------------------------------------------------------------------------
(* The invariant                                                           *)

Signing(i) == plan.releases[i].signing

(* The releases of which processes may run. *)
Current == {stage} \cup (IF settled = 0 /\ stage > 1 THEN {stage - 1} ELSE {})

Holds(x, d) == RootOf(x, d) \in epochs

(***************************************************************************)
(* A process has passed the checks of its startup so far: its keys load,   *)
(* the epochs it has compared are its own, and a serving one has a sound   *)
(* client file.  An epoch is never replaced, so that the check at startup  *)
(* holds for the life of the process.                                      *)
(***************************************************************************)
ProcessSound(r) ==
  LET p == replica[r] IN
  p.pc # "down" =>
    /\ p.release \in Current
    /\ ConfigureSigningKey(ReleaseOf(r).signing)
    /\ p.pc \in {"get", "insert", "reload"} /\ p.domain = "lookup" => Holds(p.roots, "enc")
    /\ p.pc \in {"clients", "serving"} =>
         \/ p.roots = NoRoots
         \/ Holds(p.roots, "enc") /\ Holds(p.roots, "lookup")
    /\ p.pc = "serving" => LoadClientConfig(ReleaseOf(r).client, ReleaseOf(r).env.enableMCP)

(* The account is encrypted under the roots of the epochs, and its hosted  *)
(* domain is the last one a callback applied.                              *)
AccountSound ==
  account # Nil =>
    /\ Holds(account.roots, "enc") /\ Holds(account.roots, "lookup")
    /\ account.subject.hostedDomain = said

(* A callback under way is at a process that serves, and a code was        *)
(* admitted by the policy of a release for what is stored of the person    *)
(* but for the hosted domain, which the admission recorded.                *)
LoginSound(b) ==
  /\ login[b].pc = "asserted" => login[b].at \in Serving
  /\ login[b].pc = "code" =>
       /\ account # Nil
       /\ Allowed(Access(plan.releases[login[b].by]),
                  [account.subject EXCEPT !.hostedDomain = login[b].hostedDomain])

(* An exchange under way is at a process that serves, for a code that is   *)
(* still there, and was allowed by the policy and the channel of that      *)
(* process for the hosted domain it saw.                                   *)
ExchangeSound(e) ==
  /\ e.at \in Serving /\ Known(ReleaseOf(e.at)) /\ account # Nil
  /\ login[e.browser].pc = "code"
  /\ ReleaseOf(e.at).env.enableMCP /\ login[e.browser].resource # NoResource
       => ChannelOf(ReleaseOf(e.at).client) = "mcp"
  /\ Allowed(Access(ReleaseOf(e.at)), [account.subject EXCEPT !.hostedDomain = e.hostedDomain])

(* No token is younger than the refusal of the account. *)
RefusalAges ==
  /\ refusedFor > 0 => Removed
  /\ \A t \in live : t.left + refusedFor <= AccessTTL

Inv ==
  /\ Typed
  /\ \A r \in Replicas : ProcessSound(r)
  /\ AccountSound
  /\ \A b \in Browsers : LoginSound(b)
  /\ \A e \in exchanging : ExchangeSound(e)
  /\ BrowserIsUnbound
  /\ RefusalAges

(***************************************************************************)
(* The releases that run publish the key of each live token.  One that the *)
(* release being rolled out has not signed was issued before that release  *)
(* was everywhere, and so is gone when a key may be unpublished.           *)
(***************************************************************************)
KeysKept ==
  /\ FollowsRunbook(plan)
  /\ settled > 0 => ConfigureSigningKey(Signing(stage))
  /\ \A i \in Current : ConfigureSigningKey(Signing(i)) =>
       /\ \A t \in live : t.sig \in KeySet(Signing(i))
       /\ signed \subseteq IDTokenHintKeySet(Signing(i))
  /\ \A t \in live :
       /\ t.typ = "at+jwt"
       /\ t.sig = SigningKey(Signing(stage)) \/ t.left + settled <= AccessTTL + 1

----------------------------------------------------------------------------
(* Keys                                                                    *)

(* A source that loads publishes the key it signs with. *)
LEMMA ActiveIsPublished ==
  ASSUME NEW s, ConfigureSigningKey(s)
  PROVE  SigningKey(s) \in KeySet(s)
<1>1. CASE s.bundle = Nil
  BY <1>1 DEF KeySet
<1>2. CASE s.bundle # Nil
  <2>1. PICK e \in Entries(s.bundle) : e.id = s.bundle.activeId /\ e.publish /\ e.key = s.bundle.active
    BY <1>2 DEF ConfigureSigningKey, ParseBundle
  <2> QED BY <1>2, <2>1 DEF KeySet, PublishedKeys, SigningKey, Signature
<1> QED BY <1>1, <1>2

(* What is published is good for hints. *)
LEMMA PublishedIsHint == ASSUME NEW s PROVE KeySet(s) \subseteq IDTokenHintKeySet(s)
BY DEF KeySet, PublishedKeys, IDTokenHintKeySet

(* A key the file marks for publication is in the set of /keys. *)
LEMMA PublicationIsDone ==
  ASSUME NEW s, NEW sig, Publishes(s, sig), sig = Signature(sig.kid, sig.key)
  PROVE  sig \in KeySet(s)
<1>1. PICK e \in Listed(s) : e.publish /\ e.id = sig.kid /\ e.key = sig.key
  BY DEF Publishes
<1>2. CASE s.bundle = Nil
  <2>1. e = Entry(LegacyKid, s.legacy, TRUE)
    BY <1>1, <1>2 DEF Listed
  <2> QED BY <1>1, <1>2, <2>1 DEF Entry, KeySet, SigningKey
<1>3. CASE s.bundle # Nil
  BY <1>1, <1>3 DEF Listed, KeySet, PublishedKeys
<1> QED BY <1>2, <1>3

(* The keys of a release that keeps to the runbook, as a process reads them. *)
LEMMA RunbookKeys ==
  ASSUME NEW pl, FollowsRunbook(pl), NEW i \in 1 .. Len(pl.releases) - 1,
         ConfigureSigningKey(pl.releases[i + 1].signing)
  PROVE  LET old == pl.releases[i].signing
             new == pl.releases[i + 1].signing
         IN  /\ SigningKey(old) \in KeySet(new) /\ SigningKey(new) \in KeySet(old)
             /\ IDTokenHintKeySet(old) \subseteq IDTokenHintKeySet(new)
<1> DEFINE old == pl.releases[i].signing
           new == pl.releases[i + 1].signing
<1>1. /\ Publishes(new, SigningKey(old)) /\ Publishes(old, SigningKey(new))
      /\ \A e \in Listed(old) : \E f \in Listed(new) : f.id = e.id /\ f.key = e.key
  BY DEF FollowsRunbook
<1> HIDE DEF old, new
<1>2. \A s : SigningKey(s) = Signature(SigningKey(s).kid, SigningKey(s).key)
  BY DEF SigningKey, Signature
<1>3. \A s : IDTokenHintKeySet(s) = {Signature(e.id, e.key) : e \in Listed(s)}
  <2> TAKE s
  <2>1. CASE s.bundle = Nil
    <3>1. Listed(s) = {Entry(LegacyKid, s.legacy, TRUE)}
      BY <2>1 DEF Listed
    <3>2. IDTokenHintKeySet(s) = {Signature(LegacyKid, s.legacy)}
      BY <2>1 DEF IDTokenHintKeySet, KeySet, SigningKey
    <3>3. Entry(LegacyKid, s.legacy, TRUE).id = LegacyKid /\ Entry(LegacyKid, s.legacy, TRUE).key = s.legacy
      BY DEF Entry
    <3> QED BY <3>1, <3>2, <3>3
  <2>2. CASE s.bundle # Nil
    BY <2>2 DEF IDTokenHintKeySet, Listed
  <2> QED BY <2>1, <2>2
<1>4. SigningKey(old) \in KeySet(new) /\ SigningKey(new) \in KeySet(old)
  BY <1>1, <1>2, PublicationIsDone
<1>5. IDTokenHintKeySet(old) \subseteq IDTokenHintKeySet(new)
  BY <1>1, <1>3
<1> QED BY <1>4, <1>5 DEF old, new

----------------------------------------------------------------------------
(* Types                                                                   *)

LEMMA PlanFacts ==
  ASSUME Typed
  PROVE  /\ plan \in Plans /\ Len(plan.releases) \in Nat \ {0} /\ AccessTTL \in Nat \ {0}
         /\ stage \in 1 .. Len(plan.releases) /\ stage \in Nat /\ settled \in Nat /\ refusedFor \in Nat
BY DeploymentConstants DEF Typed, TypeOK, AccessTTL

(* The plan is settled from the start, and with it every type. *)
LEMMA SameTypes ==
  ASSUME plan' = plan
  PROVE  /\ Process' = Process /\ Epoch' = Epoch /\ Login' = Login /\ Account' = Account
         /\ Signatures' = Signatures /\ Token' = Token /\ AccessTTL' = AccessTTL
         /\ Exchanges' = Exchanges
<1>1. Signatures' = Signatures /\ AccessTTL' = AccessTTL
  BY DEF Signatures, AccessTTL
<1> QED BY <1>1 DEF Process, Epoch, Login, Account, Token, Exchanges

LEMMA RootOfType ==
  ASSUME NEW x \in plan.roots, NEW d \in Domains
  PROVE  RootOf(x, d) \in Epoch /\ RootOf(x, d).domain = d
BY DEF RootOf, Epoch, Domains

LEMMA TypedInit == Init => Typed
<1> SUFFICES ASSUME Init PROVE Typed OBVIOUS
<1>1. /\ plan \in Plans /\ Len(plan.releases) \in Nat \ {0} /\ AccessTTL \in Nat \ {0}
      /\ stage \in 1 .. Len(plan.releases) /\ settled \in 0 .. AccessTTL + 1
      /\ refusedFor \in 0 .. AccessTTL
  BY DeploymentConstants DEF Init, AccessTTL
<1>2. /\ epochs \subseteq Epoch
      /\ \A e, f \in epochs : e # f => e.keyId # f.keyId /\ e.domain # f.domain
      /\ account \in Account \cup {Nil}
  <2>1. CASE plan.account = Nil
    BY <2>1 DEF Init
  <2>2. CASE plan.account # Nil
    <3>1. PICK x \in plan.roots : /\ epochs = {RootOf(x, d) : d \in Domains}
                                  /\ account = [subject |-> plan.account, roots |-> x]
      BY <2>2 DEF Init
    <3>2. x.encId # x.lookupId /\ plan.account \in Subjects(plan)
      BY <1>1, <2>2, StoredAccount
    <3>3. epochs = {RootOf(x, "enc"), RootOf(x, "lookup")}
      BY <3>1 DEF Domains
    <3>4. /\ RootOf(x, "enc") \in Epoch /\ RootOf(x, "lookup") \in Epoch
          /\ RootOf(x, "enc").keyId # RootOf(x, "lookup").keyId
          /\ RootOf(x, "enc").domain # RootOf(x, "lookup").domain
      BY <3>2, RootOfType DEF RootOf, Domains
    <3> QED BY <3>1, <3>2, <3>3, <3>4 DEF Account
  <2> QED BY <2>1, <2>2
<1>3. account # Nil => account.subject \in Subjects(plan) /\ account.roots \in plan.roots
  BY <1>2 DEF Account
<1> QED BY <1>1, <1>2, <1>3 DEF Init, Typed, TypeOK

----------------------------------------------------------------------------
(* What a step may do to processes and epochs                              *)

Started(r) ==
  \E i \in Current, x \in plan.roots :
    /\ ConfigureSigningKey(Signing(i))
    /\ replica'[r] = [pc |-> IF x = NoRoots THEN "clients" ELSE "get",
                      release |-> i, roots |-> x, domain |-> "enc"]

(* One check of the startup is passed. *)
Advances(r) ==
  LET p == replica[r]
      n == replica'[r]
  IN  /\ p \in Process /\ n \in Process /\ n.release = p.release /\ n.roots = p.roots
      /\ \/ p.pc = "get" /\ n.pc = "insert" /\ n.domain = p.domain
         \/ p.pc = "insert" /\ n.pc = "reload" /\ n.domain = p.domain
         \/ /\ p.pc \in {"get", "reload"} /\ p.domain = "enc" /\ Holds(p.roots, "enc")
            /\ n.pc = "get" /\ n.domain = "lookup"
         \/ /\ p.pc \in {"get", "reload"} /\ p.domain = "lookup" /\ Holds(p.roots, "lookup")
            /\ n.pc = "clients"
         \/ /\ p.pc = "clients" /\ n.pc = "serving"
            /\ LoadClientConfig(ReleaseOf(r).client, ReleaseOf(r).env.enableMCP)

Moves(r) ==
  /\ replica' \in [Replicas -> Process \cup {Down}]
  /\ \A q \in Replicas : q # r => replica'[q] = replica[q]
  /\ replica'[r] = Down \/ Started(r) \/ Advances(r)

LEMMA CurrentReleases == Typed => Current \subseteq 1 .. Len(plan.releases)
BY PlanFacts DEF Current

LEMMA StartMoves == ASSUME Typed, NEW r \in Replicas, Start(r) PROVE Moves(r)
<1>1. PICK i \in Current, x \in plan.roots :
        /\ ConfigureSigningKey(Signing(i))
        /\ replica' = [replica EXCEPT ![r] =
             [pc |-> IF x = NoRoots THEN "clients" ELSE "get",
              release |-> i, roots |-> x, domain |-> "enc"]]
  BY DEF Start, Current, Signing
<1> DEFINE p == [pc |-> IF x = NoRoots THEN "clients" ELSE "get",
                 release |-> i, roots |-> x, domain |-> "enc"]
<1>2. p \in Process
  BY CurrentReleases DEF Process, Domains
<1>3. Started(r)
  BY <1>1 DEF Started, Typed
<1> HIDE DEF p
<1>4. replica' = [replica EXCEPT ![r] = p]
  BY <1>1 DEF p
<1> QED BY <1>2, <1>3, <1>4 DEF Moves, Typed

LEMMA FatalMoves == ASSUME Typed, NEW r \in Replicas, Fatal(r) PROVE Moves(r)
BY DEF Fatal, Moves, Typed

LEMMA ProcessOf ==
  ASSUME Typed, NEW r \in Replicas, replica[r].pc # "down"
  PROVE  replica[r] \in Process
BY DEF Typed, Down

LEMMA CheckMoves ==
  ASSUME Typed, NEW r \in Replicas, replica[r].pc \in {"get", "reload"},
         NEW row \in ActiveEpochs(replica[r].domain), CheckEpoch(r, row)
  PROVE  Moves(r)
<1>0. replica[r] \in Process
  BY ProcessOf
<1>1. CASE row # RootOf(replica[r].roots, replica[r].domain)
  BY <1>1, FatalMoves DEF CheckEpoch
<1>2. CASE row = RootOf(replica[r].roots, replica[r].domain)
  <2>1. Holds(replica[r].roots, replica[r].domain)
    BY <1>2 DEF Holds, ActiveEpochs
  <2>2. replica[r].domain \in Domains
    BY <1>0 DEF Process
  <2>3. CASE replica[r].domain = "enc"
    <3> DEFINE n == [replica[r] EXCEPT !.pc = "get", !.domain = "lookup"]
    <3>1. /\ n \in Process /\ n.release = replica[r].release /\ n.roots = replica[r].roots
          /\ n.pc = "get" /\ n.domain = "lookup"
      BY <1>0 DEF Process, Domains
    <3>2. replica' = [replica EXCEPT ![r] = n]
      BY <1>2, <2>3 DEF CheckEpoch
    <3> HIDE DEF n
    <3>3. replica'[r] = n /\ replica' \in [Replicas -> Process \cup {Down}]
      BY <3>1, <3>2 DEF Typed
    <3>4. Advances(r)
      BY <1>0, <2>1, <2>3, <3>1, <3>3 DEF Advances
    <3> QED BY <3>2, <3>3, <3>4 DEF Moves, Typed
  <2>4. CASE replica[r].domain = "lookup"
    <3> DEFINE n == [replica[r] EXCEPT !.pc = "clients"]
    <3>1. /\ n \in Process /\ n.release = replica[r].release /\ n.roots = replica[r].roots
          /\ n.pc = "clients"
      BY <1>0 DEF Process, Domains
    <3>2. replica' = [replica EXCEPT ![r] = n]
      BY <1>2, <2>4 DEF CheckEpoch
    <3> HIDE DEF n
    <3>3. replica'[r] = n /\ replica' \in [Replicas -> Process \cup {Down}]
      BY <3>1, <3>2 DEF Typed
    <3>4. Advances(r)
      BY <1>0, <2>1, <2>4, <3>1, <3>3 DEF Advances
    <3> QED BY <3>2, <3>3, <3>4 DEF Moves, Typed
  <2> QED BY <2>2, <2>3, <2>4 DEF Domains
<1> QED BY <1>1, <1>2

LEMMA PhaseMoves ==
  ASSUME Typed, NEW r \in Replicas,
         NEW s \in {"insert", "reload", "serving"}, replica' = [replica EXCEPT ![r].pc = s],
         \/ replica[r].pc = "get" /\ s = "insert"
         \/ replica[r].pc = "insert" /\ s = "reload"
         \/ /\ replica[r].pc = "clients" /\ s = "serving"
            /\ LoadClientConfig(ReleaseOf(r).client, ReleaseOf(r).env.enableMCP)
  PROVE  Moves(r)
<1>0. replica[r] \in Process
  BY ProcessOf
<1> DEFINE n == [replica[r] EXCEPT !.pc = s]
<1>1. /\ n \in Process /\ n.release = replica[r].release /\ n.roots = replica[r].roots
      /\ n.pc = s /\ n.domain = replica[r].domain
  BY <1>0 DEF Process
<1>2. replica' = [replica EXCEPT ![r] = n]
  BY DEF Typed
<1> HIDE DEF n
<1>3. replica'[r] = n /\ replica' \in [Replicas -> Process \cup {Down}]
  BY <1>1, <1>2 DEF Typed
<1>4. Advances(r)
  BY <1>0, <1>1, <1>3 DEF Advances
<1> QED BY <1>2, <1>3, <1>4 DEF Moves, Typed

LEMMA StartupMoves == ASSUME Typed, NEW r \in Replicas, Startup(r) PROVE Moves(r)
<1>1. CASE GetActiveEpoch(r)
  BY <1>1, CheckMoves, PhaseMoves DEF GetActiveEpoch
<1>2. CASE InsertActiveEpoch(r)
  BY <1>2, PhaseMoves DEF InsertActiveEpoch
<1>3. CASE ReloadEpoch(r)
  BY <1>3, CheckMoves, FatalMoves DEF ReloadEpoch
<1>4. CASE LoadClients(r)
  BY <1>4, PhaseMoves, FatalMoves DEF LoadClients
<1> QED BY <1>1, <1>2, <1>3, <1>4, StartMoves, FatalMoves DEF Startup, Stop

(* Epochs are inserted under two unique indexes, and stay. *)
LEMMA EpochsGrow ==
  ASSUME Typed, NEW r \in Replicas, Startup(r)
  PROVE  /\ epochs \subseteq epochs' /\ epochs' \subseteq Epoch
         /\ \A e, f \in epochs' : e # f => e.keyId # f.keyId /\ e.domain # f.domain
<1>1. CASE epochs' = epochs
  BY <1>1 DEF Typed, TypeOK
<1>2. CASE InsertActiveEpoch(r)
  <2> DEFINE row == RootOf(replica[r].roots, replica[r].domain)
  <2>1. row \in Epoch
    BY <1>2, ProcessOf, RootOfType DEF InsertActiveEpoch, Process
  <2>2. epochs' = IF Conflicts(row) THEN epochs ELSE epochs \cup {row}
    BY <1>2 DEF InsertActiveEpoch
  <2> HIDE DEF row
  <2> QED BY <2>1, <2>2 DEF Conflicts, Typed, TypeOK
<1> QED BY <1>1, <1>2 DEF Startup, Start, GetActiveEpoch, ReloadEpoch, LoadClients, Stop

(* The rest of the step, seen from the processes. *)
LEMMA Elsewhere ==
  ASSUME [Next]_vars, ~ \E r \in Replicas : Startup(r)
  PROVE  replica' = replica /\ epochs' = epochs
BY DEF Next, Tick, vars, Step, Settle, RollOut, Logout, Reassert, Callback, Expire,
   UpstreamAnswers, HandleExistingSession, Authorize, AuthRequestByCode, ExchangeFails,
   CreateAccessAndRefreshTokens, End, Lapse, Refresh, facts, tokens

LEMMA PlanStays == [Next]_vars => plan' = plan
BY DEF Next, Tick, vars, Step, Settle, RollOut, Logout, Reassert, Callback, Expire,
   UpstreamAnswers, HandleExistingSession, Authorize, AuthRequestByCode, ExchangeFails,
   CreateAccessAndRefreshTokens, End, Lapse, Refresh,
   Startup, Start, GetActiveEpoch, InsertActiveEpoch, ReloadEpoch, LoadClients, Stop

(* Every step, seen from the processes. *)
LEMMA ProcessStep ==
  ASSUME Typed, [Next]_vars
  PROVE  /\ plan' = plan
         /\ replica' \in [Replicas -> Process \cup {Down}]
         /\ epochs \subseteq epochs' /\ epochs' \subseteq Epoch
         /\ \A e, f \in epochs' : e # f => e.keyId # f.keyId /\ e.domain # f.domain
         /\ \A r \in Replicas :
              replica'[r] = replica[r] \/ replica'[r] = Down \/ Started(r) \/ Advances(r)
<1>1. CASE \E r \in Replicas : Startup(r)
  BY <1>1, PlanStays, StartupMoves, EpochsGrow DEF Moves
<1>2. CASE ~ \E r \in Replicas : Startup(r)
  BY <1>2, PlanStays, Elsewhere DEF Typed, TypeOK
<1> QED BY <1>1, <1>2

----------------------------------------------------------------------------
(* What a step may do to the account                                       *)

(* A serving process has a client whose channel is one. *)
LEMMA ServedChannel ==
  ASSUME NEW r \in Serving, ProcessSound(r), Known(ReleaseOf(r))
  PROVE  ChannelOf(ReleaseOf(r).client) \in Channels
BY DEF Serving, ProcessSound, Known, LoadClientConfig, LoadEntry

LEMMA LoginOf ==
  ASSUME Typed, NEW b \in Browsers
  PROVE  /\ login[b].pc \in {"none", "open", "asserted", "code"}
         /\ login[b].pc = "open" => login[b].channel \in Channels /\ login[b].resource \in Bindings
         /\ login[b].pc = "asserted" =>
              /\ login[b].channel \in Channels /\ login[b].resource \in Bindings
              /\ login[b].info \in plan.assertions /\ login[b].at \in Replicas
         /\ login[b].pc = "code" =>
              /\ login[b].resource \in Bindings /\ login[b].by \in 1 .. Len(plan.releases)
              /\ login[b].hostedDomain \in {a.hostedDomain : a \in plan.assertions}
<1>1. login[b] \in Login \/ login[b] = NoLogin
  BY DEF Typed
<1>2. CASE login[b] = NoLogin
  BY <1>2 DEF NoLogin
<1>3. CASE login[b] \in Login
  BY <1>3 DEF Login
<1> QED BY <1>1, <1>2, <1>3

LEMMA ExchangeOf ==
  ASSUME Typed, NEW e \in exchanging
  PROVE  e.browser \in Browsers /\ e.at \in Replicas
BY DEF Typed, TypeOK, Exchanges

NewAccount ==
  \E a \in plan.assertions, r \in Serving :
    /\ account = Nil /\ replica[r].roots # NoRoots
    /\ account' = [subject |-> a, roots |-> replica[r].roots]
    /\ said' = a.hostedDomain

Recorded ==
  \E a \in plan.assertions :
    /\ account # Nil
    /\ account' = [account EXCEPT !.subject.hostedDomain = a.hostedDomain]
    /\ said' = a.hostedDomain

LEMMA AccountStep ==
  ASSUME Inv, [Next]_vars
  PROVE  UNCHANGED <<account, said>> \/ NewAccount \/ Recorded
<1>1. ASSUME NEW b \in Browsers, Callback(b) PROVE UNCHANGED <<account, said>> \/ NewAccount \/ Recorded
  <2>1. login[b].pc = "asserted" /\ login[b].at \in Serving /\ login[b].info \in plan.assertions
    BY <1>1, LoginOf DEF Callback, Inv, LoginSound
  <2>2. CASE CallbackRefused(b, login[b].at, login[b].info)
    BY <2>2 DEF CallbackRefused
  <2>3. CASE Acceptable(b, login[b].at) /\ Signup(b, login[b].at, login[b].info)
    BY <2>1, <2>3 DEF Acceptable, Signup, ApplyUserEncryption, NewAccount
  <2>4. CASE ExistingUser(b, login[b].at, login[b].info)
    BY <2>1, <2>4 DEF ExistingUser, GetUser, Recorded
  <2> QED BY <1>1, <2>2, <2>3, <2>4 DEF Callback
<1>2. ASSUME \E e \in exchanging : ExchangeFails(e) \/ CreateAccessAndRefreshTokens(e)
      PROVE  UNCHANGED <<account, said>>
  BY <1>2 DEF ExchangeFails, CreateAccessAndRefreshTokens
<1>3. ASSUME \E r \in Replicas : Startup(r) PROVE UNCHANGED <<account, said>>
  BY <1>3 DEF Startup, Start, GetActiveEpoch, InsertActiveEpoch, ReloadEpoch, LoadClients, Stop, facts
<1> QED BY <1>1, <1>2, <1>3 DEF Next, Tick, vars, Step, Settle, RollOut, Logout, Reassert, Expire,
      UpstreamAnswers, HandleExistingSession, Authorize, AuthRequestByCode, Lapse, Refresh, facts

LEMMA NilIsNoAccount == Typed => Nil \notin Account
BY PlanFacts, PlanShapes DEF Account

(* What is stored of the person, but for the hosted domain, is for ever. *)
LEMMA AccountMoves ==
  ASSUME Inv, [Next]_vars
  PROVE  /\ account' \in Account \cup {Nil}
         /\ account # Nil =>
              /\ account' # Nil /\ account'.roots = account.roots
              /\ \A hd : [account'.subject EXCEPT !.hostedDomain = hd]
                           = [account.subject EXCEPT !.hostedDomain = hd]
         /\ AccountSound'
<1>0. /\ Typed /\ plan' = plan /\ Nil \notin Account
      /\ \A x, d : Holds(x, d) => Holds(x, d)'
  BY ProcessStep, NilIsNoAccount DEF Inv, Holds, RootOf
<1>1. CASE UNCHANGED <<account, said>>
  BY <1>0, <1>1 DEF Inv, Typed, AccountSound, Holds, RootOf
<1>2. CASE NewAccount
  <2>1. PICK a \in plan.assertions, r \in Serving :
          /\ account = Nil /\ replica[r].roots # NoRoots
          /\ account' = [subject |-> a, roots |-> replica[r].roots]
          /\ said' = a.hostedDomain
    BY <1>2 DEF NewAccount
  <2>2. a \in Subjects(plan) /\ replica[r].roots \in plan.roots
    <3>1. a = [email |-> a.email, emailVerified |-> a.emailVerified, hostedDomain |-> a.hostedDomain]
          /\ a.emailVerified \in BOOLEAN
      BY <1>0, PlanFacts, PlanShapes DEF Subject
    <3>2. replica[r] \in Process
      BY <1>0, ProcessOf DEF Serving
    <3> QED BY <3>1, <3>2 DEF Subjects, Process
  <2>3. account' \in Account
    BY <2>1, <2>2 DEF Account
  <2>4. PICK x \in plan.roots : x = replica[r].roots
    BY <2>2
  <2>5. Holds(x, "enc") /\ Holds(x, "lookup")
    BY <2>1, <2>4 DEF Inv, ProcessSound, Serving
  <2>6. RootOf(account'.roots, "enc") \in epochs' /\ RootOf(account'.roots, "lookup") \in epochs'
    BY <1>0, <2>1, <2>4, <2>5, ProcessStep DEF Holds
  <2>7. account'.subject.hostedDomain = said'
    BY <2>1
  <2> QED BY <2>1, <2>3, <2>6, <2>7 DEF AccountSound, Holds, RootOf
<1>3. CASE Recorded
  <2>1. PICK a \in plan.assertions :
          /\ account # Nil
          /\ account' = [account EXCEPT !.subject.hostedDomain = a.hostedDomain]
          /\ said' = a.hostedDomain
    BY <1>3 DEF Recorded
  <2>2. account \in Account
    BY <1>0, <2>1 DEF Typed
  <2>3. /\ account'.roots = account.roots
        /\ account'.subject = [account.subject EXCEPT !.hostedDomain = a.hostedDomain]
        /\ account' = [subject |-> account'.subject, roots |-> account'.roots]
    BY <2>1, <2>2 DEF Account
  <2>4. account'.subject \in Subjects(plan) /\ account'.subject.hostedDomain = a.hostedDomain
    BY <2>2, <2>3 DEF Account, Subjects
  <2>5. account' \in Account /\ account' # Nil
    BY <1>0, <2>2, <2>3, <2>4 DEF Account
  <2>6. \A hd : [account'.subject EXCEPT !.hostedDomain = hd] = [account.subject EXCEPT !.hostedDomain = hd]
    BY <2>2, <2>3 DEF Account, Subjects
  <2> QED BY <1>0, <2>1, <2>3, <2>4, <2>5, <2>6 DEF Inv, AccountSound
<1> QED BY <1>1, <1>2, <1>3, AccountStep

----------------------------------------------------------------------------
(* Releases and processes                                                  *)

(* The release being rolled out changes only while no process moves. *)
LEMMA StageStep ==
  ASSUME Typed, [Next]_vars
  PROVE  /\ stage' \in 1 .. Len(plan.releases) /\ settled' \in 0 .. AccessTTL + 1
         /\ \/ UNCHANGED <<stage, settled>>
            \/ /\ UNCHANGED <<stage, replica, epochs>> /\ settled = 0 /\ settled' = 1
               /\ \A r \in Replicas : replica[r].pc = "serving" /\ replica[r].release = stage
            \/ /\ UNCHANGED <<stage, replica, epochs>> /\ settled > 0 /\ settled' > 0
            \/ UNCHANGED <<replica, epochs>> /\ settled > 0 /\ stage' = stage + 1 /\ settled' = 0
<1>0. /\ Len(plan.releases) \in Nat /\ AccessTTL \in Nat
      /\ stage \in 1 .. Len(plan.releases) /\ settled \in 0 .. AccessTTL + 1
  BY PlanFacts DEF Typed, TypeOK
<1>1. CASE UNCHANGED <<stage, settled>>
  BY <1>0, <1>1
<1>2. CASE Settle
  BY <1>0, <1>2 DEF Settle
<1>3. CASE RollOut
  BY <1>0, <1>3 DEF RollOut
<1>4. CASE Tick
  BY <1>0, <1>4 DEF Tick, Capped
<1> QED BY <1>1, <1>2, <1>3, <1>4 DEF Next, vars, Step, Logout, Reassert, Callback, Expire,
      UpstreamAnswers, HandleExistingSession, Authorize, AuthRequestByCode, ExchangeFails,
      CreateAccessAndRefreshTokens, End, Lapse, Refresh,
      Startup, Start, GetActiveEpoch, InsertActiveEpoch, ReloadEpoch, LoadClients, Stop

LEMMA StartupStays == ASSUME NEW r \in Replicas, Startup(r) PROVE UNCHANGED <<plan, stage, settled>>
BY DEF Startup, Start, GetActiveEpoch, InsertActiveEpoch, ReloadEpoch, LoadClients, Stop

LEMMA ProcessSoundStep ==
  ASSUME Typed, \A r \in Replicas : ProcessSound(r), [Next]_vars, NEW q \in Replicas
  PROVE  ProcessSound(q)'
<1>0. /\ plan' = plan
      /\ \A x, d : Holds(x, d) => Holds(x, d)'
  BY ProcessStep DEF Holds, RootOf
<1>1. CASE \E r \in Replicas : Startup(r)
  <2>1. Current' = Current /\ plan' = plan
    BY <1>1, StartupStays DEF Current
  <2>2. replica'[q] = replica[q] \/ replica'[q] = Down \/ Started(q) \/ Advances(q)
    BY <1>1, StartupMoves DEF Moves
  <2>3. CASE replica'[q] = replica[q]
    BY <1>0, <2>1, <2>3 DEF ProcessSound, ReleaseOf, Holds, RootOf
  <2>4. CASE replica'[q] = Down
    BY <2>4 DEF ProcessSound, Down
  <2>5. CASE Started(q)
    <3>1. PICK i \in Current, x \in plan.roots :
            /\ ConfigureSigningKey(Signing(i))
            /\ replica'[q] = [pc |-> IF x = NoRoots THEN "clients" ELSE "get",
                              release |-> i, roots |-> x, domain |-> "enc"]
      BY <2>5 DEF Started
    <3> QED BY <2>1, <3>1 DEF ProcessSound, ReleaseOf, Signing
  <2>6. CASE Advances(q)
    <3>1. PICK x \in plan.roots : x = replica[q].roots /\ replica'[q].roots = x
      BY <2>6 DEF Advances, Process
    <3>2. /\ replica[q].pc # "down" /\ replica'[q].release = replica[q].release
          /\ replica[q].domain \in Domains
      BY <2>6 DEF Advances, Process
    <3>3. /\ replica'[q].release \in Current' /\ ConfigureSigningKey(ReleaseOf(q).signing)'
      BY <2>1, <3>2 DEF ProcessSound, ReleaseOf
    <3>4. replica'[q].pc = "serving" =>
            LoadClientConfig(ReleaseOf(q).client, ReleaseOf(q).env.enableMCP)'
      BY <2>1, <2>6, <3>2 DEF Advances, ReleaseOf, LoadClientConfig, ValidateChannels
    <3>5. replica'[q].pc \in {"get", "insert", "reload"} /\ replica'[q].domain = "lookup" => Holds(x, "enc")
      BY <2>6, <3>1, <3>2 DEF Advances, ProcessSound
    <3>6. replica'[q].pc \in {"clients", "serving"} =>
            x = NoRoots \/ (Holds(x, "enc") /\ Holds(x, "lookup"))
      BY <2>6, <3>1, <3>2 DEF Advances, ProcessSound
    <3> QED BY <1>0, <3>1, <3>3, <3>4, <3>5, <3>6 DEF ProcessSound, Holds, RootOf
  <2> QED BY <2>2, <2>3, <2>4, <2>5, <2>6
<1>2. CASE ~ \E r \in Replicas : Startup(r)
  <2>1. replica' = replica /\ epochs' = epochs
    BY <1>2, Elsewhere
  <2>2. replica[q].pc # "down" => replica[q].release \in Current'
    BY StageStep, PlanFacts DEF Current, ProcessSound
  <2> QED BY <1>0, <2>1, <2>2 DEF ProcessSound, ReleaseOf, Holds, RootOf
<1> QED BY <1>1, <1>2

----------------------------------------------------------------------------
(* What a step may do to a login                                           *)

(* What a step may leave of a login it touches. *)
Proper(v) ==
  \/ v = NoLogin
  \/ \E c \in Channels, x \in Bindings : v = [pc |-> "open", channel |-> c, resource |-> x]
  \/ \E c \in Channels, x \in Bindings, a \in plan.assertions, r \in Serving :
       v = [pc |-> "asserted", channel |-> c, resource |-> x, info |-> a, at |-> r]
  \/ \E x \in Bindings, i \in 1 .. Len(plan.releases), a \in plan.assertions :
       /\ v = [pc |-> "code", resource |-> x, by |-> i, hostedDomain |-> a.hostedDomain]
       /\ account' # Nil
       /\ Allowed(Access(plan.releases[i]), [account'.subject EXCEPT !.hostedDomain = a.hostedDomain])

LEMMA ProperType == ASSUME NEW v, Proper(v) PROVE v \in Login \cup {NoLogin}
<1>1. ASSUME NEW c \in Channels, NEW x \in Bindings, v = [pc |-> "open", channel |-> c, resource |-> x]
      PROVE  v \in Login
  BY <1>1 DEF Login
<1>2. ASSUME NEW c \in Channels, NEW x \in Bindings, NEW a \in plan.assertions, NEW r \in Serving,
             v = [pc |-> "asserted", channel |-> c, resource |-> x, info |-> a, at |-> r]
      PROVE  v \in Login
  <2>1. r \in Replicas
    BY DEF Serving
  <2> QED BY <1>2, <2>1 DEF Login
<1>3. ASSUME NEW x \in Bindings, NEW i \in 1 .. Len(plan.releases), NEW a \in plan.assertions,
             v = [pc |-> "code", resource |-> x, by |-> i, hostedDomain |-> a.hostedDomain]
      PROVE  v \in Login
  BY <1>3 DEF Login
<1> QED BY <1>1, <1>2, <1>3 DEF Proper

LEMMA OpenedIsProper ==
  ASSUME NEW l, l.channel \in Channels, l.resource \in Bindings
  PROVE  Proper(Opened(l))
BY DEF Proper, Opened

LoginMoves ==
  /\ login' \in [Browsers -> Login \cup {NoLogin}]
  /\ \A b \in Browsers :
       \/ login'[b] = login[b] /\ (login[b].pc = "asserted" => login[b].at \in Serving')
       \/ Proper(login'[b]) /\ replica' = replica
       \/ login'[b] = Opened(login[b])

LEMMA PutMoves ==
  ASSUME Inv, NEW b \in Browsers, NEW v, Proper(v), login' = [login EXCEPT ![b] = v],
         replica' = replica
  PROVE  LoginMoves
<1>1. login \in [Browsers -> Login \cup {NoLogin}]
  BY DEF Inv, Typed
<1>2. login'[b] = v /\ \A c \in Browsers : c # b => login'[c] = login[c]
  BY <1>1
<1>3. Serving' = Serving
  BY DEF Serving
<1>4. \A c \in Browsers : login[c].pc = "asserted" => login[c].at \in Serving'
  BY <1>3 DEF Inv, LoginSound
<1>5. login' \in [Browsers -> Login \cup {NoLogin}]
  BY <1>1, ProperType
<1> QED BY <1>2, <1>4, <1>5 DEF LoginMoves

(* A process that serves leaves the set by Stop only, and its callbacks end with it. *)
LEMMA StartupLogin == ASSUME Inv, NEW r \in Replicas, Startup(r) PROVE LoginMoves
<1>0. /\ Typed /\ Moves(r)
      /\ \A b \in Browsers : login[b].pc = "asserted" => login[b].at \in Serving
      /\ login \in [Browsers -> Login \cup {NoLogin}]
  BY StartupMoves DEF Inv, LoginSound, Typed
<1>1. CASE login' = login /\ replica[r].pc # "serving"
  BY <1>0, <1>1 DEF LoginMoves, Moves, Serving
<1>2. CASE Stop(r)
  <2>1. \A b \in Browsers :
          login'[b] = IF login[b].pc = "asserted" /\ login[b].at = r THEN Opened(login[b]) ELSE login[b]
    BY <1>2 DEF Stop
  <2>2. \A b \in Browsers : login[b].pc = "asserted" => Opened(login[b]) \in Login
    BY <1>0, LoginOf DEF Opened, Login
  <2>3. login' \in [Browsers -> Login \cup {NoLogin}]
    BY <1>0, <1>2, <2>2 DEF Stop
  <2>4. \A q \in Serving : q # r => q \in Serving'
    BY <1>0 DEF Moves, Serving
  <2> QED BY <1>0, <2>1, <2>3, <2>4 DEF LoginMoves
<1>3. replica[r].pc # "serving" \/ Stop(r)
  BY DEF Startup, Start, GetActiveEpoch, InsertActiveEpoch, ReloadEpoch, LoadClients, Down
<1>4. login' = login \/ Stop(r)
  BY DEF Startup, Start, GetActiveEpoch, InsertActiveEpoch, ReloadEpoch, LoadClients, facts
<1> QED BY <1>1, <1>2, <1>3, <1>4

(* The release a process runs is one of the plan. *)
LEMMA RunningRelease ==
  ASSUME Inv, NEW r \in Serving
  PROVE  /\ r \in Replicas /\ replica[r].release \in 1 .. Len(plan.releases)
         /\ ReleaseOf(r) = plan.releases[replica[r].release]
BY ProcessOf DEF Serving, Inv, Process, ReleaseOf

LEMMA CallbackLogin == ASSUME Inv, [Next]_vars, NEW b \in Browsers, Callback(b) PROVE LoginMoves
<1>0. /\ login[b].pc = "asserted" /\ login[b].at \in Serving /\ login[b].info \in plan.assertions
      /\ login[b].channel \in Channels /\ login[b].resource \in Bindings /\ replica' = replica
  BY LoginOf DEF Callback, Inv, LoginSound
<1>1. CASE login' = [login EXCEPT ![b] = Opened(@)]
  <2>1. login' = [login EXCEPT ![b] = Opened(login[b])]
    BY <1>1
  <2> QED BY <1>0, <2>1, OpenedIsProper, PutMoves
<1>2. PICK r \in Serving, a \in plan.assertions : r = login[b].at /\ a = login[b].info
  BY <1>0
<1>3. PICK i \in 1 .. Len(plan.releases) : i = replica[r].release /\ ReleaseOf(r) = plan.releases[i]
  BY RunningRelease
<1>4. PICK x \in Bindings : x = login[b].resource
  BY <1>0
<1> DEFINE v == [pc |-> "code", resource |-> x, by |-> i, hostedDomain |-> a.hostedDomain]
<1>5. ASSUME login' = [login EXCEPT ![b] = Coded(@, i, a.hostedDomain)], account' # Nil,
             Allowed(Access(plan.releases[i]), [account'.subject EXCEPT !.hostedDomain = a.hostedDomain])
      PROVE  LoginMoves
  <2>1. Proper(v)
    BY <1>5 DEF Proper
  <2>2. login' = [login EXCEPT ![b] = v]
    BY <1>4, <1>5 DEF Coded
  <2> HIDE DEF v
  <2> QED BY <1>0, <2>1, <2>2, PutMoves
<1>6. CASE Signup(b, r, a)
  <2>1. account' = [subject |-> a, roots |-> replica[r].roots] /\ Allowed(Access(plan.releases[i]), a)
    BY <1>3, <1>6 DEF Signup, ApplyUserEncryption
  <2>2. a = [a EXCEPT !.hostedDomain = a.hostedDomain]
    BY PlanFacts, PlanShapes DEF Inv, Subject
  <2>3. account' # Nil
    <3>1. a \in Subjects(plan)
      <4>1. a = [email |-> a.email, emailVerified |-> a.emailVerified, hostedDomain |-> a.hostedDomain]
            /\ a.emailVerified \in BOOLEAN
        BY PlanFacts, PlanShapes DEF Inv, Subject
      <4> QED BY <4>1 DEF Subjects
    <3>2. replica[r].roots \in plan.roots
      BY ProcessOf DEF Inv, Serving, Process
    <3> QED BY <2>1, <3>1, <3>2, NilIsNoAccount DEF Account, Inv
  <2> QED BY <1>3, <1>5, <1>6, <2>1, <2>2, <2>3 DEF Signup
<1>7. CASE ExistingUser(b, r, a) /\ CheckExistingAccountAccess(Access(ReleaseOf(r)), account.subject, a)
  <2>1. Allowed(Access(plan.releases[i]), [account.subject EXCEPT !.hostedDomain = a.hostedDomain])
    BY <1>3, <1>7 DEF CheckExistingAccountAccess
  <2>2. account' # Nil /\ [account'.subject EXCEPT !.hostedDomain = a.hostedDomain]
                            = [account.subject EXCEPT !.hostedDomain = a.hostedDomain]
    BY <1>7, AccountMoves DEF ExistingUser, GetUser
  <2> QED BY <1>3, <1>5, <1>7, <2>1, <2>2 DEF ExistingUser
<1> QED BY <1>1, <1>2, <1>6, <1>7 DEF Callback, CallbackRefused, ExistingUser

LEMMA LoginStep == ASSUME Inv, [Next]_vars PROVE LoginMoves
<1>1. ASSUME NEW r \in Replicas, NEW b \in Browsers, NEW x \in Bindings, Authorize(r, b, x)
      PROVE  LoginMoves
  <2> DEFINE v == Opened([channel |-> ChannelOf(ReleaseOf(r).client), resource |-> x])
  <2>1. ChannelOf(ReleaseOf(r).client) \in Channels
    BY <1>1, ServedChannel DEF Authorize, Inv
  <2>2. Proper(v)
    BY <2>1, OpenedIsProper
  <2>3. login' = [login EXCEPT ![b] = v] /\ replica' = replica
    BY <1>1 DEF Authorize
  <2> HIDE DEF v
  <2> QED BY <2>2, <2>3, PutMoves
<1>2. ASSUME NEW r \in Replicas, NEW b \in Browsers, UpstreamAnswers(r, b) PROVE LoginMoves
  <2> DEFINE v == [pc |-> "asserted", channel |-> login[b].channel, resource |-> login[b].resource,
                   info |-> idp, at |-> r]
  <2>1. /\ r \in Serving /\ login[b].channel \in Channels /\ login[b].resource \in Bindings
        /\ idp \in plan.assertions
    BY <1>2, LoginOf DEF UpstreamAnswers, Inv, Typed, TypeOK
  <2>2. Proper(v)
    BY <2>1 DEF Proper
  <2>3. login' = [login EXCEPT ![b] = v] /\ replica' = replica
    BY <1>2 DEF UpstreamAnswers
  <2> HIDE DEF v
  <2> QED BY <2>2, <2>3, PutMoves
<1>3. ASSUME NEW r \in Replicas, NEW b \in Browsers, HandleExistingSession(r, b) PROVE LoginMoves
  <2>1. /\ r \in Serving /\ login[b].pc = "open" /\ account # Nil
        /\ Allowed(Access(ReleaseOf(r)), account.subject) /\ account' = account /\ replica' = replica
        /\ login' = [login EXCEPT ![b] = Coded(@, replica[r].release, account.subject.hostedDomain)]
    BY <1>3 DEF HandleExistingSession, GetUser
  <2>2. PICK i \in 1 .. Len(plan.releases) : i = replica[r].release /\ ReleaseOf(r) = plan.releases[i]
    BY <2>1, RunningRelease
  <2>3. PICK x \in Bindings : x = login[b].resource
    BY <2>1, LoginOf DEF Inv
  <2>4. account.subject \in Subjects(plan)
    BY <2>1 DEF Inv, Typed, TypeOK
  <2>5. PICK a \in plan.assertions : a.hostedDomain = account.subject.hostedDomain
    BY <2>4 DEF Subjects
  <2>6. [account'.subject EXCEPT !.hostedDomain = a.hostedDomain] = account.subject
    BY <2>1, <2>4, <2>5 DEF Subjects
  <2> DEFINE v == [pc |-> "code", resource |-> x, by |-> i, hostedDomain |-> a.hostedDomain]
  <2>7. Proper(v)
    BY <2>1, <2>2, <2>6 DEF Proper
  <2>8. login' = [login EXCEPT ![b] = v]
    BY <2>1, <2>2, <2>3, <2>5 DEF Coded
  <2> HIDE DEF v
  <2> QED BY <2>1, <2>7, <2>8, PutMoves
<1>4. ASSUME NEW b \in Browsers, login' = [login EXCEPT ![b] = NoLogin], replica' = replica
      PROVE  LoginMoves
  BY <1>4, PutMoves DEF Proper
<1>5. ASSUME NEW b \in Browsers, Expire(b) PROVE LoginMoves
  BY <1>4, <1>5 DEF Expire, End
<1>6. ASSUME NEW e \in exchanging, CreateAccessAndRefreshTokens(e) PROVE LoginMoves
  BY <1>4, <1>6, ExchangeOf DEF CreateAccessAndRefreshTokens, End, Inv
<1>7. CASE login' = login /\ replica' = replica
  BY <1>7 DEF LoginMoves, Inv, Typed, LoginSound, Serving
<1>8. ASSUME NEW x \in Bindings, Lapse(x) PROVE login' = login /\ replica' = replica
  BY <1>8 DEF Lapse
<1>9. ASSUME NEW r \in Replicas, NEW x \in Bindings, NEW y \in Bindings, Refresh(r, x, y)
      PROVE  login' = login /\ replica' = replica
  BY <1>9 DEF Refresh, facts
<1>10. ASSUME Tick \/ UNCHANGED vars \/ Settle \/ RollOut \/ Logout \/ (\E a \in plan.assertions : Reassert(a))
       PROVE  login' = login /\ replica' = replica
  BY <1>10 DEF Tick, vars, Settle, RollOut, Logout, Reassert, facts
<1>11. ASSUME \/ \E r \in Replicas, b \in Browsers, x \in Bindings : AuthRequestByCode(r, b, x)
              \/ \E e \in exchanging : ExchangeFails(e)
       PROVE  login' = login /\ replica' = replica
  BY <1>11 DEF AuthRequestByCode, ExchangeFails
<1> QED BY <1>1, <1>2, <1>3, <1>5, <1>6, <1>7, <1>8, <1>9, <1>10, <1>11, StartupLogin, CallbackLogin
           DEF Next, Step

LEMMA LoginSoundStep ==
  ASSUME Inv, [Next]_vars, NEW b \in Browsers
  PROVE  LoginSound(b)'
<1>0. plan' = plan /\ LoginMoves
  BY LoginStep, ProcessStep DEF Inv
<1>1. CASE login'[b] = login[b] /\ (login[b].pc = "asserted" => login[b].at \in Serving')
  <2>1. ASSUME login[b].pc = "code"
        PROVE  /\ account' # Nil
               /\ Allowed(Access(plan.releases[login[b].by]),
                          [account'.subject EXCEPT !.hostedDomain = login[b].hostedDomain])
    <3>1. PICK hd : hd = login[b].hostedDomain
      OBVIOUS
    <3>2. account # Nil /\ Allowed(Access(plan.releases[login[b].by]), [account.subject EXCEPT !.hostedDomain = hd])
      BY <2>1, <3>1 DEF Inv, LoginSound
    <3>3. account' # Nil /\ [account'.subject EXCEPT !.hostedDomain = hd] = [account.subject EXCEPT !.hostedDomain = hd]
      BY <3>2, AccountMoves
    <3> QED BY <3>1, <3>2, <3>3
  <2> QED BY <1>0, <1>1, <2>1 DEF LoginSound
<1>2. CASE Proper(login'[b]) /\ replica' = replica
  <2>1. Serving' = Serving
    BY <1>2 DEF Serving
  <2>2. ASSUME NEW x \in Bindings, NEW i \in 1 .. Len(plan.releases), NEW a \in plan.assertions,
               login'[b] = [pc |-> "code", resource |-> x, by |-> i, hostedDomain |-> a.hostedDomain],
               account' # Nil,
               Allowed(Access(plan.releases[i]), [account'.subject EXCEPT !.hostedDomain = a.hostedDomain])
        PROVE  LoginSound(b)'
    <3>1. login'[b].pc = "code" /\ login'[b].by = i /\ login'[b].hostedDomain = a.hostedDomain
      BY <2>2
    <3> QED BY <1>0, <2>2, <3>1 DEF LoginSound
  <2>3. ASSUME NEW c \in Channels, NEW x \in Bindings, NEW a \in plan.assertions, NEW r \in Serving,
               login'[b] = [pc |-> "asserted", channel |-> c, resource |-> x, info |-> a, at |-> r]
        PROVE  LoginSound(b)'
    BY <2>1, <2>3 DEF LoginSound
  <2>4. login'[b].pc \in {"none", "open"} => LoginSound(b)'
    BY DEF LoginSound
  <2>5. login'[b] = NoLogin => LoginSound(b)'
    BY <2>4 DEF NoLogin
  <2>6. ASSUME NEW c \in Channels, NEW x \in Bindings,
               login'[b] = [pc |-> "open", channel |-> c, resource |-> x]
        PROVE  LoginSound(b)'
    BY <2>4, <2>6
  <2> QED BY <1>2, <2>2, <2>3, <2>5, <2>6 DEF Proper
<1>3. CASE login'[b] = Opened(login[b])
  BY <1>3 DEF Opened, LoginSound
<1> QED BY <1>0, <1>1, <1>2, <1>3 DEF LoginMoves

----------------------------------------------------------------------------
(* What a step may do to exchanges                                         *)

(* An exchange that goes on keeps its code and its process. *)
Continues(e) ==
  /\ e \in exchanging /\ login'[e.browser] = login[e.browser]
  /\ e.at \in Serving' /\ replica'[e.at] = replica[e.at]

(* An exchange that has just been allowed. *)
Admitted(e) ==
  \E r \in Serving, b \in Browsers, x \in Bindings :
    /\ e = [browser |-> b, at |-> r, hostedDomain |-> account.subject.hostedDomain]
    /\ AuthRequestByCode(r, b, x)

LEMMA ExchangeMoves ==
  ASSUME Inv, [Next]_vars, NEW e \in exchanging'
  PROVE  Continues(e) \/ Admitted(e)
<1>0. /\ Typed /\ login \in [Browsers -> Login \cup {NoLogin}]
      /\ \A f \in exchanging : /\ f.at \in Serving /\ f.at \in Replicas /\ f.browser \in Browsers
                               /\ login[f.browser].pc = "code"
  BY ExchangeOf DEF Inv, Typed, ExchangeSound
<1>1. CASE exchanging' \subseteq exchanging /\ login' = login /\ replica' = replica
  BY <1>0, <1>1 DEF Continues, Serving
<1>2. ASSUME NEW b \in Browsers, NEW v, login' = [login EXCEPT ![b] = v], replica' = replica,
             exchanging' \subseteq exchanging, e.browser # b
      PROVE  Continues(e)
  BY <1>0, <1>2 DEF Continues, Serving
<1>3. ASSUME NEW r \in Replicas, NEW b \in Browsers, NEW x \in Bindings, AuthRequestByCode(r, b, x)
      PROVE  Continues(e) \/ Admitted(e)
  <2>1. CASE e \in exchanging
    BY <1>0, <1>3, <2>1 DEF AuthRequestByCode, Continues, Serving
  <2>2. CASE e \notin exchanging
    BY <1>3, <2>2 DEF AuthRequestByCode, Admitted
  <2> QED BY <2>1, <2>2
<1>4. ASSUME NEW b \in Browsers, End(b), replica' = replica PROVE Continues(e)
  BY <1>2, <1>4 DEF End
<1>5. ASSUME NEW f \in exchanging, CreateAccessAndRefreshTokens(f) \/ ExchangeFails(f) PROVE Continues(e)
  <2>1. CASE CreateAccessAndRefreshTokens(f)
    BY <1>0, <1>4, <2>1 DEF CreateAccessAndRefreshTokens
  <2>2. CASE ExchangeFails(f)
    BY <1>0, <2>2 DEF ExchangeFails, Continues, Serving
  <2> QED BY <1>5, <2>1, <2>2
<1>6. ASSUME NEW b \in Browsers, NEW v, login' = [login EXCEPT ![b] = v], replica' = replica,
             exchanging' = exchanging, login[b].pc # "code"
      PROVE  Continues(e)
  BY <1>0, <1>2, <1>6
<1>7. ASSUME NEW b \in Browsers, Callback(b) PROVE Continues(e)
  <2>1. login[b].pc # "code" /\ exchanging' = exchanging /\ replica' = replica
    BY <1>7 DEF Callback
  <2>2. \E v : login' = [login EXCEPT ![b] = v]
    <3>1. \/ CallbackRefused(b, login[b].at, login[b].info) \/ Signup(b, login[b].at, login[b].info)
          \/ ExistingUser(b, login[b].at, login[b].info)
      BY <1>7 DEF Callback
    <3>2. \/ login' = [login EXCEPT ![b] = Opened(@)]
          \/ login' = [login EXCEPT ![b] = Coded(@, replica[login[b].at].release, login[b].info.hostedDomain)]
      BY <3>1 DEF CallbackRefused, Signup, ExistingUser
    <3> QED BY <3>2
  <2> QED BY <1>6, <2>1, <2>2
<1>8. ASSUME NEW r \in Replicas, NEW b \in Browsers, NEW x \in Bindings, Authorize(r, b, x) PROVE Continues(e)
  <2>1. login[b].pc # "code" /\ exchanging' = exchanging /\ replica' = replica
    BY <1>8 DEF Authorize, NoLogin
  <2>2. \E v : login' = [login EXCEPT ![b] = v]
    BY <1>8 DEF Authorize
  <2> QED BY <1>6, <2>1, <2>2
<1>9. ASSUME NEW r \in Replicas, NEW b \in Browsers, UpstreamAnswers(r, b) PROVE Continues(e)
  <2>1. login[b].pc # "code" /\ exchanging' = exchanging /\ replica' = replica
    BY <1>9 DEF UpstreamAnswers
  <2>2. \E v : login' = [login EXCEPT ![b] = v]
    BY <1>9 DEF UpstreamAnswers
  <2> QED BY <1>6, <2>1, <2>2
<1>10. ASSUME NEW r \in Replicas, NEW b \in Browsers, HandleExistingSession(r, b) PROVE Continues(e)
  <2>1. login[b].pc # "code" /\ exchanging' = exchanging /\ replica' = replica
    BY <1>10 DEF HandleExistingSession
  <2>2. \E v : login' = [login EXCEPT ![b] = v]
    BY <1>10 DEF HandleExistingSession
  <2> QED BY <1>6, <2>1, <2>2
<1>11. ASSUME NEW r \in Replicas, Startup(r) PROVE Continues(e)
  <2>1. CASE Stop(r)
    <3>1. e \in exchanging /\ e.at # r
      BY <2>1 DEF Stop
    <3>2. login'[e.browser] = login[e.browser]
      BY <1>0, <2>1, <3>1 DEF Stop
    <3>3. replica'[e.at] = replica[e.at]
      BY <1>0, <2>1, <3>1 DEF Stop, Fatal, Typed
    <3> QED BY <1>0, <3>1, <3>2, <3>3 DEF Continues, Serving
  <2>2. CASE ~ Stop(r)
    <3>1. exchanging' = exchanging /\ login' = login /\ replica[r].pc # "serving"
      BY <1>11, <2>2 DEF Startup, Start, GetActiveEpoch, InsertActiveEpoch, ReloadEpoch, LoadClients, Down, facts
    <3>2. Moves(r)
      BY <1>0, <1>11, StartupMoves
    <3>3. e.at # r /\ e.at \in Replicas
      BY <1>0, <3>1 DEF Serving
    <3>4. replica'[e.at] = replica[e.at]
      BY <3>2, <3>3 DEF Moves
    <3> QED BY <1>0, <3>1, <3>3, <3>4 DEF Continues, Serving
  <2> QED BY <2>1, <2>2
<1>12. ASSUME NEW b \in Browsers, Expire(b) PROVE Continues(e)
  BY <1>4, <1>12 DEF Expire
<1>13. ASSUME \/ Tick \/ UNCHANGED vars \/ Settle \/ RollOut \/ Logout
              \/ \E a \in plan.assertions : Reassert(a)
              \/ \E x \in Bindings : Lapse(x)
              \/ \E r \in Replicas, x \in Bindings, y \in Bindings : Refresh(r, x, y)
       PROVE  exchanging' = exchanging /\ login' = login /\ replica' = replica
  BY <1>13 DEF Tick, vars, Settle, RollOut, Logout, Reassert, Lapse, Refresh, facts
<1> QED BY <1>1, <1>3, <1>5, <1>7, <1>8, <1>9, <1>10, <1>11, <1>12, <1>13 DEF Next, Step

LEMMA ExchangeSoundStep ==
  ASSUME Inv, [Next]_vars, NEW e \in exchanging'
  PROVE  ExchangeSound(e)'
<1>0. plan' = plan /\ Typed
  BY ProcessStep DEF Inv
<1>1. CASE Continues(e)
  <2>1. ReleaseOf(e.at)' = ReleaseOf(e.at) /\ ExchangeSound(e)
    BY <1>0, <1>1 DEF Continues, ReleaseOf, Inv
  <2>2. PICK hd : hd = e.hostedDomain
    OBVIOUS
  <2>3. account' # Nil /\ [account'.subject EXCEPT !.hostedDomain = hd] = [account.subject EXCEPT !.hostedDomain = hd]
    BY <2>1, AccountMoves DEF ExchangeSound
  <2> QED BY <1>1, <2>1, <2>2, <2>3 DEF Continues, ExchangeSound
<1>2. CASE Admitted(e)
  <2>1. PICK r \in Serving, b \in Browsers, x \in Bindings :
          /\ e = [browser |-> b, at |-> r, hostedDomain |-> account.subject.hostedDomain]
          /\ AuthRequestByCode(r, b, x)
    BY <1>2 DEF Admitted
  <2>2. /\ Known(ReleaseOf(r)) /\ account # Nil /\ login[b].pc = "code"
        /\ ReleaseOf(r).env.enableMCP /\ login[b].resource # NoResource => ChannelOf(ReleaseOf(r).client) = "mcp"
        /\ Allowed(Access(ReleaseOf(r)), account.subject)
        /\ UNCHANGED <<replica, account, login>>
    BY <2>1 DEF AuthRequestByCode, GetUser, ValidateTokenRequest, EnforceStaticClientAccess
  <2>3. account.subject \in Subjects(plan)
    BY <1>0, <2>2 DEF Typed, TypeOK
  <2>4. [account.subject EXCEPT !.hostedDomain = account.subject.hostedDomain] = account.subject
    BY <2>3 DEF Subjects
  <2>5. Serving' = Serving /\ ReleaseOf(r)' = ReleaseOf(r)
    BY <1>0, <2>2 DEF Serving, ReleaseOf
  <2>6. e.at = r /\ e.browser = b /\ e.hostedDomain = account.subject.hostedDomain
    BY <2>1
  <2> QED BY <2>2, <2>4, <2>5, <2>6 DEF ExchangeSound
<1> QED BY <1>1, <1>2, ExchangeMoves

LEMMA ExchangeTypes == ASSUME Inv, [Next]_vars PROVE exchanging' \subseteq Exchanges
<1> SUFFICES ASSUME NEW e \in exchanging' PROVE e \in Exchanges OBVIOUS
<1>1. CASE Continues(e)
  BY <1>1 DEF Continues, Inv, Typed, TypeOK
<1>2. CASE Admitted(e)
  <2>1. PICK r \in Serving, b \in Browsers :
          /\ e = [browser |-> b, at |-> r, hostedDomain |-> account.subject.hostedDomain]
          /\ account # Nil
    BY <1>2 DEF Admitted, AuthRequestByCode, GetUser
  <2>2. account.subject \in Subjects(plan) /\ r \in Replicas
    BY <2>1 DEF Inv, Typed, TypeOK, Serving
  <2> QED BY <2>1, <2>2 DEF Subjects, Exchanges
<1> QED BY <1>1, <1>2, ExchangeMoves

----------------------------------------------------------------------------
(* What a step may do to the tokens                                        *)

(* Process r issues a token of full lifetime, for the account as stored,   *)
(* or as an exchange under way has seen it.                                *)
Mints(r) ==
  /\ r \in Serving /\ Known(ReleaseOf(r)) /\ account # Nil
  /\ \E hd \in {said} \cup {e.hostedDomain : e \in exchanging} :
       Allowed(Access(ReleaseOf(r)), [account.subject EXCEPT !.hostedDomain = hd])
  /\ \E x \in Bindings, c \in Channels \cup {"any"} :
       /\ c = "browser" => x = NoResource
       /\ live' \subseteq live \cup {[sig |-> SigningKey(ReleaseOf(r).signing), typ |-> "at+jwt",
                                      audience |-> x, channel |-> c, left |-> AccessTTL]}
  /\ signed' = signed \cup {SigningKey(ReleaseOf(r).signing)}
  /\ UNCHANGED <<stage, settled, replica, account, said>>

LEMMA SaidIsStored ==
  ASSUME Inv, account # Nil
  PROVE  [account.subject EXCEPT !.hostedDomain = said] = account.subject
<1>1. account.subject \in Subjects(plan) /\ account.subject.hostedDomain = said
  BY DEF Inv, Typed, TypeOK, AccountSound
<1> QED BY <1>1 DEF Subjects

LEMMA IssueMints ==
  ASSUME Inv, NEW r \in Serving, NEW x \in Bindings, Known(ReleaseOf(r)), account # Nil,
         NEW hd \in {said} \cup {e.hostedDomain : e \in exchanging},
         Allowed(Access(ReleaseOf(r)), [account.subject EXCEPT !.hostedDomain = hd]),
         ReleaseOf(r).env.enableMCP /\ x # NoResource => ChannelOf(ReleaseOf(r).client) = "mcp",
         Issue(r, x),
         UNCHANGED <<stage, settled, replica, account, said>>
  PROVE  Mints(r)
<1> DEFINE sk == SigningKey(ReleaseOf(r).signing)
           c  == IF ReleaseOf(r).env.enableMCP THEN ChannelOf(ReleaseOf(r).client) ELSE "any"
           raw == [sig |-> sk, typ |-> "JWT", audience |-> x, channel |-> c, left |-> AccessTTL]
           token == [sig |-> sk, typ |-> "at+jwt", audience |-> x, channel |-> c, left |-> AccessTTL]
<1>1. ChannelOf(ReleaseOf(r).client) \in Channels
  BY ServedChannel DEF Inv, Serving
<1>2. c \in Channels \cup {"any"}
  BY <1>1
<1>3. c = "browser" => x = NoResource
  BY <1>1
<1>4. UpgradeAccessTokenTyp(raw, sk) = token
  BY DEF UpgradeAccessTokenTyp
<1>5. live' \subseteq live \cup {token} /\ signed' = signed \cup {sk}
  BY <1>4 DEF Issue
<1> QED BY <1>2, <1>3, <1>5 DEF Mints

LEMMA TokenStep ==
  ASSUME Inv, [Next]_vars
  PROVE  UNCHANGED <<live, signed>> \/ Tick \/ \E r \in Replicas : Mints(r)
<1>1. ASSUME NEW e \in exchanging, CreateAccessAndRefreshTokens(e) PROVE Mints(e.at)
  <2>1. ExchangeSound(e) /\ login[e.browser].resource \in Bindings
    BY LoginOf, ExchangeOf DEF Inv, ExchangeSound
  <2>2. PICK r \in Serving, x \in Bindings, hd \in {said} \cup {f.hostedDomain : f \in exchanging} :
          r = e.at /\ x = login[e.browser].resource /\ hd = e.hostedDomain
    BY <2>1 DEF ExchangeSound
  <2> QED BY <1>1, <2>1, <2>2, IssueMints DEF ExchangeSound, CreateAccessAndRefreshTokens
<1>2. ASSUME NEW r \in Replicas, NEW x \in Bindings, NEW y \in Bindings, Refresh(r, x, y)
      PROVE  Mints(r)
  <2>1. /\ r \in Serving /\ Known(ReleaseOf(r)) /\ account # Nil
        /\ Allowed(Access(ReleaseOf(r)), account.subject)
        /\ ReleaseOf(r).env.enableMCP /\ x # NoResource => ChannelOf(ReleaseOf(r).client) = "mcp"
        /\ Issue(r, x) /\ UNCHANGED <<stage, settled, replica, account, said>>
    BY <1>2 DEF Refresh, ValidateRefreshTokenRequest, ValidateTokenRequest,
       EnforceStaticClientAccess, GetUser, facts
  <2>2. [account.subject EXCEPT !.hostedDomain = said] = account.subject
    BY <2>1, SaidIsStored
  <2> QED BY <2>1, <2>2, IssueMints
<1>3. \A e \in exchanging : e.at \in Replicas
  BY ExchangeOf DEF Inv
<1>4. ASSUME \E e \in exchanging : ExchangeFails(e) PROVE UNCHANGED <<live, signed>>
  BY <1>4 DEF ExchangeFails, tokens
<1>5. ASSUME \E r \in Replicas : Startup(r) PROVE UNCHANGED <<live, signed>>
  BY <1>5 DEF Startup, Start, GetActiveEpoch, InsertActiveEpoch, ReloadEpoch, LoadClients, Stop, tokens
<1>6. ASSUME NEW b \in Browsers,
             \/ Callback(b) \/ Expire(b)
             \/ \E r \in Replicas :
                  \/ UpstreamAnswers(r, b) \/ HandleExistingSession(r, b)
                  \/ \E x \in Bindings : Authorize(r, b, x) \/ AuthRequestByCode(r, b, x)
      PROVE  UNCHANGED <<live, signed>>
  BY <1>6 DEF Callback, Expire, UpstreamAnswers, HandleExistingSession, Authorize, AuthRequestByCode, tokens
<1>7. ASSUME \/ UNCHANGED vars \/ Settle \/ RollOut \/ Logout
             \/ (\E a \in plan.assertions : Reassert(a)) \/ \E x \in Bindings : Lapse(x)
      PROVE  UNCHANGED <<live, signed>>
  BY <1>7 DEF vars, Settle, RollOut, Logout, Reassert, Lapse, tokens
<1> QED BY <1>1, <1>2, <1>3, <1>4, <1>5, <1>6, <1>7 DEF Next, Step

LEMMA TickTokens ==
  ASSUME Typed, Tick, NEW t \in live'
  PROVE  /\ t \in Token
         /\ \E u \in live : /\ u.left \in Nat /\ u.left > 1 /\ t.left = u.left - 1
                            /\ t.sig = u.sig /\ t.typ = u.typ
                            /\ t.audience = u.audience /\ t.channel = u.channel
<1>1. PICK u \in live : u.left > 1 /\ t = [u EXCEPT !.left = u.left - 1]
  BY DEF Tick
<1>2. u \in Token /\ AccessTTL \in Nat
  BY PlanFacts DEF Typed, TypeOK
<1>3. u.left \in 1 .. AccessTTL
  BY <1>2 DEF Token
<1>4. u.left - 1 \in 1 .. AccessTTL
  BY <1>1, <1>2, <1>3
<1>5. /\ t.left = u.left - 1 /\ t.sig = u.sig /\ t.typ = u.typ
      /\ t.audience = u.audience /\ t.channel = u.channel /\ t \in Token
  BY <1>1, <1>2, <1>4 DEF Token
<1> QED BY <1>1, <1>2, <1>3, <1>5

LEMMA SigningSignature ==
  ASSUME Inv, NEW r \in Serving
  PROVE  SigningKey(ReleaseOf(r).signing) \in Signatures
<1>1. PICK i \in 1 .. Len(plan.releases) : ReleaseOf(r) = plan.releases[i]
  BY RunningRelease
<1>2. ConfigureSigningKey(ReleaseOf(r).signing)
  BY DEF Inv, ProcessSound, Serving
<1>3. SigningKey(ReleaseOf(r).signing) \in IDTokenHintKeySet(plan.releases[i].signing)
  BY <1>1, <1>2, ActiveIsPublished, PublishedIsHint
<1> QED BY <1>3 DEF Signatures

LEMMA TokenTypes ==
  ASSUME Inv, [Next]_vars
  PROVE  live' \subseteq Token /\ signed' \subseteq Signatures
<1>0. live \subseteq Token /\ signed \subseteq Signatures /\ AccessTTL \in Nat \ {0}
  BY PlanFacts DEF Inv, Typed, TypeOK
<1>1. CASE UNCHANGED <<live, signed>>
  BY <1>0, <1>1
<1>2. CASE Tick
  BY <1>0, <1>2, TickTokens DEF Inv, Tick
<1>3. ASSUME NEW r \in Replicas, Mints(r) PROVE live' \subseteq Token /\ signed' \subseteq Signatures
  <2>1. PICK sk \in Signatures : sk = SigningKey(ReleaseOf(r).signing)
    BY <1>3, SigningSignature DEF Mints
  <2>2. PICK x \in Bindings, c \in Channels \cup {"any"} :
          live' \subseteq live \cup {[sig |-> sk, typ |-> "at+jwt", audience |-> x,
                                      channel |-> c, left |-> AccessTTL]}
    BY <1>3, <2>1 DEF Mints
  <2>3. AccessTTL \in 1 .. AccessTTL
    BY <1>0
  <2>4. [sig |-> sk, typ |-> "at+jwt", audience |-> x, channel |-> c, left |-> AccessTTL] \in Token
    BY <2>3 DEF Token
  <2> QED BY <1>0, <1>3, <2>1, <2>2, <2>4 DEF Mints
<1> QED BY <1>1, <1>2, <1>3, TokenStep

LEMMA UnboundStep == ASSUME Inv, [Next]_vars PROVE BrowserIsUnbound'
<1>1. CASE Tick
  BY <1>1, TickTokens DEF Inv, BrowserIsUnbound
<1>2. ASSUME NEW r \in Replicas, Mints(r) PROVE BrowserIsUnbound'
  BY <1>2 DEF Mints, Inv, BrowserIsUnbound
<1> QED BY <1>1, <1>2, TokenStep DEF Inv, BrowserIsUnbound

(* While every serving process refuses the account, none issues for it. *)
LEMMA RemovedIsRefused == ASSUME Inv, Removed, NEW r \in Replicas PROVE ~Mints(r)
<1> SUFFICES ASSUME Mints(r) PROVE FALSE OBVIOUS
<1>1. /\ account # Nil /\ Refuses(r) /\ Known(ReleaseOf(r))
      /\ \E hd \in {said} \cup {e.hostedDomain : e \in exchanging} :
           Allowed(Access(ReleaseOf(r)), [account.subject EXCEPT !.hostedDomain = hd])
  BY DEF Mints, Removed
<1>2. \A hd \in {said} \cup {e.hostedDomain : e \in exchanging} : hd = said
  BY DEF Removed, Overtaken
<1> QED BY <1>1, <1>2 DEF Refuses

LEMMA RefusalStep ==
  ASSUME Inv, [Next]_vars
  PROVE  RefusalAges' /\ refusedFor' \in 0 .. AccessTTL
<1>0. /\ AccessTTL \in Nat \ {0} /\ AccessTTL' = AccessTTL /\ refusedFor \in 0 .. AccessTTL
      /\ \A t \in live : t.left \in 1 .. AccessTTL /\ t.left + refusedFor <= AccessTTL
      /\ refusedFor > 0 => Removed
  BY PlanFacts, ProcessStep, SameTypes DEF Inv, Typed, TypeOK, Token, RefusalAges
<1>1. CASE UNCHANGED vars
  BY <1>0, <1>1 DEF vars, RefusalAges, Removed, Overtaken, Refuses, Serving, ReleaseOf
<1>2. CASE Tick
  <2>1. Removed' = Removed
    BY <1>2 DEF Tick, facts, Removed, Overtaken, Refuses, Serving, ReleaseOf
  <2>2. refusedFor' = IF Removed THEN Capped(refusedFor, AccessTTL) ELSE 0
    BY <1>2 DEF Tick
  <2>3. refusedFor' \in 0 .. AccessTTL /\ refusedFor' <= refusedFor + 1
        /\ (refusedFor' > 0 => Removed')
    BY <1>0, <2>1, <2>2 DEF Capped
  <2>4. ASSUME NEW t \in live' PROVE t.left + refusedFor' <= AccessTTL'
    <3>1. PICK u \in live : u.left \in Nat /\ t.left = u.left - 1
      BY <1>2, TickTokens DEF Inv
    <3> QED BY <1>0, <2>3, <3>1
  <2> QED BY <2>3, <2>4 DEF RefusalAges
<1>3. CASE Step /\ refusedFor' = IF refusedFor > 0 /\ Removed' THEN refusedFor ELSE 0
  <2>1. refusedFor' \in 0 .. AccessTTL /\ refusedFor' <= refusedFor /\ (refusedFor' > 0 => Removed')
    BY <1>0, <1>3
  <2>2. ASSUME NEW t \in live' PROVE t.left + refusedFor' <= AccessTTL'
    <3>1. CASE t \in live
      BY <1>0, <2>1, <3>1
    <3>2. CASE Tick
      BY <1>2, <3>2 DEF RefusalAges
    <3>3. ASSUME NEW r \in Replicas, Mints(r), t \notin live PROVE t.left + refusedFor' <= AccessTTL'
      <4>1. refusedFor = 0
        BY <1>0, <3>3, RemovedIsRefused
      <4>2. t.left = AccessTTL
        BY <3>3 DEF Mints
      <4>3. refusedFor' = 0
        BY <1>3, <4>1
      <4> QED BY <1>0, <4>2, <4>3
    <3> QED BY <3>1, <3>2, <3>3, TokenStep
  <2> QED BY <2>1, <2>2 DEF RefusalAges
<1> QED BY <1>1, <1>2, <1>3 DEF Next

----------------------------------------------------------------------------
(* The invariant holds                                                     *)

LEMMA RestTyped ==
  ASSUME Inv, [Next]_vars
  PROVE  session' \in BOOLEAN /\ grants' \subseteq Bindings /\ idp' \in plan.assertions
<1>0. session \in BOOLEAN /\ grants \subseteq Bindings /\ idp \in plan.assertions
  BY DEF Inv, Typed, TypeOK
<1>1. ASSUME NEW b \in Browsers, Callback(b) PROVE session' \in BOOLEAN /\ UNCHANGED <<grants, idp>>
  BY <1>0, <1>1 DEF Callback, CallbackRefused, Signup, ExistingUser
<1>2. ASSUME NEW e \in exchanging, CreateAccessAndRefreshTokens(e)
      PROVE  grants' \subseteq Bindings /\ UNCHANGED <<session, idp>>
  BY <1>0, <1>2, LoginOf, ExchangeOf DEF CreateAccessAndRefreshTokens, Inv, ExchangeSound
<1>3. ASSUME Logout PROVE session' \in BOOLEAN /\ UNCHANGED <<grants, idp>>
  BY <1>3 DEF Logout
<1>4. ASSUME NEW a \in plan.assertions, Reassert(a)
      PROVE  idp' \in plan.assertions /\ UNCHANGED <<session, grants>>
  BY <1>4 DEF Reassert
<1>5. ASSUME NEW x \in Bindings, Lapse(x) PROVE grants' \subseteq Bindings /\ UNCHANGED <<session, idp>>
  BY <1>0, <1>5 DEF Lapse
<1> HIDE DEF Bindings
<1> QED BY <1>0, <1>1, <1>2, <1>3, <1>4, <1>5 DEF Next, Tick, vars, Step, Settle, RollOut, Expire,
      UpstreamAnswers, HandleExistingSession, Authorize, AuthRequestByCode, ExchangeFails, Refresh, facts,
      Startup, Start, GetActiveEpoch, InsertActiveEpoch, ReloadEpoch, LoadClients, Stop

LEMMA TypedStep == ASSUME Inv, [Next]_vars PROVE Typed'
<1>0. /\ plan' = plan /\ Typed
      /\ Process' = Process /\ Epoch' = Epoch /\ Login' = Login /\ Account' = Account
      /\ Signatures' = Signatures /\ Token' = Token /\ AccessTTL' = AccessTTL
      /\ Exchanges' = Exchanges
  BY ProcessStep, SameTypes DEF Inv
<1>1. /\ plan' \in Plans
      /\ stage' \in 1 .. Len(plan'.releases) /\ settled' \in 0 .. AccessTTL' + 1
  BY <1>0, StageStep, PlanFacts
<1>2. replica' \in [Replicas -> Process' \cup {Down}]
  BY <1>0, ProcessStep
<1>3. /\ epochs' \subseteq Epoch'
      /\ \A e, f \in epochs' : e # f => e.keyId # f.keyId /\ e.domain # f.domain
  BY <1>0, ProcessStep
<1>4. account' \in Account' \cup {Nil}
  BY <1>0, AccountMoves
<1>5. account' # Nil => account'.subject \in Subjects(plan') /\ account'.roots \in plan'.roots
  BY <1>0, <1>4 DEF Account
<1>6. login' \in [Browsers -> Login' \cup {NoLogin}]
  BY <1>0, LoginStep DEF LoginMoves
<1>7. /\ session' \in BOOLEAN /\ grants' \subseteq Bindings /\ idp' \in plan'.assertions
      /\ exchanging' \subseteq Exchanges'
  BY <1>0, RestTyped, ExchangeTypes
<1>8. live' \subseteq Token' /\ signed' \subseteq Signatures' /\ refusedFor' \in 0 .. AccessTTL'
  BY <1>0, TokenTypes, RefusalStep
<1>9. \A r \in Replicas : replica'[r] = Down \/ replica'[r] \in Process'
  BY <1>2
<1>10. \A b \in Browsers : login'[b] = NoLogin \/ login'[b] \in Login'
  BY <1>6
<1>11. TypeOK'
  BY <1>1, <1>3, <1>5, <1>7, <1>8, <1>9, <1>10 DEF TypeOK
<1> QED BY <1>2, <1>4, <1>6, <1>11 DEF Typed

LEMMA InvInit == Init => Inv
<1> SUFFICES ASSUME Init PROVE Inv OBVIOUS
<1>1. Typed
  BY TypedInit
<1>2. \A r \in Replicas : replica[r].pc = "down"
  BY DEF Init, Down
<1>3. \A b \in Browsers : login[b].pc = "none"
  BY DEF Init, NoLogin
<1>4. AccountSound
  <2>1. CASE plan.account = Nil
    BY <2>1 DEF Init, AccountSound
  <2>2. CASE plan.account # Nil
    BY <2>2 DEF Init, AccountSound, Holds, Domains
  <2> QED BY <2>1, <2>2
<1> QED BY <1>1, <1>2, <1>3, <1>4
           DEF Init, Inv, ProcessSound, LoginSound, BrowserIsUnbound, RefusalAges

LEMMA InvStep == Inv /\ [Next]_vars => Inv'
BY TypedStep, ProcessSoundStep, AccountMoves, LoginSoundStep, ExchangeSoundStep, UnboundStep, RefusalStep DEF Inv

LEMMA InvHolds == Spec => []Inv
BY InvInit, InvStep, PTL DEF Spec

----------------------------------------------------------------------------
(* The rotation of signing keys                                            *)

(* Releases that run side by side publish each other's keys. *)
LEMMA NeighbourKeys ==
  ASSUME Typed, FollowsRunbook(plan), NEW i \in Current, NEW j \in Current,
         ConfigureSigningKey(Signing(i)), ConfigureSigningKey(Signing(j))
  PROVE  SigningKey(Signing(j)) \in KeySet(Signing(i))
<1>1. CASE i = j
  BY <1>1, ActiveIsPublished
<1>2. CASE i # j
  <2>1. stage > 1 /\ stage - 1 \in 1 .. Len(plan.releases) - 1 /\ {i, j} = {stage - 1, stage}
    BY <1>2, PlanFacts DEF Current
  <2>2. (stage - 1) + 1 = stage
    BY PlanFacts
  <2>3. /\ SigningKey(Signing(stage - 1)) \in KeySet(Signing(stage))
        /\ SigningKey(Signing(stage)) \in KeySet(Signing(stage - 1))
    <3>1. ConfigureSigningKey(Signing(stage))
      BY <1>2, <2>1
    <3> QED BY <2>1, <2>2, <3>1, RunbookKeys DEF Signing
  <2> QED BY <1>2, <2>1, <2>3
<1> QED BY <1>1, <1>2

LEMMA KeysStep ==
  ASSUME Inv, [Next]_vars
  PROVE  Tick \/ Settle \/ RollOut \/ (\E r \in Replicas : Mints(r)) \/ UNCHANGED <<stage, settled, live, signed>>
<1>1. Tick \/ Settle \/ RollOut \/ UNCHANGED <<stage, settled>>
  <2>1. ASSUME \E e \in exchanging : ExchangeFails(e) \/ CreateAccessAndRefreshTokens(e)
        PROVE  UNCHANGED <<stage, settled>>
    BY <2>1 DEF ExchangeFails, CreateAccessAndRefreshTokens
  <2> QED BY <2>1, StartupStays DEF Next, vars, Step, Logout, Reassert, Callback, Expire,
        UpstreamAnswers, HandleExistingSession, Authorize, AuthRequestByCode, Lapse, Refresh
<1> QED BY <1>1, TokenStep

LEMMA KeysKeptStep == Inv /\ KeysKept /\ [Next]_vars => KeysKept'
<1> SUFFICES ASSUME Inv, KeysKept, [Next]_vars PROVE KeysKept' OBVIOUS
<1>0. /\ Typed /\ plan' = plan /\ FollowsRunbook(plan)' /\ AccessTTL' = AccessTTL
      /\ \A i : Signing(i)' = Signing(i)
  BY ProcessStep, SameTypes DEF Inv, KeysKept, Signing
<1>1. /\ AccessTTL \in Nat \ {0} /\ stage \in 1 .. Len(plan.releases) /\ stage \in Nat /\ settled \in Nat
      /\ Len(plan.releases) \in Nat
      /\ \A t \in live : t.left \in 1 .. AccessTTL
  BY PlanFacts DEF Inv, Typed, TypeOK, Token
<1>2. CASE UNCHANGED <<stage, settled, live, signed>>
  <2>1. Current' = Current /\ Signing(stage)' = Signing(stage)
    BY <1>0, <1>2 DEF Current, Signing
  <2> QED BY <1>0, <1>2, <2>1 DEF KeysKept
<1>3. CASE Tick
  <2>1. /\ stage' = stage /\ signed' = signed /\ settled' \in Nat
        /\ settled' <= settled + 1 /\ (settled' > 0 <=> settled > 0)
    BY <1>1, <1>3 DEF Tick, Capped
  <2>2. Current' = Current /\ Signing(stage)' = Signing(stage)
    BY <1>0, <1>1, <2>1 DEF Current, Signing
  <2>3. ASSUME NEW t \in live'
        PROVE  /\ \A i \in Current : ConfigureSigningKey(Signing(i)) => t.sig \in KeySet(Signing(i))
               /\ t.typ = "at+jwt"
               /\ t.sig = SigningKey(Signing(stage)) \/ t.left + settled' <= AccessTTL + 1
    <3>1. PICK u \in live : t.left = u.left - 1 /\ t.sig = u.sig /\ t.typ = u.typ
      BY <1>0, <1>3, TickTokens
    <3>2. /\ \A i \in Current : ConfigureSigningKey(Signing(i)) => u.sig \in KeySet(Signing(i))
          /\ u.typ = "at+jwt"
          /\ u.sig = SigningKey(Signing(stage)) \/ u.left + settled <= AccessTTL + 1
      BY DEF KeysKept
    <3> QED BY <1>1, <2>1, <3>1, <3>2
  <2> QED BY <1>0, <2>1, <2>2, <2>3 DEF KeysKept
<1>4. CASE Settle
  <2>1. stage' = stage /\ settled' = 1 /\ live' = live /\ signed' = signed
    BY <1>4 DEF Settle, tokens
  <2>2. ConfigureSigningKey(Signing(stage))
    <3>1. PICK r \in Replicas : replica[r].pc = "serving" /\ replica[r].release = stage
      BY <1>4, DeploymentConstants DEF Settle
    <3> QED BY <3>1 DEF Inv, ProcessSound, ReleaseOf, Signing
  <2>3. Current' = {stage} /\ stage \in Current /\ Signing(stage)' = Signing(stage)
    BY <1>0, <2>1 DEF Current, Signing
  <2>4. \A t \in live : t.left + 1 <= AccessTTL + 1
    BY <1>1
  <2> QED BY <1>0, <2>1, <2>2, <2>3, <2>4 DEF KeysKept
<1>5. CASE RollOut
  <2>1. /\ settled > 0 /\ stage < Len(plan.releases) /\ stage' = stage + 1 /\ settled' = 0
        /\ live' = live /\ signed' = signed
        /\ Unpublishes(stage) => settled > AccessTTL
    BY <1>5 DEF RollOut, tokens
  <2>2. /\ Current = {stage} /\ Current' = {stage, stage + 1} /\ Signing(stage)' = Signing(stage + 1)
    BY <1>0, <1>1, <2>1 DEF Current, Signing
  <2>3. /\ \A t \in live : t.sig \in KeySet(Signing(stage))
        /\ signed \subseteq IDTokenHintKeySet(Signing(stage))
    BY <2>1, <2>2 DEF KeysKept
  <2>4. ASSUME ConfigureSigningKey(Signing(stage + 1))
        PROVE  /\ \A t \in live : t.sig \in KeySet(Signing(stage + 1))
               /\ signed \subseteq IDTokenHintKeySet(Signing(stage + 1))
    <3>1. stage \in 1 .. Len(plan.releases) - 1
      BY <1>1, <2>1
    <3>2. /\ SigningKey(Signing(stage)) \in KeySet(Signing(stage + 1))
          /\ IDTokenHintKeySet(Signing(stage)) \subseteq IDTokenHintKeySet(Signing(stage + 1))
      BY <2>4, <3>1, RunbookKeys DEF KeysKept, Signing
    <3>3. CASE Unpublishes(stage)
      <4>1. \A t \in live : t.sig = SigningKey(Signing(stage))
        BY <1>1, <2>1, <3>3 DEF KeysKept
      <4> QED BY <2>3, <3>2, <4>1
    <3>4. CASE ~Unpublishes(stage)
      BY <2>3, <3>2, <3>4 DEF Unpublishes, Signing
    <3> QED BY <3>3, <3>4
  <2>5. \A t \in live : t.typ = "at+jwt" /\ t.left + 0 <= AccessTTL + 1
    BY <1>1 DEF KeysKept
  <2> QED BY <1>0, <2>1, <2>2, <2>3, <2>4, <2>5 DEF KeysKept
<1>6. ASSUME NEW r \in Replicas, Mints(r) PROVE KeysKept'
  <2>1. PICK j \in Current : j = replica[r].release /\ ConfigureSigningKey(Signing(j))
                             /\ ReleaseOf(r).signing = Signing(j)
    BY <1>6 DEF Mints, Inv, ProcessSound, Serving, ReleaseOf, Signing
  <2>2. stage' = stage /\ settled' = settled /\ signed' = signed \cup {SigningKey(Signing(j))}
    BY <1>6, <2>1 DEF Mints
  <2>3. Current' = Current /\ Signing(stage)' = Signing(stage)
    BY <1>0, <2>2 DEF Current, Signing
  <2>4. \A i \in Current : ConfigureSigningKey(Signing(i)) =>
          /\ SigningKey(Signing(j)) \in KeySet(Signing(i))
          /\ SigningKey(Signing(j)) \in IDTokenHintKeySet(Signing(i))
    BY <1>0, <2>1, NeighbourKeys, PublishedIsHint DEF KeysKept
  <2>5. ASSUME NEW t \in live', t \notin live
        PROVE  t.sig = SigningKey(Signing(j)) /\ t.typ = "at+jwt" /\ t.left = AccessTTL
    BY <1>6, <2>1, <2>5 DEF Mints
  <2>6. j = stage \/ settled = 0
    BY <1>1, <2>1 DEF Current
  <2>7. \A t \in live' : t \notin live =>
          t.sig = SigningKey(Signing(stage)) \/ t.left + settled <= AccessTTL + 1
    BY <1>1, <2>5, <2>6
  <2>8. \A t \in live' : /\ t.typ = "at+jwt"
                         /\ t.sig = SigningKey(Signing(stage)) \/ t.left + settled <= AccessTTL + 1
    BY <2>5, <2>7 DEF KeysKept
  <2>9. \A i \in Current : ConfigureSigningKey(Signing(i)) =>
          /\ \A t \in live' : t.sig \in KeySet(Signing(i))
          /\ signed' \subseteq IDTokenHintKeySet(Signing(i))
    BY <2>2, <2>4, <2>5 DEF KeysKept
  <2> QED BY <1>0, <2>2, <2>3, <2>8, <2>9 DEF KeysKept
<1> QED BY <1>2, <1>3, <1>4, <1>5, <1>6, KeysStep

----------------------------------------------------------------------------
(* Theorems                                                                *)

(* Every variable keeps its type. *)
THEOREM TypeCorrect == Spec => []TypeOK
<1>1. Inv => TypeOK
  BY DEF Inv, Typed
<1> QED BY InvHolds, <1>1, PTL

(* EnsureCryptoEpochs: however many replicas start at once, with whatever  *)
(* secrets, those that serve derive their keys from the same roots, the    *)
(* ones the account is encrypted and looked up with.                       *)
THEOREM RootsNeverDisagree == Spec => []RootsAgree
<1>1. ASSUME Typed, NEW x \in plan.roots, NEW y \in plan.roots,
             Holds(x, "enc"), Holds(x, "lookup"), Holds(y, "enc"), Holds(y, "lookup")
      PROVE  x = y
  <2>1. RootOf(x, "enc") = RootOf(y, "enc") /\ RootOf(x, "lookup") = RootOf(y, "lookup")
    BY <1>1, RootOfType DEF Holds, Typed, TypeOK, Domains
  <2>2. x.encId = y.encId /\ x.enc = y.enc /\ x.lookupId = y.lookupId /\ x.lookup = y.lookup
    BY <2>1 DEF RootOf
  <2> QED BY <1>1, <2>2, PlanFacts, PlanShapes
<1>2. ASSUME Inv PROVE RootsAgree
  <2>1. ASSUME NEW r \in Serving, replica[r].roots # NoRoots
        PROVE  /\ replica[r].roots \in plan.roots
               /\ Holds(replica[r].roots, "enc") /\ Holds(replica[r].roots, "lookup")
    BY <1>2, <2>1, ProcessOf DEF Inv, ProcessSound, Serving, Process
  <2>2. account # Nil => /\ account.roots \in plan.roots
                         /\ Holds(account.roots, "enc") /\ Holds(account.roots, "lookup")
    BY <1>2 DEF Inv, AccountSound, Typed, TypeOK
  <2> QED BY <1>1, <1>2, <2>1, <2>2 DEF RootsAgree, Inv
<1>3. Inv => RootsAgree
  BY <1>2
<1> QED BY InvHolds, <1>3, PTL

(* ValidateTokenRequest: no token for a resource is issued to a client     *)
(* that is a browser client at the replica that issues it.                 *)
THEOREM BrowsersAreUnbound == Spec => []BrowserIsUnbound
<1>1. Inv => BrowserIsUnbound
  BY DEF Inv
<1> QED BY InvHolds, <1>1, PTL

(* checkExistingAccountAccess: a code that was handed out is not refused   *)
(* by the policy it was admitted by, unless the recorded hosted domain has *)
(* changed since.                                                          *)
THEOREM AdmissionIsHonoured == Spec => []AdmittedIsServed
<1>1. ASSUME Inv, NEW b \in Browsers, login[b].pc = "code",
             login[b].hostedDomain = account.subject.hostedDomain
      PROVE  Allowed(Access(plan.releases[login[b].by]), account.subject)
  <2>1. account # Nil /\ Allowed(Access(plan.releases[login[b].by]),
                                 [account.subject EXCEPT !.hostedDomain = login[b].hostedDomain])
    BY <1>1 DEF Inv, LoginSound
  <2>2. account.subject \in Subjects(plan)
    BY <1>1, <2>1 DEF Inv, Typed, TypeOK
  <2>3. [account.subject EXCEPT !.hostedDomain = login[b].hostedDomain] = account.subject
    BY <1>1, <2>2 DEF Subjects
  <2> QED BY <2>1, <2>3
<1>2. Inv => AdmittedIsServed
  BY <1>1 DEF AdmittedIsServed
<1> QED BY InvHolds, <1>2, PTL

(* validateRefreshTokenRequest, AuthRequestByCode: one access token        *)
(* lifetime after every serving replica has come to refuse the account,    *)
(* and after the end of each exchange that was allowed for a hosted domain *)
(* recorded before, no token of it is left.                                *)
THEOREM RemovalIsTimely == Spec => []RemovalTakesEffect
<1>1. ASSUME Inv, refusedFor >= AccessTTL PROVE live = {}
  <2>1. \A t \in live : t.left \in 1 .. AccessTTL /\ t.left + refusedFor <= AccessTTL
    BY <1>1 DEF Inv, Typed, TypeOK, Token, RefusalAges
  <2> QED BY <1>1, <2>1, PlanFacts DEF Inv
<1>2. Inv => RemovalTakesEffect
  BY <1>1 DEF RemovalTakesEffect
<1> QED BY InvHolds, <1>2, PTL

(* publishedKeys and the hint key set: for every sequence of releases that *)
(* follows the runbook, whatever it rotates and however often, each access *)
(* token verifies at each serving replica until it expires, and each ID    *)
(* token remains a good hint.                                              *)
THEOREM RunbookIsSeamless == Spec /\ FollowsRunbook(plan) => []RotationIsSeamless
<1>1. Init /\ FollowsRunbook(plan) => KeysKept
  BY DEF Init, KeysKept
<1>2. ASSUME Inv, KeysKept PROVE RotationIsSeamless
  <2>1. ASSUME NEW r \in Serving
        PROVE  /\ ConfigureSigningKey(ReleaseOf(r).signing) /\ replica[r].release \in Current
               /\ ReleaseOf(r).signing = Signing(replica[r].release)
    BY <1>2 DEF Inv, ProcessSound, Serving, ReleaseOf, Signing
  <2> QED BY <1>2, <2>1 DEF RotationIsSeamless, KeysKept, VerifyAccessTokenProfile, VerifySignature
<1>3. Inv /\ KeysKept => RotationIsSeamless
  BY <1>2
<1> QED BY InvHolds, KeysKeptStep, <1>1, <1>3, PTL DEF Spec
=============================================================================
