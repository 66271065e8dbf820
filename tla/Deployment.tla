---------------------------- MODULE Deployment ----------------------------
(***************************************************************************)
(* Replicas that start, serve and stop while an operator rolls out one     *)
(* release after another, over one database.  A process reads its          *)
(* environment, its signing keys and its client file once, at startup,     *)
(* checks its root secrets against the key epochs in the database, and     *)
(* serves with that snapshot until it stops.  Replicas of two releases     *)
(* serve side by side.                                                     *)
(*                                                                         *)
(* One person and one client are followed through logins, code exchanges   *)
(* and refreshes, each at whichever replica the request reaches.           *)
(***************************************************************************)
EXTENDS SigningKeys, ClientAccess

CONSTANTS
  Replicas,
  Browsers,       \* auth requests that may be under way at once
  Resources,      \* RFC 8707 resources of MCP servers
  Plans,          \* what operators and the upstream provider may do
  WeakSecrets     \* root secrets that are not base64 of at least 32 bytes

(* What may be stored of the person. *)
Subjects(pl) == [email         : {a.email : a \in pl.assertions},
                 emailVerified : BOOLEAN,
                 hostedDomain  : {a.hostedDomain : a \in pl.assertions}]

(***************************************************************************)
(* A plan holds                                                            *)
(*   releases    the releases in the order they are rolled out             *)
(*   roots       the root secrets a process may be started with            *)
(*   assertions  what the upstream provider may say about the person       *)
(*   account     the account of the person, if there is one already        *)
(*   browsers    the Browsers that take part                               *)
(*   accessTTL   ACCESS_TOKEN_TTL, the same in every release               *)
(***************************************************************************)
ASSUME DeploymentConstants ==
  /\ Replicas # {}
  /\ Nil \notin Resources
  /\ \A pl \in Plans :
       /\ Len(pl.releases) \in Nat \ {0}
       /\ pl.browsers \subseteq Browsers
       /\ pl.accessTTL \in Nat \ {0}

(* The shape of root secrets and of what is said about a person. *)
ASSUME PlanShapes ==
  \A pl \in Plans :
    /\ \A x \in pl.roots :
         x = [encId |-> x.encId, enc |-> x.enc, lookupId |-> x.lookupId, lookup |-> x.lookup]
    /\ \A a \in pl.assertions :
         /\ a = Subject(a.email, a.emailVerified, a.hostedDomain)
         /\ a.emailVerified \in BOOLEAN
    /\ Nil \notin [subject : Subjects(pl), roots : pl.roots]

(***************************************************************************)
(* An account that is there already was stored under the roots all later   *)
(* processes have, and their epochs are two rows: key_id is a primary key. *)
(***************************************************************************)
ASSUME StoredAccount ==
  \A pl \in Plans : pl.account # Nil =>
    /\ pl.account \in Subjects(pl)
    /\ \E x \in pl.roots : pl.roots = {x} /\ x.encId # x.lookupId

VARIABLES
  plan,
  stage,        \* the release being rolled out
  settled,      \* 0 until every replica runs it, then 1 + ticks since, capped
  replica,      \* process state of each replica
  epochs,       \* crypto_key_epochs
  account,      \* the person's row, with the roots it is encrypted under
  session,      \* the person's browser has a session
  login,        \* auth requests
  exchanging,   \* exchanges of a code that are allowed and have not issued
  grants,       \* live refresh tokens: the resource each is bound to
  idp,          \* what the upstream provider says about the person
  live,         \* unexpired access tokens: the youngest of each kind
  signed,       \* signatures on ID tokens, ever
  said,         \* history: hosted domain of the last assertion a callback applied
  refusedFor    \* history: ticks for which the account has been Removed, see below

vars == <<plan, stage, settled, replica, epochs, account, session, login, exchanging,
          grants, idp, live, signed, said, refusedFor>>

facts == <<account, session, login, exchanging, grants, idp, said>>

tokens == <<live, signed>>

----------------------------------------------------------------------------
(* Types                                                                   *)

AccessTTL == plan.accessTTL

Domains == {"enc", "lookup"}

NoRoots == [encId |-> Nil, enc |-> Nil, lookupId |-> Nil, lookup |-> Nil]

(***************************************************************************)
(* get, insert, reload   EnsureCryptoEpochs, for one domain                *)
(* clients               the client file is next                           *)
(***************************************************************************)
Process == [pc      : {"down", "get", "insert", "reload", "clients", "serving"},
            release : 1 .. Len(plan.releases),
            roots   : plan.roots,
            domain  : Domains]

Down == [pc |-> "down"]

Epoch == [keyId   : {x.encId : x \in plan.roots} \cup {x.lookupId : x \in plan.roots},
          domain  : Domains,
          tag     : {x.enc : x \in plan.roots} \cup {x.lookup : x \in plan.roots}]

NoResource == Nil

Bindings == Resources \cup {NoResource}

Channels == {"browser", "mcp"}

(***************************************************************************)
(* open       /authorize stored the request and sent the browser to login  *)
(* asserted   the callback at replica at has the upstream answer           *)
(* code       done, and a code is out; admitted by release by              *)
(***************************************************************************)
NoLogin == [pc |-> "none"]

Login ==
  [pc : {"open"}, channel : Channels, resource : Bindings]
    \cup [pc : {"asserted"}, channel : Channels, resource : Bindings,
          info : plan.assertions, at : Replicas]
    \cup [pc : {"code"}, resource : Bindings, by : 1 .. Len(plan.releases),
          hostedDomain : {a.hostedDomain : a \in plan.assertions}]

(* Passed AuthRequestByCode at replica at, for this recorded hosted domain. *)
Exchanges == [browser : Browsers, at : Replicas,
              hostedDomain : {a.hostedDomain : a \in plan.assertions}]

Signatures == UNION {IDTokenHintKeySet(plan.releases[i].signing) : i \in 1 .. Len(plan.releases)}

(* channel is history: whose rules applied to the resource when the token  *)
(* was issued; none do where MCP is switched off.                          *)
Token == [sig : Signatures, typ : {"JWT", "at+jwt"}, audience : Bindings,
          channel : Channels \cup {"any"}, left : 1 .. AccessTTL]

TypeOK ==
  /\ plan \in Plans
  /\ stage \in 1 .. Len(plan.releases) /\ settled \in 0 .. AccessTTL + 1
  /\ \A r \in Replicas : replica[r] = Down \/ replica[r] \in Process
  /\ epochs \subseteq Epoch
  /\ \A e, f \in epochs : e # f => e.keyId # f.keyId /\ e.domain # f.domain
  /\ account # Nil => account.subject \in Subjects(plan) /\ account.roots \in plan.roots
  /\ session \in BOOLEAN
  /\ \A b \in Browsers : login[b] = NoLogin \/ login[b] \in Login
  /\ exchanging \subseteq Exchanges
  /\ grants \subseteq Bindings
  /\ idp \in plan.assertions
  /\ live \subseteq Token
  /\ signed \subseteq Signatures
  /\ refusedFor \in 0 .. AccessTTL

----------------------------------------------------------------------------
(* A definition named X_Bug is X with one mistake in it; it belongs to no  *)
(* specification and shows that a property can fail.                       *)

(* Environment and files                                                   *)

Complete(roots) == \A f \in DOMAIN roots : roots[f] # Nil

SigningKeyPaths(signing) == ~ (signing.bundle # Nil /\ signing.legacy # Nil)

ValidateRootSecret(secret) == secret \notin WeakSecrets

(* sound: what must parse parses and every limit holds; hardened: https    *)
(* URLs, a session secret of 32 characters, upstream credentials.          *)
LoadConfig(rel, roots) ==
  /\ rel.env.sound
  /\ SigningKeyPaths(rel.signing)
  /\ \/ roots = NoRoots
     \/ Complete(roots) /\ ValidateRootSecret(roots.enc) /\ ValidateRootSecret(roots.lookup)
  /\ rel.env.devMode \/ (rel.env.hardened /\ Complete(roots))

(* An empty login_channel is browser. *)
ChannelOf(entry) == IF entry.channel = "" THEN "browser" ELSE entry.channel

(* sound: known fields, one document, names, URIs, scopes and grants. *)
LoadEntry(entry) ==
  /\ entry.sound
  /\ entry.confidential => entry.secret
  /\ ChannelOf(entry) \in Channels
  /\ entry.skipPKCE => entry.confidential /\ ChannelOf(entry) # "mcp"

ValidateChannels(entry, enableMCP) == ChannelOf(entry) = "mcp" => enableMCP

(* A file that does not exist is no error. *)
LoadClientConfig(entry, enableMCP) ==
  entry # Nil =>
    /\ UnmarshalYAML(entry.access) /\ RejectEmptyAccess(entry.access)
    /\ LoadEntry(entry)
    /\ ValidateChannels(entry, enableMCP)

Serving == {r \in Replicas : replica[r].pc = "serving"}

ReleaseOf(r) == plan.releases[replica[r].release]

(* The client table has an entry. *)
Known(rel) == rel.client # Nil

(* StaticAccess of a client that is in the table. *)
Access(rel) == Policy(rel.client.access)

----------------------------------------------------------------------------
(* Startup: app.Run                                                        *)

RootOf(roots, domain) ==
  IF domain = "enc" THEN [keyId |-> roots.encId, domain |-> domain, tag |-> roots.enc]
                    ELSE [keyId |-> roots.lookupId, domain |-> domain, tag |-> roots.lookup]

ActiveEpochs(domain) == {e \in epochs : e.domain = domain}

Fatal(r) == replica' = [replica EXCEPT ![r] = Down]

(* A pod of the release before may be started until the rollout is done. *)
Start(r) ==
  /\ replica[r] = Down
  /\ \E i \in {stage} \cup (IF settled = 0 /\ stage > 1 THEN {stage - 1} ELSE {}), x \in plan.roots :
       /\ LoadConfig(plan.releases[i], x)
       /\ ConfigureSigningKey(plan.releases[i].signing)
       /\ replica' = [replica EXCEPT ![r] =
            [pc |-> IF x = NoRoots THEN "clients" ELSE "get",
             release |-> i, roots |-> x, domain |-> "enc"]]
  /\ UNCHANGED <<plan, stage, settled, epochs, facts, tokens>>

(* The row read decides: another key_id or another verify_tag is fatal. *)
CheckEpoch(r, row) ==
  LET p == replica[r] IN
  IF row # RootOf(p.roots, p.domain) THEN Fatal(r)
  ELSE replica' = [replica EXCEPT ![r] =
         IF p.domain = "enc" THEN [p EXCEPT !.pc = "get", !.domain = "lookup"]
                             ELSE [p EXCEPT !.pc = "clients"]]

GetActiveEpoch(r) ==
  /\ replica[r].pc = "get"
  /\ LET rows == ActiveEpochs(replica[r].domain) IN
     IF rows = {} THEN replica' = [replica EXCEPT ![r].pc = "insert"]
                  ELSE \E row \in rows : CheckEpoch(r, row)
  /\ UNCHANGED <<plan, stage, settled, epochs, facts, tokens>>

(* The insert ignores the two unique indexes. *)
Conflicts_Bug(row) == row \in epochs

(* ON CONFLICT DO NOTHING: primary key key_id, one active row per domain. *)
Conflicts(row) == \E e \in epochs : e.keyId = row.keyId \/ e.domain = row.domain

InsertActiveEpoch(r) ==
  /\ replica[r].pc = "insert"
  /\ LET row == RootOf(replica[r].roots, replica[r].domain)
     IN  epochs' = IF Conflicts(row) THEN epochs ELSE epochs \cup {row}
  /\ replica' = [replica EXCEPT ![r].pc = "reload"]
  /\ UNCHANGED <<plan, stage, settled, facts, tokens>>

(* Takes its own insert for the winner. *)
ReloadEpoch_Bug(r) ==
  /\ replica[r].pc = "reload"
  /\ CheckEpoch(r, RootOf(replica[r].roots, replica[r].domain))
  /\ UNCHANGED <<plan, stage, settled, epochs, facts, tokens>>

ReloadEpoch(r) ==
  /\ replica[r].pc = "reload"
  /\ LET rows == ActiveEpochs(replica[r].domain) IN
     IF rows = {} THEN Fatal(r) ELSE \E row \in rows : CheckEpoch(r, row)
  /\ UNCHANGED <<plan, stage, settled, epochs, facts, tokens>>

LoadClients(r) ==
  /\ replica[r].pc = "clients"
  /\ IF LoadClientConfig(ReleaseOf(r).client, ReleaseOf(r).env.enableMCP)
       THEN replica' = [replica EXCEPT ![r].pc = "serving"]
       ELSE Fatal(r)
  /\ UNCHANGED <<plan, stage, settled, epochs, facts, tokens>>

Opened(l) == [pc |-> "open", channel |-> l.channel, resource |-> l.resource]

(* Shutdown, crash, or a dependency that fails during startup.  Callbacks  *)
(* and exchanges under way at the replica are lost; the browser or the     *)
(* client may start over.                                                  *)
Stop(r) ==
  /\ replica[r] # Down
  /\ Fatal(r)
  /\ login' = [b \in Browsers |->
       IF login[b].pc = "asserted" /\ login[b].at = r
         THEN Opened(login[b])
         ELSE login[b]]
  /\ exchanging' = {e \in exchanging : e.at # r}
  /\ UNCHANGED <<plan, stage, settled, epochs, account, session, grants, idp, said, tokens>>

----------------------------------------------------------------------------
(* Operators: docs/architecture/issuer-signing-key-rotation.md             *)

Settle ==
  /\ settled = 0
  /\ \A r \in Replicas : replica[r].pc = "serving" /\ replica[r].release = stage
  /\ settled' = 1
  /\ UNCHANGED <<plan, stage, replica, epochs, facts, tokens>>

Unpublishes(i) ==
  ~ (KeySet(plan.releases[i].signing) \subseteq KeySet(plan.releases[i + 1].signing))

(* A key is unpublished when the last token it may have signed has expired. *)
RollOut ==
  /\ settled > 0 /\ stage < Len(plan.releases)
  /\ Unpublishes(stage) => settled > AccessTTL
  /\ stage' = stage + 1
  /\ settled' = 0
  /\ UNCHANGED <<plan, replica, epochs, facts, tokens>>

(* What the file of a source lists, whatever the process makes of it. *)
Listed(s) ==
  IF s.bundle # Nil THEN Entries(s.bundle) ELSE {Entry(LegacyKid, s.legacy, TRUE)}

(* The file of s marks the key of this signature for publication. *)
Publishes(s, sig) == \E e \in Listed(s) : e.publish /\ e.id = sig.kid /\ e.key = sig.key

(***************************************************************************)
(* The rotation runbook, about the files: a release that loads publishes   *)
(* the key of the release before it, which published its key already, and  *)
(* it lists every key of the release before it, under the same id.         *)
(***************************************************************************)
FollowsRunbook(pl) ==
  \A i \in 1 .. Len(pl.releases) - 1 :
    LET old == pl.releases[i].signing
        new == pl.releases[i + 1].signing
    IN  ConfigureSigningKey(new) =>
          /\ Publishes(new, SigningKey(old)) /\ Publishes(old, SigningKey(new))
          /\ \A e \in Listed(old) : \E f \in Listed(new) : f.id = e.id /\ f.key = e.key

----------------------------------------------------------------------------
(* Resource binding                                                        *)

(* The channel x resource matrix of the MCP policy; the core policy of a   *)
(* process without MCP lets everything pass here.                          *)
ValidateAuthorizeRequest(rel, resource) ==
  rel.env.enableMCP => (ChannelOf(rel.client) = "mcp" <=> resource # NoResource)

(* Compares the resources only: a client that changed its channel keeps    *)
(* what it was bound to.                                                   *)
ValidateTokenRequest_Bug(rel, stored, requested) == stored = requested

ValidateTokenRequest(rel, stored, requested) ==
  /\ rel.env.enableMCP /\ {stored, requested} # {NoResource} => ChannelOf(rel.client) = "mcp"
  /\ stored = requested

----------------------------------------------------------------------------
(* Logins                                                                  *)

Coded(l, i, hd) == [pc |-> "code", resource |-> l.resource, by |-> i, hostedDomain |-> hd]

Authorize(r, b, resource) ==
  /\ r \in Serving /\ b \in plan.browsers /\ login[b] = NoLogin
  /\ Known(ReleaseOf(r))
  /\ ValidateAuthorizeRequest(ReleaseOf(r), resource)
  /\ login' = [login EXCEPT ![b] = Opened([channel |-> ChannelOf(ReleaseOf(r).client), resource |-> resource])]
  /\ UNCHANGED <<plan, stage, settled, replica, epochs, account, session, exchanging, grants, idp, said, tokens>>

(* The handler of the callback has exchanged the upstream code. *)
UpstreamAnswers(r, b) ==
  /\ r \in Serving /\ login[b].pc = "open"
  /\ login[b].channel = "mcp" => ReleaseOf(r).env.enableMCP
  /\ login' = [login EXCEPT ![b] =
       [pc |-> "asserted", channel |-> @.channel, resource |-> @.resource, info |-> idp, at |-> r]]
  /\ UNCHANGED <<plan, stage, settled, replica, epochs, account, session, exchanging, grants, idp, said, tokens>>

VerifyAuthRequestChannel(r, channel) ==
  Known(ReleaseOf(r)) /\ ChannelOf(ReleaseOf(r).client) = channel

(* Email and name are encrypted, subject and email hashed for lookup. *)
ApplyUserEncryption(info, roots) == [subject |-> info, roots |-> roots]

Finds(r) == /\ replica[r].roots.lookupId = account.roots.lookupId
            /\ replica[r].roots.lookup = account.roots.lookup

Decrypts(r) == /\ replica[r].roots.encId = account.roots.encId
               /\ replica[r].roots.enc = account.roots.enc

GetUser(r) == account # Nil /\ Finds(r) /\ Decrypts(r)

(* The assertion alone decides. *)
CheckExistingAccountAccess_Bug(policy, stored, info) == Allowed(policy, info)

(* Of the stored account, the hosted domain is the one just recorded. *)
CheckExistingAccountAccess(policy, stored, info) ==
  /\ Allowed(policy, info)
  /\ Allowed(policy, [stored EXCEPT !.hostedDomain = info.hostedDomain])

(* Signup, in the browser channel only: a refused person gets no account. *)
Signup(b, r, info) ==
  /\ account = Nil /\ login[b].channel = "browser"
  /\ Allowed(Access(ReleaseOf(r)), info)
  /\ account' = ApplyUserEncryption(info, replica[r].roots)
  /\ said' = info.hostedDomain
  /\ session' = TRUE
  /\ login' = [login EXCEPT ![b] = Coded(@, replica[r].release, info.hostedDomain)]

(* The hosted domain is recorded whether or not the login is then allowed. *)
ExistingUser(b, r, info) ==
  /\ GetUser(r)
  /\ account' = [account EXCEPT !.subject.hostedDomain = info.hostedDomain]
  /\ said' = info.hostedDomain
  /\ IF CheckExistingAccountAccess(Access(ReleaseOf(r)), account.subject, info)
       THEN /\ session' = TRUE
            /\ login' = [login EXCEPT ![b] = Coded(@, replica[r].release, info.hostedDomain)]
       ELSE login' = [login EXCEPT ![b] = Opened(@)] /\ UNCHANGED session

(* The client left this channel, an MCP request names no resource, or no   *)
(* roots are configured.                                                   *)
Acceptable(b, r) ==
  /\ VerifyAuthRequestChannel(r, login[b].channel)
  /\ login[b].channel = "mcp" => login[b].resource # NoResource
  /\ replica[r].roots # NoRoots

(* The browser may try again while the request lives. *)
CallbackRefused(b, r, info) ==
  /\ ~ /\ Acceptable(b, r)
       /\ account = Nil => login[b].channel = "browser" /\ Allowed(Access(ReleaseOf(r)), info)
  /\ login' = [login EXCEPT ![b] = Opened(@)]
  /\ UNCHANGED <<account, session, said>>

(* CompleteBrowserLogin, CompleteMCPLogin *)
Callback(b) ==
  /\ login[b].pc = "asserted"
  /\ LET r    == login[b].at
         info == login[b].info
     IN  \/ CallbackRefused(b, r, info)
         \/ Acceptable(b, r) /\ (Signup(b, r, info) \/ ExistingUser(b, r, info))
  /\ UNCHANGED <<plan, stage, settled, replica, epochs, exchanging, grants, idp, tokens>>

(* The session decides on what is stored. *)
HandleExistingSession(r, b) ==
  /\ r \in Serving /\ login[b].pc = "open" /\ session
  /\ VerifyAuthRequestChannel(r, login[b].channel)
  /\ GetUser(r)
  /\ Allowed(Access(ReleaseOf(r)), account.subject)
  /\ login' = [login EXCEPT ![b] = Coded(@, replica[r].release, account.subject.hostedDomain)]
  /\ UNCHANGED <<plan, stage, settled, replica, epochs, account, session, exchanging, grants, idp, said, tokens>>

(* The request is gone, and what was under way for its code comes to       *)
(* nothing: consumeAuthCode finds no row.                                  *)
End(b) ==
  /\ login' = [login EXCEPT ![b] = NoLogin]
  /\ exchanging' = {e \in exchanging : e.browser # b}

(* Expiry and cleanup. *)
Expire(b) ==
  /\ login[b].pc \in {"open", "code"}
  /\ End(b)
  /\ UNCHANGED <<plan, stage, settled, replica, epochs, account, session, grants, idp, said, tokens>>

Logout ==
  /\ session
  /\ session' = FALSE
  /\ UNCHANGED <<plan, stage, settled, replica, epochs, account, login, exchanging, grants, idp, said, tokens>>

(* The person's address or workspace changes upstream. *)
Reassert(a) ==
  /\ a \in plan.assertions /\ a # idp
  /\ idp' = a
  /\ UNCHANGED <<plan, stage, settled, replica, epochs, account, session, login, exchanging, grants, said, tokens>>

----------------------------------------------------------------------------
(* The token endpoint                                                      *)

(* The provider signs with typ JWT; the middleware signs again as at+jwt,  *)
(* and the ID token with it, because its at_hash changes.                  *)
UpgradeAccessTokenTyp(t, sk) == IF t.typ = "at+jwt" THEN t ELSE [t EXCEPT !.sig = sk, !.typ = "at+jwt"]

Issue(r, resource) ==
  LET sk    == SigningKey(ReleaseOf(r).signing)
      raw   == [sig |-> sk, typ |-> "JWT", audience |-> resource,
                channel |-> IF ReleaseOf(r).env.enableMCP THEN ChannelOf(ReleaseOf(r).client) ELSE "any",
                left |-> AccessTTL]
      token == UpgradeAccessTokenTyp(raw, sk)
      Alike(t) == [t EXCEPT !.left = 0] = [token EXCEPT !.left = 0]
  IN  /\ live' = {t \in live : ~ Alike(t)} \cup {token}
      /\ signed' = signed \cup {sk}

EnforceStaticClientAccess(r) == Allowed(Access(ReleaseOf(r)), account.subject)

(* The policy is asked here, with what is stored now, and not again. *)
AuthRequestByCode(r, b, requested) ==
  /\ r \in Serving /\ login[b].pc = "code"
  /\ Known(ReleaseOf(r)) /\ GetUser(r)
  /\ ValidateTokenRequest(ReleaseOf(r), login[b].resource, requested)
  /\ EnforceStaticClientAccess(r)
  /\ exchanging' = exchanging \cup
       {[browser |-> b, at |-> r, hostedDomain |-> account.subject.hostedDomain]}
  /\ UNCHANGED <<plan, stage, settled, replica, epochs, account, session, login, grants, idp, said, tokens>>

(* PKCE or the client's authentication fails, or a statement does. *)
ExchangeFails(e) ==
  /\ e \in exchanging
  /\ exchanging' = exchanging \ {e}
  /\ UNCHANGED <<plan, stage, settled, replica, epochs, account, session, login, grants, idp, said, tokens>>

(* Consumes the code; of several exchanges of it one comes here. *)
CreateAccessAndRefreshTokens(e) ==
  /\ e \in exchanging
  /\ Issue(e.at, login[e.browser].resource)
  /\ grants' = grants \cup {login[e.browser].resource}
  /\ End(e.browser)
  /\ UNCHANGED <<plan, stage, settled, replica, epochs, account, session, idp, said>>

(* The policy is not asked again. *)
ValidateRefreshTokenRequest_Bug(r, resource, requested) ==
  ValidateTokenRequest(ReleaseOf(r), resource, requested)

ValidateRefreshTokenRequest(r, resource, requested) ==
  /\ ValidateTokenRequest(ReleaseOf(r), resource, requested)
  /\ EnforceStaticClientAccess(r)

(* The redeemed refresh token is replaced by one like it.  One step from   *)
(* the check on: the expiry of the new token is computed before the        *)
(* transaction that checks, so that the token lives no longer than         *)
(* AccessTTL from the check.                                               *)
Refresh(r, resource, requested) ==
  /\ r \in Serving /\ resource \in grants
  /\ Known(ReleaseOf(r)) /\ GetUser(r)
  /\ ValidateRefreshTokenRequest(r, resource, requested)
  /\ Issue(r, resource)
  /\ UNCHANGED <<plan, stage, settled, replica, epochs, facts>>

Lapse(resource) ==
  /\ resource \in grants
  /\ grants' = grants \ {resource}
  /\ UNCHANGED <<plan, stage, settled, replica, epochs, account, session, login, exchanging, idp, said, tokens>>

(* WrapVerifiedAccessToken for introspection; the expiry is left. *)
VerifyAccessTokenProfile(r, t) ==
  t.typ = "at+jwt" /\ VerifySignature(KeySet(ReleaseOf(r).signing), t.sig)

----------------------------------------------------------------------------
(* Time and the specification                                              *)

Refuses(r) ==
  ~ (Known(ReleaseOf(r)) /\ Allowed(Access(ReleaseOf(r)), [account.subject EXCEPT !.hostedDomain = said]))

(* A callback has recorded another hosted domain since the check. *)
Overtaken == \E e \in exchanging : e.hostedDomain # said

Removed == account # Nil /\ (\A r \in Serving : Refuses(r)) /\ ~ Overtaken

Capped(n, bound) == IF n < bound THEN n + 1 ELSE n

Tick ==
  /\ live' = {[t EXCEPT !.left = @ - 1] : t \in {u \in live : u.left > 1}}
  /\ settled' = IF settled = 0 THEN 0 ELSE Capped(settled, AccessTTL + 1)
  /\ refusedFor' = IF Removed THEN Capped(refusedFor, AccessTTL) ELSE 0
  /\ UNCHANGED <<plan, stage, replica, epochs, facts, signed>>

Init ==
  /\ plan \in Plans
  /\ stage = 1 /\ settled = 0
  /\ replica = [r \in Replicas |-> Down]
  /\ idp \in plan.assertions
  /\ IF plan.account = Nil
       THEN epochs = {} /\ account = Nil /\ said = NoDomain
       ELSE \E x \in plan.roots :
              /\ epochs = {RootOf(x, d) : d \in Domains}
              /\ account = [subject |-> plan.account, roots |-> x]
              /\ said = plan.account.hostedDomain
  /\ session = FALSE
  /\ login = [b \in Browsers |-> NoLogin] /\ exchanging = {}
  /\ grants = {} /\ live = {} /\ signed = {}
  /\ refusedFor = 0

Startup(r) == \/ Start(r) \/ GetActiveEpoch(r) \/ InsertActiveEpoch(r) \/ ReloadEpoch(r)
              \/ LoadClients(r) \/ Stop(r)

Step ==
  \/ \E r \in Replicas : Startup(r)
  \/ Settle \/ RollOut \/ Logout
  \/ \E a \in plan.assertions : Reassert(a)
  \/ \E b \in Browsers :
       \/ Callback(b) \/ Expire(b)
       \/ \E r \in Replicas :
            \/ UpstreamAnswers(r, b) \/ HandleExistingSession(r, b)
            \/ \E resource \in Bindings : Authorize(r, b, resource) \/ AuthRequestByCode(r, b, resource)
  \/ \E e \in exchanging : ExchangeFails(e) \/ CreateAccessAndRefreshTokens(e)
  \/ \E resource \in Bindings :
       \/ Lapse(resource)
       \/ \E r \in Replicas, requested \in Bindings : Refresh(r, resource, requested)

Next ==
  \/ Tick
  \/ Step /\ refusedFor' = IF refusedFor > 0 /\ Removed' THEN refusedFor ELSE 0

Spec == Init /\ [][Next]_vars

----------------------------------------------------------------------------
(* Properties                                                              *)

(* EnsureCryptoEpochs: however startups interleave, replicas that serve    *)
(* derive their keys from the same roots, those the account is encrypted   *)
(* and looked up with.                                                     *)
RootsAgree ==
  /\ \A r, q \in Serving : NoRoots \notin {replica[r].roots, replica[q].roots}
                             => replica[r].roots = replica[q].roots
  /\ account # Nil => \A r \in Serving : replica[r].roots \in {NoRoots, account.roots}

(* publishedKeys and the hint key set: while releases follow the rotation  *)
(* runbook, every access token verifies until it expires, at every replica *)
(* and whoever signed it, and every ID token remains a good hint for ever. *)
RotationIsSeamless ==
  \A r \in Serving :
    /\ \A t \in live : VerifyAccessTokenProfile(r, t)
    /\ \A sig \in signed : VerifySignature(IDTokenHintKeySet(ReleaseOf(r).signing), sig)

(* validateRefreshTokenRequest, AuthRequestByCode: an account that every   *)
(* serving replica refuses, for a changed policy or for what its last      *)
(* login showed, is without a valid access token after one access token    *)
(* lifetime.  Only an exchange that was allowed before a callback recorded *)
(* another hosted domain delays that, until it has issued or failed: the   *)
(* issuance does not ask again.                                            *)
RemovalTakesEffect == refusedFor >= AccessTTL => live = {}

(* checkExistingAccountAccess: a code is not handed out to be refused. As  *)
(* long as neither the policy nor the recorded hosted domain changes, its  *)
(* exchange is allowed.                                                    *)
AdmittedIsServed ==
  \A b \in Browsers :
    login[b].pc = "code" /\ login[b].hostedDomain = account.subject.hostedDomain
      => Allowed(Access(plan.releases[login[b].by]), account.subject)

(* ValidateTokenRequest: whatever channel a client had when its code or    *)
(* refresh token was issued, no token for a resource goes to a client that *)
(* is a browser client where it asks for it.                               *)
BrowserIsUnbound == \A t \in live : t.channel = "browser" => t.audience = NoResource
=============================================================================
