# A TLA+ model of authgate

authgate is an OpenID Connect provider in Go: it delegates sign-in to an upstream
identity provider and issues its own tokens over four flows (browser, device, MCP and
refresh), with all its state in Postgres. This directory holds TLA+ modules of the parts
that decide whether those flows are correct, the TLC configurations that check them and
TLAPS proofs of the most important results. Paths below are relative to the repository.

Almost everything hard in authgate happens between transactions. Several replicas serve
requests at once, a handler runs several statements, Postgres runs them under READ
COMMITTED, and a cleanup job deletes rows underneath. The models therefore keep every
statement, lock, WHERE clause and early return of a handler, and abstract names, scopes,
URLs, hashes and texts away.

## Inventory

| Component | State | Operations | What is hard | What makes it correct |
|---|---|---|---|---|
| Refresh tokens (`internal/storage/refresh_*.go`, `token_issuance.go`) | `refresh_tokens`, `refresh_token_families` | grant, redeem, reuse detection, reuse grace, `/oauth/revoke` | two redemptions at once, revocation against a rotation in flight, locks taken one by one, a bounded connection pool, retention against the grace window | one usable chain per public grant; an ended family stays dead; bounded children; every replay ends its family; every request ends |
| Device flow (`storage_oidc_device.go`, `service/device.go`) | `device_codes`, audit rows | request, sign in, approve, deny, poll, consume | racing decisions, racing polls, session older than the code | tokens at most once; first decision stands; audit rows are true; approved codes are delivered |
| Auth requests (`auth_requests.go`, `auth_code.go`, `service/login*.go`, `mcp_login.go`, `prompt.go`) | `auth_requests`, `sessions` | create, `/login`, callback, complete, save code, exchange | session read twice, two logins on one request, several codes | tokens at most once; `auth_time`, `prompt` and `max_age` are honoured |
| Accounts (`users.go`, `user_lifecycle.go`, `service/login_callback.go`) | `users`, `user_identities` | signup, deletion request, recovery, disable | concurrent signups, stale status | one account per person and address; only the user's interaction cancels a deletion |
| Cleanup (`service/cleanup.go`, `cleanup_runner.go`) | advisory lock, a list of due users | retention deletes, user deletion | replicas, stale list, failure half way | waiting period kept; a deletion is all or nothing; due accounts go |
| Sessions (`sessions.go`, `handler/logout.go`) | `sessions` | create, validate, logout | validated, then revoked before use | covered inside the flows |
| Client access policy (`internal/clientaccess`) | static rules | decode, evaluate | a redeployment, or a changed assertion, between login, exchange and refresh | refused subjects get no tokens after one access token lifetime; what a login admits is served |
| Resource binding (`internal/adapter/mcp/policy.go`, `internal/client/policy.go`) | none | check at `/authorize`, at the token endpoint | a client that changes its channel | no resource-bound token for a browser client |
| CIMD (`internal/adapter/mcp`) | LRU cache, failure records, singleflight | fetch | shared context, negative cache, quota | a failing host is asked a bounded number of times; a withdrawn document is forgotten; a document that stays is served in the end |
| Startup (`internal/app`, `internal/config`, `internal/client/config.go`) | what a process read when it started | load, check, serve, stop | replicas of two releases at once | a bad release never serves; replicas that serve agree |
| Key epochs (`crypto_epochs.go`, `internal/crypto`) | `crypto_key_epochs` | register, check | startups that race on an empty database | all replicas use the roots the data is stored under |
| Signing keys, access tokens (`internal/signing`, `middleware/access_token_typ.go`, `access_token_validation.go`) | a bundle or one key | sign, publish, verify | rotation while tokens are out | every token verifies until it expires, everywhere |
| Rate limiter, pages, telemetry, headers, routing | small or none | | | not modelled |

How they interact: every handler calls `internal/storage`, which shares the tables. The
user's status is written by the account operations and read by every other flow; sessions
are created by callbacks and device logins and read by `/login` and device approval; the
cleanup job deletes from every table. Configuration, keys and clients are read once: they
meet the shared tables only through what replicas of different releases write there.

## Modules

| Module | Models | Uses |
|---|---|---|
| `RefreshTokens` | the refresh-token store with user lifecycle and cleanup as far as they touch tokens | |
| `RefreshGrants` | what the store promises: grants without transactions, clocks or tombstones | |
| `RefreshTokensProofs` | theorems about the rows and families of `RefreshTokens` | `RefreshTokens` |
| `RefreshGrantsProofs` | theorems about its grants, and the refinement | `RefreshTokensProofs`, `RefreshGrants` |
| `DeviceFlow` | device codes, browser decisions, polling | |
| `AuthRequests` | login, session reuse, recovery, authorization codes | |
| `Accounts` | signup, deletion request, recovery, cleanup by several replicas | |
| `ClientMetadata` | resolution of URL-form clients: cache, quota, collapsed fetches | |
| `SigningKeys` | key bundle, signing key, published keys, hint keys, as operators | |
| `ClientAccess` | decoding and evaluation of access rules, as operators | |
| `Deployment` | replicas, releases, key epochs; one person and one client through logins, exchanges and refreshes | `SigningKeys`, `ClientAccess` |
| `DeviceFlowProofs`, `AuthRequestsProofs`, `AccountsProofs`, `ClientMetadataProofs`, `DeploymentProofs` | theorems | the module of that name |
| `MC*` | instances for TLC: symmetry sets and constant values | the module of that name |

Conventions. `now` is `s.clock.Now()`. A request is a process of `Procs`; `req[p].pc` is the
place it has reached and the other fields are its locals, so that what was read before a
lock is used after it exactly as in Go. Tables hold committed data; what a transaction wrote
becomes visible in its commit step. The locks it holds are read off its control state: the
operators `FamilyFree`, `UserFree`, `UserKeyFree` (`RefreshTokens`), `CodeFree` (`DeviceFlow`)
and `RowFree` (`Accounts`) say when a waiting step may go on. In `RefreshTokens`, where one
statement locks several rows, the rows it has so far are in `held`. `Null` (-1) is SQL NULL
for a time, `Nil` an absent reference. Ids and hashes are members of constant sets that are
used once. `Abort` and `Rollback` stand for every way a request breaks off: crash, cancelled
context, database error, and a refusal that leaves no trace in the tables. Definitions named
`X_Bug` are not part of any specification: each is `X` with one plausible mistake, used to
show that a property can fail.

**RefreshTokens.** `TokenRequestByRefreshToken` is the provider's first check, in a
transaction of its own. `CreateAccessAndRefreshTokens` with `consumeRefreshToken` is
`RedeemBegin` (find the family), `RedeemLock` (the advisory lock), `RedeemLoad` (the row lock,
and the validation again), then one of three decisions: `DecideIssue`, followed by the commit
`IssueChild`; `DecideGraceRefuse`, followed by `AuditGraceRefusal`, which writes its audit row
through a second connection of the pool while the transaction is open; `DetectReuse`, which
ends the family. `RevokeBegin`, `RevokeLock` are `revokeRefreshGrant`. Ending a family is a
statement over several rows: its snapshot `snap` is fixed when it starts, `LockRow` takes one
row after the other in any order and checks the WHERE clause again, `EndFamily` commits with
the tombstone. `RequestDeletionBegin`/`RequestDeletionCommit` and
`DeleteUserBegin`/`DeleteUserCommit` (the cleanup's deletion of a user) update the users row
first and then run a statement of the same kind that goes by user and takes no family lock.
That is what READ COMMITTED does: it is where a deletion request and a grant can miss each
other, and where requests can wait in a circle. `Blocks` says who waits for whom;
`BreakDeadlock` is Postgres, which ends one of a circle. An insert waits for the users row
only while `DeleteUser` holds it (`UserKeyFree`: it changes a unique column, the foreign key's
FOR KEY SHARE waits for that). `MaxConns` is the pool; it does not appear in a circle that
Postgres can see. The retention batches of cleanup delete one row at a time here: every
interleaving of their effects is there, a batch that holds rows while it waits for others is
not. `SetUserStatus` is unconditional, as the UPDATE is. Rows removed by cleanup stay
in the model with state `purged`, so that properties can speak about tokens the database has
forgotten; no action reads them. `endedAt` is history: the tombstone disappears, the fact that
the family was ended does not.

**RefreshGrants** is the abstract specification: a family is opened with one token, rotation
replaces the token it redeems, a lenient family may gain a sibling, tokens may lapse, an
ended family is empty for ever. `ImplementsGrants` is the refinement mapping.

**DeviceFlow.** Browser requests run statements without a transaction: `HandleDeviceApprove`
checks session and account, `ApproveCheck` reads policy and auth time, `ApproveDeviceCode` is
the conditional `UPDATE`, the audit row comes last; likewise for a denial. A callback whose
client cannot be resolved passes its policy check, as in the code. A poll holds the row lock
from `PollLoad` to its commit; tokens are issued in a later transaction. `open` records
whether the subject was at some moment of the poll both active and admitted (`Entitled`): the
poll reads account and policy one after the other.

**AuthRequests.** `HandleLogin` reads request and session, `HandleExistingSession` reads the
auth time and decides on what was read before, `RecoverUser` and `CompleteAuthRequest` write.
A second has `Second` ticks, so that a session can be a fraction of a second old;
`TooOldForMaxAge` cuts the age to whole seconds as `sessionTooOldForMaxAge` does. `Callback`
follows an upstream sign-in; it needs the state cookie that `RedirectToIdP` handed out.
`RequestDeletion` and the operator's unconditional `SetUserStatus` change the account
underneath. The provider library (zitadel/oidc) is modelled as this repository uses it: a
code is saved only for a request that is done, and `prompt=login` arrives as `interactive`.

**Accounts.** A login is looked up, signed up or recovered in separate steps. A replica's
cleanup takes the advisory lock and the clock, lists due users, and deletes each in a
transaction: the guarded `UPDATE` (`MarkUserDeleted`), identities, sessions and the rest,
commit (`DeleteUser`, which sets `deletedAt`). `DeleteUserFails` breaks it off at any of them.
`UnlockFails` is a run whose context was cancelled, or whose unlock failed: the connection goes
back into the pool with the advisory lock on it (`leaked`), and is freed only by
`CloseConnection` (the lifetime of a pooled connection, or the end of the process).
`ReplicaStops` is a crash. Faults happen at most `MaxFaults` times. The operator's
`SetUserStatus` waits for the row lock and then writes whatever the status is, a deleted
account included. The audit rows of a login are left out.

**ClientMetadata.** One process of `Procs` is one `FetchClient`: `Lookup`, `RemoveExpired`,
`IsRateLimited` and `Do` are separate steps because the LRU and the failure tracker lock each
on its own. A flight is one call of `singleflight.Do`; who joins it waits for its answer. It
runs with the context of the first caller, so that `BreaksOff` fails all of them; the failure
is recorded, then cached. Entries and failures carry the time that is left or has passed
instead of a clock, which keeps the graph finite. A URL is a model value with its canonical
form (`KeyOf`) and its document (`DocOf`); a `max-age` is multiplied modulo `DurationSpan`, as
Go multiplies durations. The LRU is golang-lru as this code uses it, marked external.
`Prune` cuts a prefix where `pruneOldTimestamps` filters: the times are appended in order, so
that what has aged out is a prefix. `OnlyRecentFailuresCount` proves that it always is.
Whether the quota is kept is not read off the tracker but off what the network sees: `asked`
has the ages of the failed fetches of one URL, `Watched`, within the window, whoever remembers
them, and `lost` the time since the tracker evicted the record of that URL. `Newest` keeps one
more of them than the quota allows, which is enough to see it broken. The quota is per
canonical client_id, as in the code: a spelling with a query is a client_id of its own.

**Deployment.** A process goes through startup in the order of `app.Run` and then serves with
what it read. `EnsureCryptoEpochs` is three statements per domain, without a transaction.
A plan of the constant `Plans` fixes what operators and the upstream provider may do; Init
picks one. Operators follow `docs/architecture/issuer-signing-key-rotation.md`: the next
release is rolled out when every replica runs the last one, and a key is unpublished only
one access token lifetime later. A pod of the previous release may be restarted until then.
Logins are those of `AuthRequests` with everything but channel, resource, policy and
assertion removed. The writes of a callback are one step: what it decides depends on its own
assertion and on the address stored at signup, which nothing changes, so that the steps of
two callbacks commute up to the order in which they record the hosted domain. A code
exchange is two steps, as it is two transactions: `AuthRequestByCode` checks the policy,
`CreateAccessAndRefreshTokens` issues and does not check again; exchanges between the two are
in `exchanging`, with the hosted domain they were checked for, and end with their process
(`ExchangeFails` is any other failure). `Refresh` is one step: the expiry of its token is
computed before the transaction that checks the policy, so that the token lives no longer
than one lifetime from the check. `live` keeps the youngest access token of each kind, which
is the one that matters for every property. `said` and `refusedFor` are history. A legacy key
file may be unreadable, which stops the startup (`ParseRSAKey`); the `previous` slot of the
key set (`signing/provider.go`) is never filled by the program and contributes no key.

## Runs

All bounds are CONSTANTS in the `.cfg`. `MaxTime` ends the clock; one tick is the unit in
which the durations are given, chosen so that every window opens and closes at least once
before it. Runs with such a clock set `CHECK_DEADLOCK FALSE`: when it has reached its bound
and the ids are used up, nothing is left to do. The runs of `ClientMetadata` and `Deployment`
have no clock and check for deadlock. Symmetry is used in safety runs only.

| Run | Instance | Shows |
|---|---|---|
| `refresh_public` | 3 tokens, 1 family, 2 requests, transactions of one tick, clock to 3 | `PublicGrantIsLinear`, `DeletedUserHasNoTokens`, `RevocationIsFinal`, `TypeOK` |
| `refresh_grace` | 4 tokens (two children and a grandchild), a client with grace 1, retention as short as `RetentionAssumption` allows | `EndedFamilyStaysDead`, `ChildrenBounded` where rows and tombstones go earliest; `FamilyLockOrders`: a circle of waiting requests always contains a statement that goes by user |
| `refresh_progress` | 3 tokens, both kinds of client, 2 requests, 3 connections, no failures but Postgres's, fair | `ImplementsGrants` for grants with and without grace, `RequestsFinish`, `ReplayEndsFamily` |
| `device_decisions` | 1 code, 2 users with a session each, 2 requests | `IssuedOnce`, `DecisionIsFinal`, `LateApprovalIsInert`, `ApprovalTrailIsTrue`, `TypeOK` |
| `device_delivery` | 1 user, 2 requests, interval 2, account and policy change, fair | `ClosedAccountGetsNothing`, `ApprovedCodeDelivers`, `PendingAnswersAreSpaced` |
| `auth_codes` | 1 auth request, 2 users, 2 sessions, 2 requests, 2 codes | `IssuedOnce`, `AuthTimeIsHonest`, `TypeOK` |
| `auth_sessions` | 2 auth requests one after the other, 1 session, every prompt mode, both channels, `max_age` none or 0, a clock of half seconds, deletion requests, an operator | `InteractiveIsFresh`, `MaxAgeIsHonoured`, `OnlyInteractionRecovers` |
| `accounts` | 2 accounts, 2 logins, 2 replicas, people who share an address, 2 faults, leaked locks included, fair | `OneAccountPerPerson`, `IdentityIsKept`, `DeletionWaits`, `ClosedStaysClosed`, `DueAccountsGo`, `TypeOK` |
| `client_metadata` | 2 requests, 3 spellings of one URL, 1 valid and 1 invalid document, cache and tracker of 1 entry, a quota of 2 in 2 ticks, headers up to one that overflows, fair | `QuotaHolds`, `WithdrawnIsForgotten`, `DocumentReachesCallers`, `TypeOK` |
| `deployment` | 2 replicas, 6 plans | `RootsAgree`, `RotationIsSeamless`, `RemovalTakesEffect`, `AdmittedIsServed`, `BrowserIsUnbound`, `TypeOK` |

Two more runs, `refresh_pool` and `device_denial_trail`, each refute a sentence of a comment or
a test; they are described below.

The plans of `deployment`: *Rotation* replaces the legacy key by a bundle and then its key by
another, in the five releases of the runbook, removes the client, and ends with a bundle that
does not load; tokens live two ticks. *Leaving* moves an MCP client to the browser channel
while its user leaves the workspace. *Narrowing* replaces a workspace rule by address rules
while two logins run and the user changes address. *Racing* starts replicas with seven sets of
root secrets on an empty database: equal, different in one secret, different in all, one
`key_id` for both domains, short, partial, absent. *RacingDev* is development mode, where
absent roots are allowed. *Damaged* rolls out a release whose legacy key file does not parse.
Each plan asks its own question, so that states add up instead of
multiplying.

Why these bounds are enough to be interesting: every property above is about two actors on one
row, family, code or account, so two processes and one contended object reach each race, and
two replicas make every mixture of two releases. A third token or second child is there so that
a family can continue after a race; a second auth request because freshness is about a session
that outlives the request it was created for; two ticks to the second so that rounding shows; a
tracker of one entry so that evictions happen. The passing runs between them fire every action,
and for each property there is a mutant of the model (`PROJECT.json`, `mutants`) that violates
it within the same bounds.

### Where the code and its documentation disagree

Two runs check what a comment or a test says, and TLC finds a behaviour of the code that
contradicts it. `PROJECT.json` (`findings`) has the quotations.

* `refresh_pool`: `internal/storage/audit.go:182` says the callers of the audit log have committed
  their transaction, and `refresh_reuse_grace_integration_test.go:461` that nothing may
  deadlock. A redemption refused by the grace writes its audit row through the pool while its
  transaction holds the family lock. If all other connections belong to requests that wait for
  that lock, both sides wait; Postgres does not see it. The run has 2 connections and 2
  requests, the same redemptions with 3 connections finish (`refresh_progress`).
* `device_denial_trail`: the comment at `internal/service/device.go:289` says no denial is
  recorded for a code already decided. The state is read before the `UPDATE`, so an approval in
  between is followed by an `auth.device_denied` row.

In these cases the documents promise more than the code does. The runs check the weaker property
that does hold, and its comment in the module says what is missing from it.

* `docs/spec/006-account-lifecycle.md:86` says a deletion request revokes all refresh tokens at
  once. A fresh grant that has passed its user check and not yet committed when the user-wide
  `UPDATE` starts leaves a token that the `UPDATE` never sees; the child of a rotation in flight
  escapes the same way. Such a token cannot be redeemed while the account is pending deletion; it
  can after a recovery. `DeletedUserHasNoTokens` holds: none outlives the deletion itself.
* `docs/spec/002-browser-login.md:185`, the comment at `internal/service/prompt.go:107` and
  `max_age_unit_test.go:67` say `max_age=0` refuses every existing session. The age is cut to
  whole seconds, so that a session less than a second old passes. `MaxAgeIsHonoured` holds: less
  than one second is lost.
* `docs/tests/003-e2e-cycles.md:98` calls `deleted` terminal, and
  `docs/spec/006-account-lifecycle.md:44` says the account cannot be recovered. The operator's
  `UPDATE` has no condition on the status. The account gets its status back, but neither its
  identity (`IdentityIsKept`) nor a way to be signed in to (`ClosedStaysClosed`).
* The comment at `cimd_ratelimit.go:13` bounds the failures of a client_id within the window. The
  tracker is an LRU: failures of enough others (4096 in the code) evict the record, and the count
  starts again. `QuotaHolds` bounds the failures since the last eviction.
* `docs/spec/004-mcp-login.md:394` says the negative entry blocks requests to a failing host for
  30 seconds. A request that had missed the cache before the entry was stored still starts a fetch
  of its own; the quota bounds how many do.
* `docs/spec/004-mcp-login.md:448` says a document taken down is served for five minutes at most.
  That is the default lifetime; a publisher's `max-age` is honoured up to the ceiling of 24 hours,
  which is the bound `WithdrawnIsForgotten` checks.
* The comment at `internal/service/login_callback.go:76`, `docs/spec/002-browser-login.md:200`,
  `docs/tests/002-channel-flows.md:70` and the comment at `client_access_unit_test.go:484` say the
  callback judges what the provider has just asserted and not the stored address. For an existing
  account `client_access.go:36` requires both, and `docs/spec/009-operations.md:395` and the body
  of that test say so too. It is the stricter rule that makes `AdmittedIsServed` hold: later steps
  see the stored address only.

Smaller ones:

* `docs/spec/003-device-login.md:204` says an expired device code cannot be approved. The
  `UPDATE` compares the expiry with the session's creation time. It is harmless:
  `LateApprovalIsInert` shows that such a code is never consumed.
* `internal/service/cleanup.go:31` says tombstones catch a replay after the row is gone. A
  tombstone exists only for a family that was ended; a rotated-out token whose row was removed
  is refused as unknown and ends nothing.
* The comment at `internal/storage/refresh_grace.go:41` says a replay in the window is only
  refused (`graceRefuse`) if a token was revoked on purpose; the code returns `graceNone`, which
  revokes and tombstones the family. The code is the stricter of the two.
* `docs/spec/007-data-model.md:296` gives `auth.deletion_cancelled` as the trail of a cancelled
  deletion. `RecoverUser` reports success when it hits no row, and the callback writes the
  row for an account that was deleted or disabled in between. The account itself stays as it
  is: `ClosedStaysClosed`.

Four behaviours worth knowing, which no document denies:

* Replicas with different root secrets on an empty database may register the enc epoch of
  one set and the lookup epoch of the other. Neither set then starts. It fails closed
  (`RootsAgree`), but needs an operator; so does one set with the same `key_id` for both
  domains, whose second insert is swallowed by `ON CONFLICT DO NOTHING`.
* The policy is checked when a code is looked up and not when tokens are issued for it. A
  callback that records another hosted domain in between does not stop the issuance, which
  hands out a token of full lifetime. `RemovalTakesEffect` therefore counts the lifetime from
  the end of such exchanges (`Overtaken`). A policy narrowed by a release needs no such care:
  an exchange ends with the process that checked it.
* With `ENABLE_MCP=false` the core policy compares stored and requested resource only; the
  channel and resource matrix is part of the MCP policy. `BrowserIsUnbound` therefore speaks
  about processes with MCP.
* A missing legacy key file is generated (`signing/pem.go:25`). Two replicas that start
  together without one sign with different keys under one `kid`. The model has the file.

### Fairness

* A handler that can take its next step takes it (weak fairness): goroutines run on. The
  fair runs of tokens and device codes exclude failures (`MayFail = FALSE`), which are
  unrestricted elsewhere; the runs of accounts and client metadata bound their number.
* A step that waits for an advisory or row lock is strongly fair, because Postgres grants a
  lock to its waiters in queue order; so is one that waits for a connection, which
  `database/sql` hands out in queue order. `BreakDeadlock` is weakly fair: Postgres looks for
  a circle after `deadlock_timeout`.
* `ApprovedCodeDelivers` assumes in addition that the device keeps polling, as RFC 8628 asks.
* `DocumentReachesCallers` assumes that a running request and a flight go on, that time passes
  and that requests keep coming; faults and changes of the document are finitely many
  (`MaxFaults`, `MaxChanges`), because it speaks about what happens once they are over.
* `DueAccountsGo` assumes that some replica's ticker keeps firing (`CleanupService.Start`) and
  that a run goes on, and that the pool closes a connection in the end (`DBConnMaxLifetime`),
  which is what frees a leaked lock. Signups, recoveries, grants and requests are never assumed
  to happen.

## Proofs

TLAPS proves the following for every choice of the constants that satisfies the assumptions of
the modules: any number of tokens, requests, users, replicas, callers, any duration. Every
invariant and every action property that a passing run checks is proved.

| Module | Theorem | States |
|---|---|---|
| `RefreshTokensProofs` | `TypeCorrect` | `[]TypeOK` |
| | `EndedFamiliesStayDead` | `[]EndedFamilyStaysDead` |
| | `FamilyLockComesFirst` | `[]FamilyLockOrders` |
| | `RevocationsAreFinal` | `RevocationIsFinal` |
| `RefreshGrantsProofs` | `PublicGrantsAreLinear` | `[]PublicGrantIsLinear` |
| | `ChildrenAreBounded` | `[]ChildrenBounded` |
| | `DeletionIsComplete` | `[]DeletedUserHasNoTokens` |
| | `GrantsImplemented` | `ImplementsGrants`, the refinement of `RefreshGrants` |
| `DeviceFlowProofs` | `TypeCorrect` | `[]TypeOK` |
| | `CodeIsIssuedOnce` | `[]IssuedOnce` |
| | `LateApprovalNeverConsumed` | `[]LateApprovalIsInert` |
| | `OnlyOpenAccounts` | `[]ClosedAccountGetsNothing` |
| | `ApprovalTrail` | `[]ApprovalTrailIsTrue` |
| | `FirstDecisionStands` | `DecisionIsFinal` |
| | `PendingSpaced` | `PendingAnswersAreSpaced` |
| `AuthRequestsProofs` | `TypeCorrect` | `[]TypeOK` |
| | `CodeIsRedeemedOnce` | `[]IssuedOnce` |
| | `HonestAuthTime` | `[]AuthTimeIsHonest` |
| | `FreshInteraction` | `[]InteractiveIsFresh` |
| | `MaxAgeHonoured` | `[]MaxAgeIsHonoured` |
| | `RecoveryIsInteractive` | `OnlyInteractionRecovers` |
| `AccountsProofs` | `TypeCorrect` | `[]TypeOK` |
| | `SignupIsUnique` | `[]OneAccountPerPerson` |
| | `NobodyLosesIdentity` | `[]IdentityIsKept` |
| | `WholePeriodWaited` | `DeletionWaits` |
| | `ClosedForGood` | `ClosedStaysClosed` |
| `ClientMetadataProofs` | `TypeCorrect` | `[]TypeOK` |
| | `QuotaIsKept` | `[]QuotaHolds` |
| | `WithdrawnDocumentsGo` | `WithdrawnIsForgotten` |
| | `OnlyRecentFailuresCount` | `[]AgedOutFirst` |
| `DeploymentProofs` | `TypeCorrect` | `[]TypeOK` |
| | `RootsNeverDisagree` | `[]RootsAgree` |
| | `BrowsersAreUnbound` | `[]BrowserIsUnbound` |
| | `AdmissionIsHonoured` | `[]AdmittedIsServed` |
| | `RemovalIsTimely` | `[]RemovalTakesEffect` |
| | `RunbookIsSeamless` | `FollowsRunbook(plan) => []RotationIsSeamless` |

The refinement is stated for `Spec`, without fairness; `RefreshGrants` has none.

### Assumptions

Most assumptions only type the constants. Those that say something:

* `RetentionAssumption` (`RefreshTokens`): the grace plus two transaction times fits into each
  retention period, and two transaction times into the waiting period of a deletion. In the
  code: a grace of seconds against days (`cleanup.go:34-44`). `MaxWait`, the longest a
  transaction may take, is an assumption about the deployment: no code enforces it, and a
  transaction would have to hang for days to break it.
* `MetadataConstants` (`ClientMetadata`): canonicalization is idempotent, the
  watched URL is canonical, the floor of the
  lifetimes is at most their ceiling, a Cache-Control value is absent, `no-store` or a
  `max-age` with any integer.
* `DeploymentConstants` and `PlanShapes` (`Deployment`) give plans their shape. `StoredAccount`:
  an account that exists when a plan begins was stored under the one set of roots that all
  later processes have, with different key ids for the two domains, since `key_id` is a
  primary key.
* `RunbookIsSeamless` has `FollowsRunbook(plan)` as hypothesis, because releases that do not
  follow `docs/architecture/issuer-signing-key-rotation.md` do break tokens: a release that
  loads publishes the key of the one before it, which published its own already, and lists
  every key of it. It speaks of the files of the releases; `RunbookKeys` derives the key sets
  the code makes of them. `MCDeployment` checks that all plans of the run satisfy it.

### Arguments

No property above except the type invariants is inductive; each module proves one invariant
(`Inv`, for the grants `GrantInv` on top of it) that TLC has checked on the runs' instances.

**Ended families.** A rotation that has already decided to issue would revive an ended family;
only the family lock excludes it, so `FamilyLockExclusive` and `KnowsFamily` (the locked
family is the family of the presented token) are needed. A statement that ends a family takes
its rows one by one; `KnowsRows` says that its snapshot still contains all that is live in the
family when it commits, since nobody can add to it. A redeemed token inside the grace would
revive the family after its tombstone was removed; only the clock excludes that, so `EndedOnce`
relates the times: a tombstone is dated at most `MaxWait` before the family ended (it carries
the clock read before the wait for the lock), every redemption in the family is no later than
the end, and a removed tombstone means that the grace of all of them is over, also for a
request whose clock reading is `MaxWait` old (`Timed`). `RowsWellFormed` and `RedeemsOnce` say
that `used_at` and `revoked_at` of a redeemed row agree and that the row under a first
redemption is still clean, which also gives `RevocationsAreFinal`. `NoIssueIntoEnded` is the
heart: no request can decide to issue into an ended family.

**Lock order.** In a circle without a statement that goes by user everyone waits for someone
in the circle. A holder of a family lock holds rows of that family only (`KnowsRows`), and one
that waits for a row has the family lock, so whoever it waits for would have the same lock,
which `FamilyLockExclusive` excludes; and one that waits for a family lock holds nothing, so
nobody waits for it (`NoFamilyCircle`).

**Grants.** `countRedemptionChildren` counts the children that are in the table,
`ChildrenBounded` all that were ever issued. The count is exact when it matters
(`CountIsExact`) because of `ChildDated`: a child is dated no earlier than the redemption of
its parent, so that cleanup removes it only when the parent is out of the grace, or gone.
`GrantBeforeDeletion` dates a grant in flight against the deletion of its user. Every step lets
rows lapse, ends a family, or stores a row (`Lapses`, `Ends`, `Issues`); the refinement is
proved shape by shape, each lemma computing how the abstract variables move.

**Device flow.** `RowLockExclusive`: one poll at a time is between `PollLoad` and its commit.
`PollView` says what such a poll may rely on (the row is as it was read, the clock it read is
not ahead), `CodeHistory` relates decision, consumption and their times, `Minting` that a
consumed code has one request that may still issue. `Trail` says that an approval that hit
its row is about to be recorded for the user now bound.

**Auth requests.** `Good(r, u, t)` collects what a sign-in of `u` at `t` must satisfy to
answer request `r`: it happened, is fresh for `prompt=login`, less than a second over `max_age`
(`WholeSeconds`: what the truncated comparison lets through). The
invariant follows it through every place it passes: the session (`SessionSeen`), the locals of
a handler that has read it and not yet written it (`Trusted`), the row (`RowSound`), the token
(`TokensGood`). `Kept` says that what was asked never changes and sign-ins are not forgotten.

**Accounts.** `OneCleanup` (advisory lock) and `StillDue`: what the guarded `UPDATE` saw holds
until the commit, although the list it came from is stale: the operator has to wait for the
row. `RowSound` relates identity and address to `deleted_at`, which no later status changes,
and the two dates of a pending deletion, which gives the waiting period.

**Client metadata.** `Served`: what is left of an entry's lifetime plus the time its document
has been gone never exceeds `MaxStaleness`; a document in flight has been gone no longer than
the flight has lasted. `Quota`: for each id, what is counted plus the callers past the check
plus the fetch that may still fail stays within the allowance. When a caller passes, the count
is below the limit, and if a fetch is out, the caller that waits for it cannot pass too
(`FlightIsAwaited`). Only canonical ids are recorded, so spellings share one count. `Kept` ties
this to what the network saw: since the last eviction, the record in the tracker and the
history of failures end alike (`Remembers`), so that a bound on the record bounds the failures.
The lemmas before it say what `Add`, `Touch`, `Without` and `Prune` do to an LRU list.

**Deployment.** An epoch is never replaced, so that what a process compared at startup holds
while it serves (`ProcessSound`); `AccountSound` ties the account to the same epochs.
`LoginSound` keeps with a code the policy decision it rests on, `ExchangeSound` with an
exchange under way the decision of the replica that checked it, for the hosted domain it read.
`RefusalAges`: no token is younger than the refusal of the account, since an exchange that may
still issue against it is one that `Overtaken` sees. `KeysKept`: a live token that the release
being rolled out has not signed was issued before that release was everywhere, so its remaining
life and the time since add up to at most one lifetime, and the wait before a key is
unpublished is enough.

### Only model-checked

Liveness, which is out of the prover's reach: `RequestsFinish`, `ReplayEndsFamily`,
`ApprovedCodeDelivers`, `DueAccountsGo`, `DocumentReachesCallers`.

## Not modelled

Cryptography, token formats, PKCE, redirect URIs and the OIDC exchange (libraries); scopes; the
rate limiter (a library's buckets in a library's LRU); address filtering of the CIMD transport;
the generation of a missing key file; row locks that a retention batch of cleanup holds while
it waits for more; audit anonymization; HTTP headers, cookies, CSRF, pages, logging, telemetry;
the single limits of the configuration (one flag); migrations. `PROJECT.json` lists each
component with its reason.

## Plan

1. Done: refresh tokens with abstract specification and proofs; device flow; auth requests;
   accounts and user deletion; client metadata; startup, key epochs, signing keys, access
   policy and resource binding across releases.
2. Done: proofs of every invariant and action property of the passing runs, and of the
   refinement.
3. Left: the cleanup run as a whole (batches, steps that fail independently, audit
   anonymization on two clocks); the audit trail of logins; an abstract specification that
   device codes and auth requests share (a grant that is asked for, decided once and redeemed
   once), with the refinements proved.
