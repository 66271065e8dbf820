--------------------------- MODULE ClientMetadata ---------------------------
(***************************************************************************)
(* Resolution of an OAuth client: the static table loaded from the client  *)
(* file, then, for a client_id that is a URL, the document served at that  *)
(* URL (CIMD).  The fetcher keeps a positive and negative LRU cache, an    *)
(* LRU of recent failures per client_id, and collapses concurrent fetches. *)
(*                                                                         *)
(* Each caller is one HTTP request at a time; every access to the shared   *)
(* cache, tracker and singleflight group is a step of its own.  Instants   *)
(* are kept as countdowns and ages, so that time goes on for ever.         *)
(***************************************************************************)
EXTENDS Integers, Sequences, FiniteSets, SequencesExt

CONSTANTS
  ClientIds,
  UrlForm,          \* IsCIMDClientID: https, host, path, no user, no fragment
  KeyOf,            \* canonicalCIMDKey
  BaseOf,           \* stripCIMDQuery
  NoneIds,          \* ids with the query token_endpoint_auth_method=none
  HostOf,
  PublicHosts,      \* hosts with an address that isPrivateIP admits
  AllowedHosts,     \* MCP_CIMD_HOST_ALLOWLIST
  AnyHost,          \* its entry "*"
  ConfigIds,        \* client_ids of the client file
  DocOf,            \* the document of its server that a URL names
  Documents,        \* what a publisher may serve
  Content,          \* the members of a document: type CIMDMetadata
  Procs,            \* concurrent requests
  Asks,             \* the client_ids each of them resolves
  Headers,          \* Cache-Control values
  DurationSpan,     \* number of values of a time.Duration (int64)
  CacheMax,         \* cimdCacheMaxEntries
  NegativeTTL, FloorTTL, CeilTTL, DefaultTTL,
  FailureLimit, FailureWindow,
  FetchTimeout,     \* http.Client.Timeout
  MaxChanges,       \* bound: documents replaced by their publisher
  MaxFaults,        \* bound: fetches that break off
  Watched,          \* the URL whose failed fetches the history follows
  Nil

ASSUME MetadataConstants ==
  /\ {CacheMax, NegativeTTL, FloorTTL, FailureLimit, FailureWindow, DurationSpan} \subseteq Nat \ {0}
  /\ {CeilTTL, DefaultTTL, FetchTimeout, MaxChanges, MaxFaults} \subseteq Nat
  /\ FloorTTL <= CeilTTL
  /\ AllowedHosts # {}
  /\ AnyHost \in AllowedHosts => AllowedHosts = {AnyHost}
  /\ \A id \in ClientIds : KeyOf[KeyOf[id]] = KeyOf[id]
  /\ IsFiniteSet(Procs) /\ \A p \in Procs : Asks[p] \subseteq ClientIds
  /\ Headers \subseteq {<<"absent">>, <<"no-store">>} \cup ({"max-age"} \X Int)
  /\ Nil \notin Documents
  /\ Watched \in ClientIds /\ KeyOf[Watched] = Watched

VARIABLES
  docs,        \* the document each URL serves
  gone,        \* ticks since a URL stopped serving a document, at most Forgotten
  changes, faults,
  cache,       \* cimdCache, most recently used first
  failures,    \* failureTracker, most recently used first
  flights,     \* singleflight.Group
  req,         \* control state and locals of each caller
  asked,       \* history: ages of the failed fetches of Watched within the window
  lost         \* history: ticks since the tracker dropped the record of Watched

vars == <<docs, gone, changes, faults, cache, failures, flights, req, asked, lost>>

history == <<asked, lost>>

----------------------------------------------------------------------------
(* Types                                                                   *)

Urls == {DocOf[id] : id \in ClientIds}

MaxStaleness == CeilTTL + FetchTimeout

Forgotten == MaxStaleness + 1

(* A document of the cache is Nil in a negative entry. *)
Entry == [id : ClientIds, doc : Documents \cup {Nil}, left : Nat]

FailureRecord == [id : ClientIds, ages : Seq(0 .. FailureWindow)]

(***************************************************************************)
(* fetch      the request is out                                           *)
(* record     it failed, Record is next                                    *)
(* negative   PutNegative is next                                          *)
(* positive   the document is validated, PutPositive is next               *)
(***************************************************************************)
Flight == [phase : {"none", "fetch", "record", "negative", "positive"},
           age   : 0 .. FetchTimeout,
           doc   : Documents \cup {Nil},
           ttl   : Nat]

NoFlight == [phase |-> "none", age |-> 0, doc |-> Nil, ttl |-> 0]

Request == [pc     : {"idle", "lookup", "remove", "limit", "do", "wait"},
            id     : ClientIds \cup {Nil},
            answer : Documents \cup {Nil}]

Idle == [pc |-> "idle", id |-> Nil, answer |-> Nil]

TypeOK ==
  /\ docs \in [Urls -> Documents]
  /\ gone \in [Urls -> [Documents -> 0 .. Forgotten]]
  /\ changes \in 0 .. MaxChanges /\ faults \in 0 .. MaxFaults
  /\ cache \in Seq(Entry) /\ Len(cache) <= CacheMax
  /\ failures \in Seq(FailureRecord) /\ Len(failures) <= CacheMax
  /\ flights \in [ClientIds -> Flight]
  /\ req \in [Procs -> Request]
  /\ asked \in Seq(0 .. FailureWindow) /\ lost \in 0 .. FailureWindow

----------------------------------------------------------------------------
(* A definition named X_Bug is X with one mistake in it; it belongs to no  *)
(* specification and shows that a property can fail.                       *)

(* golang-lru: unique ids, most recently used first. *)
Has(lru, id) == \E i \in 1 .. Len(lru) : lru[i].id = id

Position(lru, id) == CHOOSE i \in 1 .. Len(lru) : lru[i].id = id

Get(lru, id) == lru[Position(lru, id)]

Without(lru, id) == IF Has(lru, id) THEN RemoveAt(lru, Position(lru, id)) ELSE lru

(* Nothing is evicted. *)
Add_Bug(lru, e) == <<e>> \o Without(lru, e.id)

Add(lru, e) ==
  LET all == <<e>> \o Without(lru, e.id)
  IN  IF Len(all) > CacheMax THEN SubSeq(all, 1, CacheMax) ELSE all

Touch(lru, id) == IF Has(lru, id) THEN <<Get(lru, id)>> \o Without(lru, id) ELSE lru

----------------------------------------------------------------------------
(* Which client_ids are fetched at all                                     *)

(* Load drops URL-form ids from the client file. *)
StaticClients == ConfigIds \ UrlForm

Canonical(id) == KeyOf[id] = id

AllowsClientID(id) == AnyHost \in AllowedHosts \/ HostOf[id] \in AllowedHosts

Fetchable(id) == id \in UrlForm \ StaticClients /\ Canonical(id) /\ AllowsClientID(id)

----------------------------------------------------------------------------
(* validateCIMDMetadata                                                    *)

OffersNone(meta, id) == id \in NoneIds \/ "none" \in meta.methodsSupported

(* sound: status 200, application/json, at most 10 KB, valid JSON, every    *)
(* length within its limit.                                                 *)
Valid(d, id) ==
  LET meta == Content[d] IN
  /\ meta.sound
  /\ meta.clientId \in {id, BaseOf[id]}
  /\ meta.redirectURIs # {}
  /\ meta.grantTypes = {} \/ "authorization_code" \in meta.grantTypes
  /\ meta.authMethod \in {"", "none"} \/ OffersNone(meta, id)
  /\ meta.responseTypes \subseteq {"code"}

----------------------------------------------------------------------------
(* cacheTTLFromCacheControl                                                *)

(* time.Duration(seconds) * time.Second wraps around. *)
AsDuration(n) ==
  LET half == DurationSpan \div 2 IN ((n + half) % DurationSpan) - half

(* A Cache-Control value is "absent", "no-store" or the number of max-age. *)
ParseCacheControlTTL(header) ==
  CASE header = <<"absent">>   -> DefaultTTL
    [] header = <<"no-store">> -> 0
    [] OTHER -> IF header[2] <= 0 THEN 0 ELSE AsDuration(header[2])

(* No ceiling. *)
CacheTTL_Bug(header) ==
  LET ttl == ParseCacheControlTTL(header)
  IN  IF ttl < FloorTTL THEN FloorTTL ELSE ttl

CacheTTL(header) ==
  LET ttl == ParseCacheControlTTL(header)
  IN  IF ttl < FloorTTL THEN FloorTTL ELSE IF ttl > CeilTTL THEN CeilTTL ELSE ttl

----------------------------------------------------------------------------
(* pruneOldTimestamps                                                      *)

(* The times are in the order of the failures: those outside the window    *)
(* are a prefix.                                                           *)
InWindow(ages) ==
  LET old == {i \in 1 .. Len(ages) : ages[i] >= FailureWindow}
  IN  SubSeq(ages, Cardinality(old) + 1, Len(ages))

(* Failures never age out. *)
Prune_Bug(ages) == ages

Prune(ages) == InWindow(ages)

Pruned(id) == [id |-> id, ages |-> Prune(Get(failures, id).ages)]

(* The number of failures of id that still count. *)
Counted(id) == IF Has(failures, id) THEN Len(Prune(Get(failures, id).ages)) ELSE 0

----------------------------------------------------------------------------
Init ==
  /\ docs \in [Urls -> Documents]
  /\ gone = [u \in Urls |-> [d \in Documents |-> IF d = docs[u] THEN 0 ELSE Forgotten]]
  /\ changes = 0 /\ faults = 0
  /\ cache = <<>> /\ failures = <<>>
  /\ flights = [id \in ClientIds |-> NoFlight]
  /\ req = [p \in Procs |-> Idle]
  /\ asked = <<>> /\ lost = FailureWindow

Older(n, cap) == IF n < cap THEN n + 1 ELSE cap

AllOlder(ages) == [j \in DOMAIN ages |-> Older(ages[j], FailureWindow)]

(* The fetcher's clock.  A fetch ends within FetchTimeout. *)
Tick ==
  /\ \A id \in ClientIds : flights[id].phase # "none" => flights[id].age < FetchTimeout
  /\ gone' = [u \in Urls |-> [d \in Documents |->
       IF d = docs[u] THEN 0 ELSE Older(gone[u][d], Forgotten)]]
  /\ cache' = [i \in DOMAIN cache |->
       [cache[i] EXCEPT !.left = IF @ > 0 THEN @ - 1 ELSE 0]]
  /\ failures' = [i \in DOMAIN failures |->
       [failures[i] EXCEPT !.ages = AllOlder(@)]]
  /\ flights' = [id \in ClientIds |->
       IF flights[id].phase = "none" THEN NoFlight ELSE [flights[id] EXCEPT !.age = @ + 1]]
  /\ asked' = InWindow(AllOlder(asked))
  /\ lost' = Older(lost, FailureWindow)
  /\ UNCHANGED <<docs, changes, faults, req>>

(* The publisher replaces the document. *)
Publish(u, d) ==
  /\ changes < MaxChanges
  /\ d # docs[u]
  /\ docs' = [docs EXCEPT ![u] = d]
  /\ gone' = [gone EXCEPT ![u][docs[u]] = 0, ![u][d] = 0]
  /\ changes' = changes + 1
  /\ UNCHANGED <<faults, cache, failures, flights, req, history>>

----------------------------------------------------------------------------
(* FetchClient                                                             *)

Answer(p, d) == req' = [req EXCEPT ![p].pc = "idle", ![p].answer = d]

(* ResolveClient and the gates of FetchClient.  A static client is answered *)
(* from the table, an id that is not fetchable refused, and neither touches *)
(* the state.                                                               *)
Begin(p, id) ==
  /\ req[p].pc = "idle"
  /\ Fetchable(id)
  /\ req' = [req EXCEPT ![p] = [pc |-> "lookup", id |-> id, answer |-> Nil]]
  /\ UNCHANGED <<docs, gone, changes, faults, cache, failures, flights, history>>

(* cache.Lookup up to its Remove. *)
Lookup(p) ==
  LET id == req[p].id IN
  /\ req[p].pc = "lookup"
  /\ cache' = Touch(cache, id)
  /\ IF Has(cache, id) /\ Get(cache, id).left > 0
     THEN Answer(p, Get(cache, id).doc)
     ELSE req' = [req EXCEPT ![p].pc = IF Has(cache, id) THEN "remove" ELSE "limit"]
  /\ UNCHANGED <<docs, gone, changes, faults, failures, flights, history>>

(* Another caller may have put a fresh entry meanwhile; it goes too. *)
RemoveExpired(p) ==
  /\ req[p].pc = "remove"
  /\ cache' = Without(cache, req[p].id)
  /\ req' = [req EXCEPT ![p].pc = "limit"]
  /\ UNCHANGED <<docs, gone, changes, faults, failures, flights, history>>

(* One failure more. *)
IsRateLimited_Bug(p) ==
  LET id == req[p].id IN
  /\ req[p].pc = "limit"
  /\ failures' = IF Has(failures, id) THEN Add(failures, Pruned(id)) ELSE failures
  /\ IF Counted(id) > FailureLimit
     THEN Answer(p, Nil)
     ELSE req' = [req EXCEPT ![p].pc = "do"]
  /\ UNCHANGED <<docs, gone, changes, faults, cache, flights, history>>

IsRateLimited(p) ==
  LET id == req[p].id IN
  /\ req[p].pc = "limit"
  /\ failures' = IF Has(failures, id) THEN Add(failures, Pruned(id)) ELSE failures
  /\ IF Counted(id) >= FailureLimit
     THEN Answer(p, Nil)
     ELSE req' = [req EXCEPT ![p].pc = "do"]
  /\ UNCHANGED <<docs, gone, changes, faults, cache, flights, history>>

(* sf.Do: the first caller starts the fetch, with its own context. *)
Do(p) ==
  LET id == req[p].id IN
  /\ req[p].pc = "do"
  /\ req' = [req EXCEPT ![p].pc = "wait"]
  /\ flights' = IF flights[id].phase = "none"
                THEN [flights EXCEPT ![id].phase = "fetch"]
                ELSE flights
  /\ UNCHANGED <<docs, gone, changes, faults, cache, failures, history>>

----------------------------------------------------------------------------
(* The fetch                                                               *)

Wake(id, d) ==
  /\ flights' = [flights EXCEPT ![id] = NoFlight]
  /\ req' = [p \in Procs |->
       IF req[p].pc = "wait" /\ req[p].id = id
       THEN [req[p] EXCEPT !.pc = "idle", !.answer = d]
       ELSE req[p]]

(* The transport dials public addresses only and follows no redirect. *)
Reachable(id) == HostOf[id] \in PublicHosts

Responds(id, header) ==
  /\ flights[id].phase = "fetch"
  /\ flights' = [flights EXCEPT ![id] =
       IF Reachable(id) /\ Valid(docs[DocOf[id]], id)
       THEN [@ EXCEPT !.phase = "positive", !.doc = docs[DocOf[id]], !.ttl = CacheTTL(header)]
       ELSE [@ EXCEPT !.phase = "record"]]
  /\ UNCHANGED <<docs, gone, changes, faults, cache, failures, req, history>>

(* The network, or the context of the first caller, breaks it off. *)
BreaksOff(id) ==
  /\ faults < MaxFaults
  /\ flights[id].phase = "fetch"
  /\ flights' = [flights EXCEPT ![id].phase = "record"]
  /\ faults' = faults + 1
  /\ UNCHANGED <<docs, gone, changes, cache, failures, req, history>>

(* The quota allows FailureLimit failures, and one more for every other    *)
(* request that was past IsRateLimited; the history needs one beyond.      *)
Allowance == FailureLimit + Cardinality(Procs) - 1

Newest(ages) == IF Len(ages) > Allowance + 1 THEN Tail(ages) ELSE ages

Record(id) ==
  /\ flights[id].phase = "record"
  /\ failures' = Add(failures,
       [id |-> id, ages |-> (IF Has(failures, id) THEN Prune(Get(failures, id).ages) ELSE <<>>)
                              \o <<0>>])
  /\ flights' = [flights EXCEPT ![id].phase = "negative"]
  /\ asked' = IF KeyOf[id] = Watched THEN Newest(Append(asked, 0)) ELSE asked
  /\ lost' = IF Has(failures, Watched) /\ ~Has(failures', Watched) THEN 0 ELSE lost
  /\ UNCHANGED <<docs, gone, changes, faults, cache, req>>

PutNegative(id) ==
  /\ flights[id].phase = "negative"
  /\ cache' = Add(cache, [id |-> id, doc |-> Nil, left |-> NegativeTTL])
  /\ Wake(id, Nil)
  /\ UNCHANGED <<docs, gone, changes, faults, failures, history>>

PutPositive(id) ==
  LET f == flights[id] IN
  /\ f.phase = "positive"
  /\ cache' = IF f.ttl > 0 THEN Add(cache, [id |-> id, doc |-> f.doc, left |-> f.ttl]) ELSE cache
  /\ Wake(id, f.doc)
  /\ UNCHANGED <<docs, gone, changes, faults, failures, history>>

----------------------------------------------------------------------------
FetchClient(p) ==
  \/ \E id \in Asks[p] : Begin(p, id)
  \/ Lookup(p) \/ RemoveExpired(p) \/ IsRateLimited(p) \/ Do(p)

Fetch(id) ==
  \/ \E header \in Headers : Responds(id, header)
  \/ BreaksOff(id) \/ Record(id) \/ PutNegative(id) \/ PutPositive(id)

Next ==
  \/ Tick
  \/ \E u \in Urls : \E d \in Documents : Publish(u, d)
  \/ \E id \in ClientIds : Fetch(id)
  \/ \E p \in Procs : FetchClient(p)

Spec == Init /\ [][Next]_vars

(* Time passes, goroutines run, the transport answers or times out, and     *)
(* every caller asks again.                                                 *)
Fairness ==
  /\ WF_vars(Tick)
  /\ \A p \in Procs : WF_vars(FetchClient(p))
  /\ WF_vars(\E id \in ClientIds : Fetch(id))

FairSpec == Spec /\ Fairness

----------------------------------------------------------------------------
(* Properties                                                              *)

(* The failure quota: a document that cannot be fetched is asked for at    *)
(* most FailureLimit times within a window, plus once for each other       *)
(* request that had passed IsRateLimited when the quota was reached.       *)
(* Spelling the URL differently gives no second quota, and only the        *)
(* eviction of its record starts a new one (FetchClient, Record).          *)
QuotaHolds ==
  Cardinality({i \in 1 .. Len(asked) : asked[i] < lost}) <= Allowance

Answers(p) == req[p].pc # "idle" /\ req'[p].pc = "idle" /\ req'[p].answer # Nil

NoStaleAnswer ==
  \A p \in Procs : Answers(p) =>
    LET id == req[p].id
        d  == req'[p].answer
    IN  Valid(d, id) /\ gone[DocOf[id]][d] <= MaxStaleness

(* A client is resolved from its own valid document, and from one that its *)
(* publisher has replaced only for cimdCeilTTL and the time of one fetch:  *)
(* no header, eviction, stale removal or collapsed fetch pins withdrawn    *)
(* redirect_uris for longer (cacheTTLFromCacheControl, FetchClient).       *)
WithdrawnIsForgotten == [][NoStaleAnswer]_vars

(* p has what the client it asks for publishes now, unless that is invalid. *)
UpToDate(p, id) ==
  LET d == docs[DocOf[id]]
  IN  Fetchable(id) /\ (Valid(d, id) => req[p].id = id /\ req[p].answer = d)

(* Negative cache and quota let go: a caller that keeps asking gets the    *)
(* document its client publishes, also after outages, a cancelled first    *)
(* caller and evictions (FetchClient, IsRateLimited, Lookup).              *)
DocumentReachesCallers ==
  \A p \in Procs : []<>(\E id \in Asks[p] : UpToDate(p, id))

=============================================================================
