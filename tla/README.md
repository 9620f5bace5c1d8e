# LiteBans API: a TLA+ model

TLA+ modules, TLC configurations and TLAPS proofs for the LiteBans API, a read-only HTTP service in
Go over the database that the LiteBans Minecraft plugin writes. Paths below are those of the
repository, under `src/`.

## The system

| Component | Code | State it keeps | Operations |
| --- | --- | --- | --- |
| Permission client | `internal/auth/authority.go` | `cache`: uuid to permissions and expiry, under a `RWMutex` | `HasPermission`, `fromCache`, `store` |
| Token validator | `internal/auth/jwt.go` | the public key, fixed | `Subject` |
| Middleware | `internal/middleware` | the policy table, fixed | `Authorize`, `RequireJWT`, `RequireModPermission`, `Observability` |
| Handlers | `internal/httpapi` | none | lists and by-id of three tiers, stats, lookup, batch lookup |
| Punishment service | `internal/service/punishment_*.go`, `pagination.go` | defaults, fixed | `ListBans` .. `ListAll`, `GetByID`, `Stats`, `toList`, `toDomain` |
| Player service | `internal/service/player_service.go` | console aliases, fixed | `ResolveNames`, `ResolveModerator`, lookups |
| Repository | `internal/repository` | none; the tables belong to the plugin | `buildVisibilityWhere`, count, list, union, by-id, name history |
| Id obfuscation | `internal/service/idobfuscator.go` | the secret, fixed | `Encode`, `Decode` |
| Database pool | `internal/db` and `database/sql` | at most ten connections | a query acquires one, closing its rows releases it |
| Process | `cmd/litebans-api`, `internal/app` | server, listener goroutine, error channel | `New`, `Run`, signal, drain, close |
| Configuration, logging, metrics, request ids | the rest of `internal/` | written once, or output only | |

How they interact. `Authorize` picks the chain of an operation; a moderator operation goes through
`RequireModPermission`, which asks the permission client, which may ask the remote Authority
Service. The handler then turns parameters into a filter, the service reads the clock and has the
repository run its queries one after the other, **in no transaction**, each with a connection from
the shared pool; the mapper runs one more query per row for the moderator's name. All that requests
share in memory is the permission cache and the pool. The tables are written by the plugin at any
time.

### What is hard here

* concurrent misses of the permission cache, whose answers arrive and are stored in any order, and
  ranks that change while an answer is on its way;
* a token that expires, a rank that changes and an Authority that fails between the steps of one
  request, each of which must end in a refusal that is true, or in none;
* several queries per request, with bans inserted, lifted, renamed and expiring between them, and two
  clocks: the instant given to the SQL condition and the one the mapper compares with;
* SQL's third truth value: `NOT (...)` over nullable columns;
* a history of names that players go on writing while a batch of names is scanned from it;
* integers: base 62 tokens beyond the modulus and beyond 64 bits, a remainder that keeps its sign,
  the last page and the one after it;
* metrics updated in two steps, and a status the client may never have been sent;
* a pool of ten connections under any number of requests, some hanging on Authority;
* the end of the process: a signal, a failing listener and requests in flight, in any order.

`PROJECT.json` lists each of these hazards at its line.

## Modules

```
PermissionOracle   what a permission check promises        (abstract)
  ^ implemented by
AuthorityCache     the client with its cache               (in RequestPipelineProofs)
  ^ extended by
RequestPipeline    binding, policy, chain, handler         RequestPipelineProofs

Punishments        rows, SQL conditions, mapper, paging    (in PunishmentReadsProofs)
  ^ extended by
PunishmentReads    one request against the live tables     PunishmentReadsProofs
  ^ extended by
StatsRead          the four counts of the statistics       StatsReadProofs
PagedListing       a client that walks the pages           PagedListingProofs
                   (extends Punishments)
IDObfuscator       tokens for ids                          IDObfuscatorProofs
PlayerLookup       lookups in the history of names         PlayerLookupProofs

ConnPool           requests sharing the connection pool
  ^ extended by
Lifecycle          main, listener, signal, drain, exit     LifecycleProofs

Observability      what is counted of a request, and sent  ObservabilityProofs
```

The `MC*` modules only give values to constants.

### PermissionOracle and AuthorityCache

`PermissionOracle` is the contract `RequireModPermission` relies on: `Ask`, then `Decide` with a
verdict that was true of the player's rank at most `Staleness` ago, or `GiveUp` with an error, never
a guess. It knows no cache and no network.

`AuthorityCache` is the code. Its `cache` is the map of the same name (`NoEntry` for an absent key);
`pc`, `who`, `answer` are the program counter and locals of each concurrent call. `Begin` is the
call; `Hit` and `Miss` are `fromCache` under the read lock; `Answer` is Authority reading the rank
(external); `Fail` is the error return, which stores nothing; `StoreAndReturn` is `store` under the
write lock and the return. Between `Miss` and `StoreAndReturn` no lock is held and every other call
may run. `lastHeld` and `sentAt` are history: when a rank last was what, when a call missed.

`OracleSpec` is the refinement with `Staleness = TTL + MaxLatency`: a slow answer can be stale when
it is stored, and lives for a TTL after that. `MaxLatency` is a promise of the environment: the code
sets no timeout on the call, so `Tick` does not let a call outlive it. `NoFetchWithinTTL` is what the
repository's cache test asserts for one sequential caller, stated for concurrent ones, where a call
sent before the entry was stored may still be outstanding. `ExpiryMonotone` says that the loser of a
race never shortens an entry.

### RequestPipeline

A request from the router to its reply. Each request is a call slot of `AuthorityCache`, whose
actions are the steps of its `HasPermission`: the two modules share the clock, the ranks and the
cache. `RouterRules` is the policy of `NewRouter`, `Chain` the lookup of `Authorize` (the last rule
that lists the operation, else the default, else `denyAll`); `policy` ranges over that policy and one
whose default was forgotten. `Bind` is what the generated server refuses before any middleware;
`StepAnonymous`, `StepDeny`, `StepJWT` and `StepMod` are the steps of a chain, with the player uuid
they put into the request's context in `caller`; `AskReturns` is the return of `HasPermission` and
what `RequireModPermission` makes of it, `AskGoesOn` its inner steps; `Handle` the handler, reduced
to the error codes it may answer with (`HandlerCodes`), which the read modules have in detail. A token
is a signature that holds or not, a subject and the instants of its `nbf` and `exp`, both of which the
JWT library compares with the clock.

`OnlyModerators` and `RefusalsTruthful` speak of the subject of the request's **own** token and of
ranks held at most `TTL + MaxLatency` ago, so they relate a reply to a cache that other requests
filled earlier. The run's clock goes one beyond that age: a client whose entries live one instant too
long breaks both (`ExpiryLate`). Of the two 401s, `RefusalsTruthful` is about the typed
`UNAUTHORIZED`; `denyAll`'s plain one is about the policy, not the token.

### Punishments and PunishmentReads

`Punishments` holds the pure rules. A nullable BIT is `"yes"`, `"no"` or `"null"`; an SQL condition
is `"T"`, `"F"` or `"U"`, and `SqlNot`, `SqlAnd`, `SqlOr` are MySQL's tables, so that `Selected` is
`buildVisibilityWhere` with its NULLs. `Item` is `toDomain`, without the fields it only copies or
words. `TierParams` and `DetailVisible` are what the nine list and three by-id handlers add.

`PunishmentReads` runs one request at a time, in the order of the code's queries: `StartList` (reads
the clock), `CountQuery`, `ListQuery` (any order among rows of one instant), `NamesQuery`, one
`MapRow` per row with its own moderator lookup, `Finish`; or `StartDetail`, `FetchRow`, `Stamp` (the
clock is read only now), `NamesQuery`, `MapRow`, `Finish`; `Refuse` is every early return before the
first query, `QueryFails` the 503 of any of them, after which nothing is left of what was read
(`AllOrNothing`). Between any two steps the plugin may `Insert`,
`Lift` (with or without clearing the active bit) or `Rename`, and time may pass. One request suffices
for every interleaving with the writers because handlers only read and share nothing else.

A list can be wrong in two ways. `ListShowsWhatWasAsked` is about what it shows; `NothingWithheld` is
about what it leaves out. The latter judges a row without SQL, by what its item would show (`Shows`),
and so holds the three-valued filter to the mapper: a settled row that was asked for is on the first
page, or pushed off a full page by rows no older. Settled means that nothing was written since the
count, or that the row is older than the request and not lifted, in which case the plugin may write
what it likes meanwhile. A kick, or a row whose bit is NULL, is not expected of either value of
`active`.

### StatsRead

The statistics endpoint, over the tables, clock and writers of `PunishmentReads`: `StartStats` reads
the clock, four `CountNext` follow, one query each. `steady` and `seen` are history: what a counter
would have selected throughout the request, and at some time during it. The counts are no snapshot
and are not claimed to be; `CountsBracketed` says what is left of the truth of each, and
`StatsMatchList` that without writes they add up to the total of the moderator's unfiltered list,
which is computed by another query. `KicksAssumption`: kicks have no removal columns.

### IDObfuscator

`Encode` and `Decode` with Go's arithmetic: `Wrap` is an int64, `GoMod` a `%` that keeps the sign of
its left operand, `ExtendedGCD` and `ModInverse` as in the code (a recursive function, with its second
argument first), `Scanned` the accumulator of `base62Decode` after each digit. HMAC-SHA256 is external, so a
secret is any pair of keys for each type. A client holds a token a response showed (`Show`) or one
it made up (`MakeUp`), and asks with it under any type (`Ask`). `OneTokenPerRecord` is restricted to
tokens `Encode` may print: of others the code promises nothing, and accepts leading zeros and values
congruent modulo the prime.

### PlayerLookup

`GetPublicLookup` and `PostPublicLookupBatch` over the history table. `Spelling` is what a client may
write for a uuid, `NormalizeUUID` what the code makes of it; `Word` is a name up to case, as MySQL's
collation compares names. `Refuse` is every early return (several parameters, a bad name or uuid, an
empty or too long batch); `Alias` answers for the console, compared exactly; `QueryOne` is
`LatestUUIDByName` or `LatestNameByUUID`, `QueryMany` the window function of `LatestNamesByUUIDs`;
`ScanRow` and `ScanEnds` are the loop over its rows, `QueryFails` any error of either. `Newest` picks any
row of the newest instant: there is no tie-break, and the three queries may pick differently. The
plugin may `Join` a player at any step.

By name the answer is the last player to join under that name, and repeats the name asked for
(`history_repo.go:79`, `player_service.go:109`): a player who has since taken another name is still
found under the old one, while by uuid he has the new one. Nothing in the code says the two should
agree, so no property does. Nor can every name be asked for that a lookup by uuid may return: one
outside the pattern of player names, like `.sam` in the run, is refused as a parameter.

### PagedListing

`PunishmentReads` is about one request; `PagedListing` is about a client that sends several to a list
**without a filter on active or silent**, to which rows are only ever added: under such a filter a row
that is lifted or runs out leaves the list, the rows after it move to earlier pages, and a client may
miss one. The client asks for page 1, 2, ... until a page is short (`NextPage`), while punishments are added (`Insert`).
`PageOf` is `LIMIT`/`OFFSET` with the size `ResolveOffsetPage` clamps, over any ordering by `time`
(`NewestFirst`), for the code has no tie-break. Its properties are stated for tables without ties:
of rows of the same instant the code promises nothing, and MySQL may order them differently for each
page. The count is left out: the client stops at a short page, not at `totalPages`.

### ConnPool and Lifecycle

`ConnPool` has the stage of the request on each client connection, the queries it has left, and who
holds each database connection. `Acquire` is a query getting its connection, `QueryDone` and
`QueryFails` the `Scan` or `defer rows.Close()` that gives it back, `Unserved` a query whose client
hung up while it waited or that met a closed pool. A moderator request may be `"checking"` with
Authority first, for ever if need be.

`Lifecycle` adds the process. `main` is where the main goroutine is: the ping (`Opened`), the rest of
`App.New` (`Run`, or `StartFails`), the select of `Run` (`TakeSignal`, `TakeError`), `Shutdown`
(`Drained`, `DrainTimesOut`), `db.Close` (`CloseDB`), `<-errCh` (`AwaitListener`). The listener
goroutine binds (`Listening`), fails (`ListenerFails`, also while a shutdown begins) or returns
`ErrServerClosed` (`ListenerCloses`), and reports on the channel of capacity one. `Shutdown` closes
idle connections one by one (`CloseIdle`) and waits for the others.

### Observability

The middleware around the router. `recorded` is `statusRecorder.status`, `sent` the status line on
the wire: `WriteHeader` keeps the last status in the one and the first in the other, as the code and
`net/http` do. `Succeeds` writes 200 and then the body; if the client has hung up, the generated
server hands the error to `writeError` (`EncodeFails`), a second `WriteHeader`. `CountRequest` and
`ObserveDuration` are the two metrics, labelled by method, route and status (`Label`).

## Runs

| Run | Question | Bounds and why they are enough |
| --- | --- | --- |
| `authority_cache` | Does the cache implement the oracle? | 2 calls and 2 players (a race needs two calls of one player, the second player shows entries do not mix); TTL 2, latency 1, clock to 4: an entry is filled, served, expires and is refilled by a slower call |
| `punishment_lists` | Do lists show what was asked, and all of it, while the plugin writes? | 2 rows, 3 writes, clock to 2: a row can be inserted and lifted and another inserted or a player renamed between two queries; a ban can expire in mid-request; the templates include a kick, a silent mute, and removers both empty and NULL on public bans; page sizes 1, 2 (the default and the limit) and 3 (clamped) give a full, a last and an empty page; bounds `before` and `after`; one request of each kind of refusal |
| `punishment_details` | Does by-id find what the list shows? | 1 row, 3 writes, clock to 3; templates with a NULL bit, a NULL or offline uuid, empty moderator; all tiers and four combinations of owner and type |
| `public_detail_doc` | Are only bans in force public by id, as `internal/httpapi/server.go:179` says? | as above; **violated** |
| `paged_listing` | Does a client that walks the pages of an unfiltered list see every punishment, and few twice? | 4 rows, clock to 3: four distinct instants; limit 2 and requested sizes 1 and 3, so one client is clamped; rows may be added before every page |
| `request_pipeline` | Who gets past the middleware, and is each refusal true? | 2 requests, 2 players, TTL 1, latency 1, clock to 3: a rank can be older than TTL and latency together when an answer rests on it; one request fills the entry another is answered from, ranks change and a token expires meanwhile; tokens forged, lasting, and good from 1 to before 3; one operation of each tier and one no rule lists; both policies; all three forms |
| `id_obfuscator` | Does a token find its record and no other? | modulus 5, base 3, word of 64 values: ids to the modulus and every token of up to four digits, which exceeds both the modulus and the word, plus a non-digit and two foreign tags; every pair of keys |
| `stats_read` | What are four counts worth that are taken one after the other? | 2 rows, 3 writes, clock to 2: a row is inserted or lifted, or runs out, between any two counts; templates hidden by the defaults (silent, inactive) and with an empty remover, in all four tables |
| `player_lookup` | Are lookups of one moment, complete and truly absent? | 2 players, 4 joins under 2 names, 2 instants: both share a name, one changes it twice, two join in the same instant; requests by name in another case, by each form of uuid, alias, refused name, two parameters, none; a batch with the limit of 3 reached by two spellings of one player, one above it, one with a bad uuid |
| `observability` | Do the metrics tell what clients were sent? | 2 connections, 3 requests: one is counted while the other is written, and a connection is used again; 2 paths of one route under one method, of none under the other |
| `conn_pool` | Is every request that reaches the database answered? | 3 requests, 2 connections, 2 queries each: the pool is exhausted with one request waiting, and a request that kept a connection would need a second |
| `lifecycle` | Does the process end, and how? | 2 clients, 1 connection: one in flight, one accepted but silent; signal and listener failure in any order, also during start-up |

The finding. `GetPublicPunishmentByID` answers 200 with a ban whose time is over, or that was lifted
without its bit being cleared: it looks at `Active` alone, while `server.go:179` promises that
anything but an active ban "404s like a missing record" and `punishment_repo.go:183` explains that
the bit is not reliable. The public *list* is right, since it uses the full condition; so the by-id
endpoint shows more than the list. The converse holds, and is proved (`DetailCovers`): by-id never
hides what the same tier lists.

Other differences between code and documents, which the models contain and no run is about:

* `router.go:52` sets no `ErrorHandlerFunc`: a parameter that does not parse is refused in plain text,
  not with a code of the table at `openapi.yaml:864` (`Bind`, `Untyped`);
* `router.go:47`: a batch whose body is not JSON is answered 500 `INTERNAL_ERROR`, where
  `openapi.yaml:157` gives 400 (`Bind`);
* `punishment_mapper.go:65`: a by-id answer may carry `#offline#` or an empty `playerUuid`, where
  `openapi.yaml:17` promises canonical uuids (`Items`);
* `observability.go:78`: a 200 whose body could not be written is counted as 500 (`EncodeFails`); what
  holds is `NoFailureHidden`;
* `observability.go:64`: a path of no route becomes a label, where line 14 promises patterns
  (`RouteLabel`).

Each property of a passing run has a mutant in the modules: a definition with a plausible bug in it
(a strict comparison, a clock read twice, rows kept open, a policy that fails open, an error taken
for an empty result, a shutdown without deadline) under which
TLC finds that property violated.

### Fairness

Safety properties need none, and the runs of all other modules assume none. `ConnPool` assumes **strong fairness of `Acquire`**: `database/sql` hands a
returned connection to a waiter chosen at random, so no waiter is passed over for ever, though it is
again and again; and weak fairness of a running query ending, of a query failing on a closed pool and
of a response being written. Nothing is assumed of Authority, which the client calls without timeout:
`QueriesAnswered` says that the requests hanging there do not hold up the others.

`Lifecycle` assumes only that the two goroutines of `Run` are scheduled, that the timer of `Shutdown`
fires and that start-up ends (the ping has a timeout). Handlers, clients and Authority get no
fairness: the signal ends the process whatever they do.

## Proofs

Checked by TLAPS for every value of the constants, under named assumptions that TLC evaluates on every
run as well:

* `ConstantsAssumption`, `PipelineAssumption`, `LookupAssumption`, `PoolAssumption`,
  `BoundsAssumption`, `RequestsAssumption`, `WalkAssumption`, `ObservedAssumption`: types and bounds of
  the constants, and that special values differ from ordinary ones;
* `DataAssumption`: what `config.validate` guarantees, among it that the default page size is within
  the limit; `KicksAssumption`: kicks have no removal columns;
* `ObfuscatorAssumption`: the modulus is a prime no smaller than the base, and its square fits the word
  (2^31 - 1, 62 and 2^63 in the code); `MadeUpAssumption`: a token a client makes up is a tag and a
  string of digits and others. Nothing is assumed of the algorithms.

Every safety property that a passing run checks is the statement of a theorem.

* `RequestPipelineProofs`, of the client: `TypeCorrect`, `NoFetchTheorem`, `ExpiryTheorem` and `Refinement`, from
  `IInv`. The oracle's bound is not inductive; what is, is where its two halves come from:
  `AnswersRecent` (an answer in flight was true after its call was sent), `CallsInTime` (which was at
  most `MaxLatency` ago) and `EntriesRecent` (an entry that expires at `e` was true at
  `e - TTL - MaxLatency` or later). Every step of the client is then a step of the oracle or a
  stutter: `Hit` and `StoreAndReturn` map to `Decide`.
* `RequestPipelineProofs`, of the pipeline: `FailsClosed`, `ModeratorsOnly` and `RefusalTheorem`, from `PipeIInv`: a call
  of `HasPermission` runs only for a request at its `mod` step and for its own caller
  (`AsksForCaller`), and a caller is the subject of the token he came with (`CallerIsSubject`).
  `PipelineUsesClient` shows that the pipeline drives the client only by the client's own steps, so
  that what is proved of `AuthorityCache` holds in it.
* `PunishmentReadsProofs`, of the pure rules: for every row and instant, the SQL condition is `"T"` exactly when the mapper
  shows the row in force, and never unknown where its negation would lose a row, except for a NULL
  active bit (`SqlAndMapperAgree`, `InactiveListHonest`, `ActivePartition`).
* `PunishmentReadsProofs`, of requests: `ListsHonest`, `OneName`, `DetailCovers` and `ListsComplete`, from an
  invariant that says what the request carries from query to query: `RowsAsked` (the rows match the filter **at the
  stamp**, though no longer in the tables), `ItemsMapped` (items are the rows mapped at the same stamp
  and with one map of names), `AllOrNothing` (an answer has an item for every row, a failure none).
  `ListsComplete` is `NothingWithheld`: a row whose item shows what was asked is one the SQL condition
  selects (`WantedSelected`, from the rules above), an ordering leaves out no row (`OrderingCovers`, by
  the pigeonhole principle), and its first window only those behind a full page (`FirstWindow`);
  `OnPage` carries that over the writes that follow, which touch no settled row. `PagesAgree` adds that the total counted is the number of rows that
  match as long as nothing is written, and the arithmetic of `LIMIT`, `OFFSET` and `totalPages`.
* `StatsReadProofs`: `StatsBracketed` and `StatsAgree`, from `StatsIInv`: what is steady is selected
  now, and what is selected now has been seen (`Watched`); the sum rests on the four tables being
  disjoint parts of the union.
* `PlayerLookupProofs`: `LookupsCurrent`, `AbsenceTrue`, `BatchesComplete`, from `IInv`. `AnswersCurrent` is not inductive: while rows are scanned, one moment must account for the
  rows scanned and those still pending (`OneMoment`). Later joins do not change the past
  (`PastKept`).
* `PagedListingProofs`: `WalkComplete` and `RepeatsPaidFor`, of lists without filter that only grow, from
  `IInv`. Rows of distinct instants
  have one order (`OneOrder`; that a descending permutation is the reversal, `Descending`, is by
  counting, both ways, with injections), so page `p` is an interval of ids (`PageIsInterval`) that
  rows added meanwhile move upwards. Neither property is inductive: `Covered` says that all rows of
  the start above the next page have been shown, `PaidFor` that all rows shown lie above some `low`,
  and that the repeats together with the rows between `low` and the next page are within the growth of
  the table.
* `IDObfuscatorProofs`: `UnscrambleScramble` and `ScrambleUnscramble`, the arithmetic both ways, with
  wrap-around and signed remainder; from them, with `Consistent` (the token held is the record's, the
  reply is to it), `RoundTripTheorem`, `OnlyPossibleTheorem` and `OneTokenTheorem`. They rest on
  inductions over data, which the library's theorems cannot give here, for they take operators. So
  induction is stated of **sets** (`Induction`, from the library's well-founded order on the naturals)
  and recursion of **functions** (`Recursion`: an equation that looks at smaller arguments only has a
  solution, the union of its finite attempts). With these: the recursive definitions of the model obey
  their equations (`ExtendedGCDDef`, `Base62Def`, `ScannedDef`); `extendedGCD` returns a common divisor
  and its Bezout coefficients (`GCDCorrect`), so that `modInverse` inverts every multiplier of a prime
  modulus and never panics (`ModInverseCorrect`); decoding reads back what was encoded
  (`ReadBackHolds`), and a string without leading zeros, no longer than the largest id's, does not
  overflow and is written back the same (`ScanBounded`, `EncodedAgain`).
* `ObservabilityProofs`: `StatusesCounted` and `MetricsAgree`, from `IInv`: nothing is
  sent before the handler has answered, and a body follows a status 200 (`BeforeTheEnd`), and under each label the counter is ahead by
  the size of the set `Between`, which each step changes by at most one element.
* `LifecycleProofs`: `NoLeaks` for the pool alone; `DrainTheorem` and `ExitTheorem` for the process,
  from `IInv`: `ReportKept` (what the listener reported is in the channel or in Run's result, and is
  an error iff it failed), `Quiet` (a drain that succeeded leaves no connection, and none can come).

Only model-checked: the liveness properties `QueriesAnswered`, `SignalEndsProcess` and
`FailureEndsProcess`, which need fairness and are beyond this prover; and the one violated property.

## Not modelled, and why

* Log lines and request ids: output that nothing reads back.
* Configuration: read once, before anything starts; what `validate` guarantees is in the
  assumptions.
* `textclean.go`: two regular expressions applied once each to a string, with no state. One pass
  over `&&aa` leaves `&a`, a code again.
* Generated code, RSA and the syntax of JWTs, HMAC, MySQL, `net/http`, Prometheus and Authority are
  external, and modelled only by what the code relies on.
* `OptionalJWT`, the `Parse*Param` helpers of `validate.go`: nothing calls them. `IsOfflineMode`:
  it reads one character of a uuid.
* Wording of reasons, names of servers and dates are abstracted.

## Plan

Done: everything listed under Modules. Left, in order:

1. the token in the by-id endpoints: `PunishmentReads` takes ids as they are, `IDObfuscator` decodes
   them; composed, one property would say that a token taken from a list finds the same record by id;
2. requests one after the other on one slot of `RequestPipeline`, with an entry that expires between
   them (`authority_cache` has that for the client alone).
