# A TLA+ verification of Corridor

Corridor is an API gateway: an HTTP request is matched to a route, runs through
the plugins of that route, is sent to one of the targets of a service, and the
answer is copied back.  The code is small, but nearly all of its state is shared
by the goroutines of concurrent requests and by a few background goroutines.
That is what this development is about: the modules model the components that
share state, TLC checks them on small instances, and TLAPS proves every safety
property the passing runs check, the refinement included, for every value of the
constants.

## 1. Inventory

| Component | State | Operations | Who else touches the state |
|---|---|---|---|
| Round-robin balancer (`proxy/loadbalancer.go`) | `targets`, `nextIndex` (atomic uint32), `Healthy` per target, `mu` | `Next`, `UpdateTargets` | every request; health checker through `Proxy.UpdateTargetHealth` |
| Random, weighted, least-connections balancers | `targets`, a `rand.Rand`, `activeConnections` per target | `Next`, `UpdateTargets` | every request; health checker (random only) |
| Reverse proxy (`proxy/proxy.go`) | `serviceLBs`, the counters | `ServeHTTP`, `RoundTrip`, `UpdateTargetHealth` | every request |
| Health checker | per target: two counters and a verdict; stop channel, wait group | `Start`, `monitorTarget`, `performCheck`, `processCheckResult`, `Stop` | one goroutine per target, the main goroutine, the tickers |
| Rate limiting plugin | `clientStore`, one log of timestamps per client with its own mutex | `Handle`, `cleanupOldClients` | every request, the cleanup goroutine |
| Caching plugin | `cacheStore` under `storeMu` | `Handle`, `cleanupExpiredEntries` | every request, the cleanup goroutine |
| Authentication plugin | `validAPIKeys` under a lock, MongoDB client | `Init`, `Handle`, `periodicAPIKeyRefresh`, `Shutdown` | every request, the refresh goroutine |
| Configuration (`config/config.go`) | the configuration, completed in place | `LoadConfig`, `validateAndSetDefaults` | read by everything later |
| Router, plugin chain | pre-built chains, read-only after start | `NewRouter`, `ServeHTTP`, `GetPluginInstance`, `ChainPlugins` | - |
| Path rewrite, request ID plugins | none; they change the request and the writer they are given | `Init`, `Handle` | the plugins before and behind them |
| Server, main | signal channel, `http.Server` and its connections | `Start`, `Shutdown` | signals, running handlers, the listener's goroutine |
| Logging, keygen | none that matters to requests | formatting | - |

How they interact: the router calls the chain, each plugin calls the next
handler inside its own `Handle` (so the caching plugin records what everything
after it wrote), the last handler is `Proxy.ServeHTTP`, which asks the service's
balancer for a target.  The health checker calls `Proxy.UpdateTargetHealth`,
which takes the balancer's write lock.  `main` starts the checker before the
server and stops it after the server has shut down.

What is hard: calls that meet in a shared counter, a pointer or snapshot used
after the lock that protected it is gone, an increment and its decrement in
different call frames, a verdict told once and never repeated, and background
goroutines that delete what a request still works with.  `PROJECT.json` lists
each of these hazards at its line with the properties that would catch it.

What makes each component correct:

* balancers: they return a healthy member, an error means there is none, the
  load is spread as the strategy says, nobody waits for ever;
* proxy: the connection counters are exact, whatever goes wrong in a request (what
  they are exact about is less than their comments say);
* health checker: verdicts follow the probes exactly, reach the balancer, and
  `Stop` ends cleanly;
* rate limiter: no more than the limit gets through in any window, nobody is
  rejected without cause, the headers tell the truth;
* cache: only complete successful answers are replayed, never much later than
  the lifetime allows, and expired ones go away;
* authentication: only keys that were active during the last load are accepted,
  and only for their own entry; a failed query takes nothing away and a
  revocation arrives;
* configuration: what is let through is what the later parts take for granted;
* router and chain: the first route that covers a request, with all of its
  plugins in order, and no answer or ID of somebody else;
* server: a signal ends the program, and requests under way are finished first,
  under the eyes of the health checker, as far as the timeout allows and as far as
  the server knows of their connections.

## 2. Modules

| Module | Models | Notes |
|---|---|---|
| `Balancer` | what callers of `LoadBalancer.Next` rely on | abstract: one step per decision |
| `RoundRobin` | `roundRobinLoadBalancer`, `UpdateTargetHealth` for it | one step per atomic operation of `Next`; implements `Balancer` |
| `Proxy` | `ServeHTTP`, `countingRoundTripper`, `Next` of random, weighted and least-connections | the life of a request |
| `WeightedRandom` | `weightedRandomLoadBalancer.Next` | one step per loop iteration |
| `Balancers` | the strategy switch of `NewLoadBalancer` | extends `RoundRobin` and `WeightedRandom`, one of which runs |
| `HealthChecker` | `healthchecker.go` and the type switch and URL comparison of `UpdateTargetHealth` | one monitor per entry |
| `RateLimiting` | `ratelimiting.go` | logs as objects, timestamps as tokens with ages |
| `Caching` | `caching.go` | entries with remaining life and age |
| `Authentication` | `authentication.go` without `Shutdown` | one plugin instance, MongoDB and its cursor |
| `Startup` | `validateAndSetDefaults`, the loop of `NewProxy`, `NewRouter`, `GetPluginInstance`, `ChainPlugins` | one step per service and route |
| `Router` | `Router.ServeHTTP`, `matchPath`, `Handle` of request ID and path rewrite, the chain with its recorders | extends `Startup`; one step per plugin |
| `Gateway` | `main.go`, `server.go` | extends `HealthChecker`, whose steps are its own; the fairness of both |
| `MC*` | instances for TLC | |
| `*Proofs` | theorems | `GatewayProofs` holds those about `HealthChecker` too |

Each module has one action per step between two points where another goroutine
can interfere: a lock acquired, an atomic operation, a critical section, a call
to another component.  A section under one mutex is one action.  Variables named
under "History" are read by the properties only.  The section "Seeded faults" of
a module holds slips of the operations below it; no specification uses them.
They document which mistake each property is able to find.

### RoundRobin

`writer` is set by `lb.mu.Lock()` and keeps new readers out, as Go's `RWMutex`
does; the update itself waits until `Readers` is empty.  `Claim` is
`atomic.AddUint32`, modulo `IndexRange`, which stands for 2^32.  `Check` tests
the target and either returns it, tries again or gives up after `len(targets)`
tries.  `load` counts claims per position less their minimum, which keeps the
state finite and still shows any imbalance.

`Balancer` is the same component seen by the proxy: a call is pending until one
step settles its answer, which is a healthy member of the slice, or an error
that has a cause (no member, or an unhealthy one); neither slice nor flags
change while a settled answer has not been handed over.  The refinement mapping
(`Status`, with `chosen` as the answer) puts that step at the last `Check` of
the loop, or at `RLock` for an empty slice.  The error's cause is as weak as the
code makes it: "no member is healthy" is what `round_robin_concurrent` refutes.

### Proxy

`Next()` is a scan that reads one counter per step (least-connections) or a
filter followed by a draw (random, weighted).  Two requests inside `Intn` of the
same `rand.Rand` are a data race whose outcome may be a panic (`DrawRace`); any
healthy target may be drawn otherwise.  `Increment` precedes
`ReverseProxy.ServeHTTP`; `Answer` is `RoundTrip` with its deferred decrement;
`Refuse` is ReverseProxy's own refusal of a request before `RoundTrip`; `Copy`
streams the body and may abort.  `InFlight` are the requests the counter counts,
`Handled` those a target is really busy with, up to the end of the body.
`UpdateTargets` replaces the slice while
requests are under way; the counters belong to the targets and go on.
ReverseProxy and net/http are external.

### WeightedRandom and Balancers

One call at a time on the slice `slice`: `at` is "filter", "draw", "walk" or
"return".  `before` keeps the running sums of the first loop for the properties.
Slices come from `NewLoadBalancer` (weights that are not positive become 1) or
from `UpdateTargets`, which takes what it is given; nothing in the repository
calls the latter today, it is the interface's way to change a slice.  `Balancers`
is `NewLoadBalancer`'s switch: the balancer of a service is made once, round-robin
also for a strategy that is not supported, and all its steps are those of that
balancer.  Random and least-connections are in `Proxy`.

### HealthChecker

An entry is a configured URL of a service.  `Canonical` says what
`url.Parse(u).String()` makes of a configured string; `Reached` is the target
`UpdateTargetHealth` finds for it, if any.  A change of verdict and the call of
the proxy are two steps (`PerformCheck`, `Update`).  `Flip` is the upstream.
The counters saturate at the larger threshold (`CountCap`), beyond which the code
does not distinguish them.

### RateLimiting

A log deleted from the store while a request holds it stays alive until that
request ends; `Collect` is the garbage collector, which keeps the state finite.
The section under `log.mu` is two steps, `Prune` (the log is written back without
its old timestamps and compared with the limit) and `Append`: the headers of
another request are computed from the log's length without the lock, in `Respond`,
and can see the log between the two.  `Locked` keeps the other users of the lock
out meanwhile.  A timestamp is a token, `now` the one taken and not appended yet;
a token can be reused once it is older than the window, counts for nobody, and is
neither in another log nor on its way into one.  `owner`, `stray` and `since`
record for whom an admission was, whether its log had left the store, and how long
ago it happened.

### Caching

`Lookup` takes the entry, `Hit`, `Stale` and `Miss` decide about that snapshot,
`Stale` deletes by key.  The recorder is filled in two steps, `Fetch` (the header,
with the status) and `Copy` (the body, to its end); in between the upstream may
break off, whereupon ReverseProxy panics with `ErrAbortHandler` and `Abort` unwinds
the handler with a 200 and part of a body in its recorder.  `Store` tests only
status and size, as the code does, writes to the client and then caches with a
lifetime that starts then.  `MaxDelay` bounds how long a handler can sit on an
answer: the server's write timeout does in the code.

### Authentication

`pc` is where `Init` is and, once it has started the goroutine, where the refresh
loop is; the two never run a load at the same time.  `Configure` and
`ConfigureRoute` are the two calls of `applyAuthConfig`: whether MongoDB is used
and whether the listed keys are read is decided there, in this order, so a global
section that asks for MongoDB leaves nothing to fall back to when `ConnectFails`.
`ReadKey` reads one listed key: a damaged one is skipped or ends the program, and
of two for the same lookup key the later one stays.  A load is `Find` (query and
write lock), one `CursorNext` per document and `EndCursor`, which replaces the map
whether the cursor is exhausted (`whole`) or broken.  The collection may `Change`
at any moment, and the cursor is no snapshot: it returns what was active at some
moment since the query, and all that stayed active if it is not cut off.  A
damaged document is skipped or ends the program, depending on the damage.
`Lookup` needs the read lock, `Compare` runs without it.  JWT validation appears
as its verdict.  The ticker has no state: time is not modelled, and a tick is
always to come.

### Startup and Router

A scenario is a configuration file, as records, and the requests clients then
send.  `ConfigType` says which records: the structs `yaml.Unmarshal` fills, with
`Nil` for a section the file does not have; `QueryType` is what the router and
the plugins read of a request.  The theorems hold for any set of such
scenarios.  `Startup` walks through it as `main` does: each service is checked and
completed in place, then each route is checked, then balancers and chains are
made, one per step, and a refused file or a service that cannot be made in strict
mode ends the program.  `validateAndSetDefaults` fills in what is missing through
a pointer in some places and through the loop's copy in others; `Populated`,
`Defaulted` and `Rejected` keep that apart.  A plugin is a name with the setting
that matters; `Fallible` are those whose `Init` can return an error, and a name
outside `PluginRegistry` has no factory.

In `Router` hosts, methods, paths and patterns are sequences of characters, so
that the matching code is modelled by what it does with prefixes, suffixes, ports
and upper and lower case (`EqualFold`, over any pairing `LowerOf` of letters).  A
request is a record that walks down its chain: `pos` is the next plugin, `writers`
the stack of response writers (a caching plugin puts a recorder on it and copies
it out on the way back, `Store`), `fills` the cache slots these recorders will go
to.  A slot is an instance (route and position) and a key of host and
`RequestURI`, the path as rewritten so far with "/" for an empty one.  An ID is
`Missing` if the header is absent or empty.  Authentication and rate limiting
appear as a verdict (`Judge`); what is behind the verdict is in their own modules,
as is the timing of the cache (`Expire` may happen at any moment).  Path rewriting
is modelled for expressions that are an anchored prefix.  Content is what an
upstream returns for a service and a path; the Director appends that path to the
one of the upstream's URL (`singleJoiningSlash`), which for a URL like
`http://u/api` keeps all paths apart, the empty one included.  `ids` are the
values of the request ID header of a response, in order.

### Gateway

`phase` is where the main goroutine is, `listener` the goroutine that serves,
`conn` the state of each connection as `http.Server` sees it, "upgraded" once
ReverseProxy has hijacked it (`Upgrade`, until `HangUp`).  `Signal` may come
at any moment: before `signal.Notify` it ends the process, later it is put into a
channel of one place.  `Receive` begins `http.Server.Shutdown`, which closes the
listener and idle connections and polls until no connection is busy or the
timeout is over (external code, modelled from its use); a hijacked connection is
not among those it knows (`Busy`).  `Exit` is the end of the process: a request
under way is then "cut", an upgraded one "severed".  The health checker is module
`HealthChecker` itself, extended: `StartChecker`, `StopChecker` and
`CheckerStopped` take its steps `StartTarget`, `Started`, `Stop` and `Wait`, its
monitors run beside all else, and `Return` is the end of `main`.

## 3. Runs

| Run | Shows | Bounds |
|---|---|---|
| `balancers` | round-robin: an undisturbed error is true; balanced claims across the wrap; readers and writers do not starve; `Balancer` is implemented.  Weighted: the walk ends inside the slice with exact shares | strategies round-robin, weighted and an unsupported one; 2 callers, slices of 0-3 of 3 targets, 6 index values; weighted: configured slices of 1-3 targets, weights -1..3, updated slices of up to 2 targets with weights -2..2, and of 3 with weights 0..2, healthy or not |
| `round_robin_concurrent` | *violation*: an error although a target is healthy | 2 callers, 2 targets |
| `proxy` | exact counters, racing draws and failures included; first minimum | 3 requests, slices of 0, 2 and 3 of 3 targets, each of 3 strategies, 1 refusal |
| `proxy_active` | *violation*: a request that is refused stays counted for good (and one whose body streams is not counted) | 1 request, least-connections |
| `rate_limiting` | the limit holds; rejections are just; the remaining quota is honest although it is read between another request's writes | 2 clients, 2 requests, 2 logs, 4 tokens, limit 2, window 1, expiry factor 1 |
| `rate_limiting_orphan` | *violation*: a deleted log admits too many | 1 client, 2 requests, limit 1, expiry factor 2 |
| `caching` | complete answers only, although bodies break off; bounded staleness; expired entries go away | 3 requests, 1 key, lifetime 2, delay 1 |
| `authentication` | memory reflects the last load; a key passes only for its own listed entry; lookups end; revocations arrive | 1 request at a time, 2 keys, 3 documents (two for one lookup key, one damaged), 3 key lists (one has a lookup key twice and a damaged entry), all providers and MongoDB settings |
| `router` | a sound configuration; the first covering route; plugins in order; own answers and IDs in spite of caches; strict start-up | about 400 files that vary in one respect each; 1280 requests (8 hosts, 40 paths, 4 methods) against 4 routes of all pattern kinds; 2 concurrent requests, with, without and with an empty ID, through chains of up to 6 plugins |
| `router_fallback` | *violation*: a route that is "skipped" is served without its plugins | 1 file, 2 requests |
| `gateway` | requests under way are finished or waited for; none runs unwatched; a signal ends the program; verdicts follow the probes and reach the balancer; lasting outages and recoveries are noticed; silence after `Stop` | 2 connections; 3 entries: a good one, an unparsable one, one of a service without health checks; thresholds 2 and 1 |
| `gateway_upgrade` | *violation*: an upgraded connection is neither waited for nor finished | 1 connection |

Type invariants are checked where they say more than the types (`proxy`: no
counter goes below zero) or where a bound depends on them (`rate_limiting`,
`authentication`); elsewhere the theorems of section 5 carry them.  That
`Next` returns healthy members is part of `AnswersAtomically`.

Why the bounds are enough.  The races of this code are between two parties: two
calls of `Next`, a request and a writer, a request and a cleanup; two or three
requests show each of them, and every request goroutine is reused without end, so
sequences are unbounded.  Three targets are the fewest for which 2^32 is not a
multiple of the length; six index values are a multiple of all lengths.  The
expiry of logs is ten windows in the code and one or two here: the properties
depend only on its being at least one window, which is all the proofs use.  A
log or a token that is not free makes a request wait until one is, which is a
delay the scheduler may impose anyway; two logs are enough for one in the store
and one that was deleted under a request, or for one of each client, and four
tokens for two full logs.  `MaxRefused` caps a counter that otherwise only grows.
A limit of two lets a request read a log that the next one is writing to, and
makes every third request a boundary case; larger limits, windows and expiry
factors are covered by the theorems.  Requests are symmetric where no liveness is checked (`proxy`, `rate_limiting`); runs with
liveness use no symmetry.  In `authentication` requests share nothing they write,
so one at a time shows all that a request can see of the loads, and the theorems
cover any number; deadlock is not checked there because a panic ends the program.
Nor is it in `router`, where a refused file ends the program and each request is
sent once, and in `gateway`, which is meant to end.  The files of `router` are the
product of the values each check distinguishes; the paths are all up to four
characters over a slash and two letters, which is enough to stand on either side
of each boundary in a pattern.  In `gateway` one connection can hang while another
comes and goes; monitors share nothing with each other but the wait group, for
which two of them are enough.

The violations are disagreements between the code and its own comments or
README, each quoted in `PROJECT.json` under "findings".  Next to each stands a
passing property that says exactly what does hold: `LoneErrorIsTruthful`
excludes interference and a harmful wrap, `WindowLimit` leaves out admissions
into deleted logs, `EnforcedInOrder` speaks of routes whose chain could be built.
`ExactAccounting` says what the counters are exact about, requests sent and not
yet answered and those refused, where `ActiveIsHandled` takes the comments at
their word: "the number of active requests being handled".  TLC reports the
shorter of its two failures, the refused request; the other is in the model as
well (`Handled` goes on to the end of the body, `InFlight` to its header).
`InFlightHandled` is `EveryRequestHandled` for connections that were not hijacked.

Further limits of the code are part of the models without a run of their own:

* `NoHarmfulWrap` in `RoundRobin`: where the slice's length does not divide 2^32
  two consecutive claims at the wrap hit the same position, so even a lone call
  can miss the one healthy target.
* `Reached` in `HealthChecker`: a configured URL that `String()` rewrites never
  equals its target's URL and its verdict goes nowhere.  The same holds for every
  target of a least-connections or weighted service, because the type switch of
  `UpdateTargetHealth` knows neither, while the repository's README (line 16)
  promises to remove unhealthy instances.
* `Deny` in `RateLimiting`: any strategy but `ip-address` makes every request an
  error.
* `Copy` in `Caching`: the end of a body is what net/http takes for it.  A body that
  is delimited only by the end of the connection (HTTP/1.0) and is cut off cleanly
  looks complete to it and to the cache, and the model does not tell the two apart.
* `Stale` in `Caching`: the entry is judged without the lock and deleted by key
  (`caching.go:149-151`); a fresh one stored in between goes with it.
* `EndCursor(FALSE)` in `Authentication`: a cursor that breaks off replaces the
  keys by those read so far, since `cursor.Err()` is not asked, and
  `ActiveKeysKept` promises nothing after it.  `ConnectFails` there: the listed
  keys are not read when the connection fails, although the comment at
  `authentication.go:230` says so, unless the global section did not ask for
  MongoDB in the first place.
* `RequestURI` in `Router` shows an empty path as "/".  Behind a path rewrite that
  can leave an empty path (`^/a` to nothing) the requests `/a` and `/a/` share a
  cache key, although `caching.go:90` calls the key unique, while an upstream with
  a base path sees `/api` for one and `/api/` for the other
  (`singleJoiningSlash`).  `AnswerIsOwn` is therefore stated of routes on which no
  path becomes empty (`NeverEmpty`); the `router` run contains such a file.
* `OwnRequestID` in `Router` speaks of the first value of the header and of
  request IDs given before any cache: a request ID plugin behind a cache is not
  reached on a hit, and the cached response carries the ID of the request that
  filled the cache.
* `PluginRegistry` in `Startup` has no `logging`, although the repository's README
  lists such a plugin: a route that names it has no chain.
* `Hostname` in `Router` cuts at the first colon and compares case-sensitively:
  an IPv6 literal or a host in capitals matches no host pattern.
* `ServedUnderWatch` in `Gateway` is about requests that may still ask a balancer
  for a target: an upgraded one has its target, and its handler may outlive the
  checker.
* `InFlightHandled` in `Gateway` ends at the timeout of the shutdown, and at a
  listener that fails: `Fatalf` in its goroutine ends the process at once.

## 4. Fairness

* Goroutines that can run eventually do (weak fairness of their steps).
* `RLock` is strongly fair: Go's `RWMutex` admits waiting readers when a writer
  unlocks, so a stream of writers cannot shut a reader out.
* Writers need only weak fairness: once one has announced itself no new reader
  gets in.
* A monitor's stop branch is strongly fair: `select` picks at random among ready
  branches, so a ticker that is always ready cannot win for ever.
* A probe ends because the health checker's HTTP client has a timeout; tickers
  fire.
* A load's cursor ends because its context has a timeout.  Lookups are strongly
  fair for the same reason as `RLock`.
* About MongoDB only: queries that are repeated for ever do not all fail.
* In `Gateway`: the main goroutine goes on when it can, the timer of the shutdown
  fires, monitors are as above.  Nothing is assumed of handlers and clients, so
  that `SignalEndsProgram` holds although a handler hangs for ever.
* New requests, upstream failures, signals and `Stop` are not assumed to happen.

## 5. Proofs

All theorems hold for every value of the constants that satisfies the named
`ASSUME`s: index range positive and larger than any slice, limit, window and
expiry factor positive, a finite set of tokens, a finite set of requests in
`Proxy`, a positive cache lifetime, positive thresholds (`validateAndSetDefaults`
makes them so, as `RouterConfigSound` shows), weights that are integers,
configuration files and requests of the types `ConfigType` and `QueryType`, letters
that come in pairs, new request IDs that are not empty.  TLC evaluates them in the
runs.

The arguments, module by module; each names its inductive invariant and what it
has to say beyond the property.

* **`RoundRobinProofs`.**  `RoundRobinTypeOK`, `RoundRobinReturnsHealthyMember`.
  The returned target was tested earlier, so the invariant must say why nothing
  has changed since: `CallerInv` (a caller with an index works on a non-empty
  slice, and only a caller about to return has chosen) together with the writers'
  guard `Readers = {}`.  `RoundRobinAnswersAtomically` is the refinement: with the
  same invariant each step of `RoundRobin` is one of `Balancer` or none.
  `StatusStep` carries the mapping across a step of one caller, and
  `WriteUnobserved` says that a writer finds no settled answer.
  `RoundRobinBalancedClaims`: `LoadInv` ties the load of each position to the
  remainder of the counter, across the wrap where the length divides the range.
  `RoundRobinLoneErrorIsTruthful`: `LoneInv` says that the indices of a lone call
  follow one another and those behind it stand for unhealthy targets;
  `RemaindersInARow` turns as many indices as there are targets into all
  positions.  Both rest on lemmas about `%` that the solver finds only when
  quotient and remainder are named (`Quotient`, `NextRemainder`, `WrapHarmless`).
* **`ProxyProofs`.**  `ProxyTypeOK`, `ProxyExactAccounting`,
  `ProxyLeastLoadedChosen`.  The accounting is about
  cardinalities: `LeavesInFlight` and `CountedIn` say how one request entering or
  leaving changes the count of its target and of no other, and the same equation
  is what keeps a decrement from going below zero.  The choice needs to know what
  a scan has seen: `ScanInv` (nothing kept, nothing healthy met) and `SteadyInv`
  (an undisturbed scan holds the first minimum of the positions behind it).
* **`WeightedRandomProofs`.**  `WeightedFallbackUnreachable`, `WeightedExactShare`.
  `SumInv` says of both loops what the running sums are: `before[k]` is the weight
  kept before position k.  `WalkInv`: while the walk goes on the drawn number is
  not below the sum behind it, so the last kept target ends it at the latest, also
  when weights are zero or negative; `ReturnInv` names the interval of numbers for
  which it ended where it did.
* **`RateLimitingProofs`.**  `RateLimitingTypeOK`, `RateLimitingWindowLimit`,
  `RateLimitingRemainingHonest`, `RateLimitingRejectionJust`.  `WindowLimit` is
  about admissions, the code counts timestamps in a log; the inductive invariant
  connects them.  `CountedInv`: every admission that counts is in the log the
  store has for that client.  It survives a new log (there was none, so nothing
  counted), pruning (keeps what is in the window), the cleanup (its log is older
  than the expiry, hence than the window) and garbage collection (a stored log is
  reachable).  With the bound on the length of logs, the limit follows by counting
  subsets.  `LockInv` is about the moment between `Prune` and `Append`: only one
  request is there for a log, the pruned log has room, and the timestamp to come
  is in no log yet.  `OwnStampInv` is for the unlocked read of the length, which
  may fall into that moment of another request: the log holds a timestamp at least
  as young as the reader's own admission.  `OwnerInv`, for the rejections: a log
  serves one client, in the store or in the hands of requests, and what counts in
  it are that client's admissions.
* **`GatewayProofs`, the health checker.**  `HealthCheckerTypeOK`,
  `HealthCheckerFlagFollowsVerdict`, `HealthCheckerVerdictFollowsProbes`,
  `HealthCheckerDebouncedVerdict`, `HealthCheckerQuietAfterStop`, about `Spec`, the
  specification of `HealthChecker`.  The code sees counters and a verdict, the
  properties speak of the results of the probes.  `CountInv` connects them: a
  counter is exactly the length of the newest run of equal results.
  `ThresholdInv`: a counter at its threshold has already moved the verdict.
  `MonitorInv`: a target `Start` has not reached has no monitor and its initial
  verdict, and no monitor survives `Stop`.
* **`GatewayProofs`, the process.**  `GatewayInFlightHandled`,
  `GatewayServedUnderWatch`, `GatewayWatched`, about `GatewaySpec`.
  `CheckerPhase`, `ListenerPhase` and `ConnPhase` tie the three goroutines to the
  phase of `main`: the checker runs from "router" to "stop", connections exist
  only once the listener was open, none is idle during a shutdown, and when it
  has ended in time none is left but upgraded ones.  `ExitKeeps` collects what every
  way to end the process has in common.  Every step of the gateway is one of
  `HealthChecker` or leaves its variables alone (`NextIsChecker`), which carries the
  theorems about the checker over to the program as `GatewayWatched`.
* **`RouterProofs`.**  `RouterConfigSound`, `RouterStrictServes`,
  `RouterRoutedRight`, `RouterEnforcedInOrder`, `RouterAnswerIsOwn`,
  `RouterOwnRequestID`: all that the `router` run checks, for any set of files and
  requests.  `StartInv` follows `main`: the services and routes before the loop's
  position are sound and unlike the ones before them, and stay so although the
  loop writes each one back; in strict mode every service passed has its balancer.
  `HandlersInv`: a route has exactly its own plugins as its chain, or none, which
  needs unique IDs and that `ChainPlugins`, which wraps back to front, gives back
  the list it was given (`ChainIsList`).  `RequestInv` is about one request, in
  five parts: `PhaseInv` (it was routed by the configuration in force), `OrderInv`
  (what it has passed is what stands before its position), `PathInv` (its path, at
  its position, leads to the content it was sent for, and so does every slot it
  will fill on a route where no path becomes empty, `Kept`), `WriterInv` (the
  stack of writers is the client's and one per slot, and the client's shows the ID
  first) and `StrictInv`.  `CacheInv` is the part the requests share: an entry
  holds what any request that reaches its slot was sent for, because the rest of
  the chain takes the slot's key, the rewritten path, to that content
  (`ContentAt`), provided again that the path is not empty and so `RequestURI`
  gives it back.  Each action is first reduced to what it does to a single request
  (`Passed`, `Settled`, `Returned`), then those three are shown to keep
  `RequestInv`.  `RoutedRight` is about the operators alone: that the slicing,
  prefix and suffix tests of `MatchPath`, `Hostname` and `MatchHost` decide what
  `Covers` says, and that `EqualFold`, which compares letter by letter, is
  equality in lower case for every pairing of letters (`PathMatch`, `HostMatch`,
  `FoldsAlike`, `MatchesCovers`).
* **`AuthenticationProofs`.**  `AuthenticationTypeOK`,
  `AuthenticationRevokedKeysGone`, `AuthenticationActiveKeysKept`,
  `AuthenticationAcceptedIsListed`.  `LoadInv` says what a load has read so far:
  good documents active since its query, one for a lookup key, and one for each
  good document the cursor returned (`PutFacts`: a later document replaces an
  earlier one and loses no lookup key).  The same facts keep the listed keys a map
  while they are read one by one, whatever the list repeats.  `RequestInv`: what a
  request holds between lookup and comparison is an entry of its own key that was
  listed then.
* **`CachingProofs`.**  `CachingTypeOK`, `CachingCachedIsComplete`,
  `CachingStalenessBound`.  The invariant `FreshInv`: age plus remaining life of
  an entry that has not expired is at most lifetime plus delay, in the store and
  in the hands of a request that took it out; time trades one for the other.
  `RecordInv`: a request holds part of an answer only while it records, so what
  `Store` finds is whole although it does not ask.

Folds.  The chain of a route and the path its plugins make of a request's are
folds over a list of any length, and the library's induction theorems, which take
an operator, cannot be used.  `RouterProofs` takes the induction apart instead:
that every non-empty set of numbers has a least element follows from the
well-foundedness of `<` (`LeastNat`), induction for a *set* of numbers follows
from that (`Induction`), and the recursive function by which the library defines a
fold is shown to exist (`FoldExists`) and then followed one step at a time.

Only model-checked, not proved: the liveness properties `EveryCallReturns`,
`EveryWriteHappens`, `EventuallyAccurate`, `ExpiredRemoved`,
`EveryLookupAnswered`, `RevocationArrives` and `SignalEndsProgram`, because
fairness and `ENABLED` are outside the prover's reach; and, being false, the
properties of the five violation runs.

## 6. Not modelled

* Logging and the key generator: formatting and output, no state a request
  depends on.
* JWT, SHA-256, bcrypt, TLS, YAML, MongoDB, regular expressions: libraries.
* The transport's timeouts and pool sizes, the Director's headers, port, log level
  and global timeouts: data that no property reads.
* Percent-encoding in paths: a path stands for its escaped form, query included.
* `StopCleanup` and the authentication plugin's `Shutdown`: nothing calls them.
* The contents of requests and answers, apart from what routing, caching and
  request IDs look at.

## 7. Plan

1. Done: the modules above; all safety properties of the runs proved.
2. What the liveness properties rest on can still be proved as safety: that the
   measure of each (tries left, documents left in the cursor, monitors not done)
   falls in the steps the fairness speaks of and never grows in others, which
   leaves only the fairness argument itself to TLC.
3. Abstract specifications that remain: an atomic counter that `Proxy`
   implements, and a sliding window per client that `RateLimiting` implements as
   far as its log is stored.
