---------------------------- MODULE RateLimiting ----------------------------
(***************************************************************************)
(* The sliding-window rate limiter of app/plugins/ratelimiting.go.         *)
(*                                                                         *)
(* A request looks its client's log up in clientStore under one lock, and  *)
(* prunes, counts and extends that log under another one, log.mu: between  *)
(* the two it holds a pointer and no lock.  cleanupOldClients deletes idle *)
(* logs from the store meanwhile, and a log deleted while a request holds  *)
(* it lives on outside the store.  The headers of an admitted request are  *)
(* computed from the log after the unlock, so they may see the log between *)
(* two writes of another request that has the lock.                        *)
(*                                                                         *)
(* A timestamp is represented by a token and its age; tokens are reused    *)
(* when they matter no more.  Time passes in units of Tick.                *)
(***************************************************************************)
EXTENDS Integers, FiniteSets

CONSTANTS
    Client,        \* client IP addresses
    Request,       \* request goroutines
    Log,           \* *clientRequestLog objects
    Token,         \* timestamps (bound: enough for all that matter at a time)
    Strategy,      \* "ip-address", or something that is not implemented
    Limit,         \* requestsPerWindow
    Window,        \* window
    ExpiryFactor,  \* expiryDuration / window: 10 in the code
    NoLog, NoClient, NoToken

ASSUME RateLimitingAssumption ==
    /\ Limit \in Nat \ {0}
    /\ Window \in Nat \ {0}
    /\ ExpiryFactor \in Nat \ {0}
    /\ NoLog \notin Log
    /\ NoClient \notin Client
    /\ NoToken \notin Token
    /\ IsFiniteSet(Token)

\* expiryDuration in cleanupOldClients; ages beyond it make no difference.
Expiry == ExpiryFactor * Window
MaxAge == Expiry + 1

VARIABLES
    store,      \* clientStore: the log of each client, NoLog if none
    stamps,     \* log.timestamps, as a set of tokens
    age,        \* time since each token's timestamp, up to MaxAge
    pc,         \* where each request is
    client,     \* clientID of each request
    log,        \* the log each request holds a pointer to
    now,        \* the timestamp a request has taken and not appended yet
    outcome,    \* what the request's client is told
    remaining,  \* X-RateLimit-Remaining of an admitted request
    \* History, read by the properties only:
    owner,      \* the client each token's admission was for, while it counts
    stray,      \* the admission used a log that was no longer in the store
    since       \* time since a request's own timestamp, up to Window + 1

logVars == <<store, stamps>>
history == <<owner, stray, since>>
vars == <<logVars, age, pc, client, log, now, outcome, remaining, history>>

\* Logs that are in the store or held by a request; the others are garbage.
Reachable == {l \in Log : \/ \E c \in Client : store[c] = l
                          \/ \E r \in Request : log[r] = l}

\* The garbage collector takes the logs that have become unreachable.
Collect == stamps' = [l \in Log |-> IF l \in Reachable' THEN stamps[l] ELSE {}]

\* A request between its two writes to log l has log.mu.  Elsewhere the lock is
\* taken and released in one step.
Locked(l) == \E q \in Request : pc[q] = "append" /\ log[q] = l

\* Tokens r may use: too old to count, in no log but the one r prunes, and not
\* about to be appended to one.
FreeTokens(r) == {k \in Token : /\ age[k] > Window /\ owner[k] = NoClient
                                /\ \A l \in Log \ {log[r]} : k \notin stamps[l]
                                /\ \A q \in Request : k # now[q]}

\* The timestamps of log l that are not older than the window.
Valid(l) == {k \in stamps[l] : age[k] <= Window}

\* log.mu.Lock(), the clock is read and the log written back without what is
\* too old.  The lock is kept.
Admit(r) == LET k == CHOOSE k \in FreeTokens(r) : TRUE IN
    /\ FreeTokens(r) # {}
    /\ stamps' = [stamps EXCEPT ![log[r]] = Valid(log[r])]
    /\ age' = [age EXCEPT ![k] = 0]
    /\ now' = [now EXCEPT ![r] = k]
    /\ since' = [since EXCEPT ![r] = 0]
    /\ pc' = [pc EXCEPT ![r] = "append"]
    /\ UNCHANGED <<store, client, log, outcome, remaining, owner, stray>>

\* The same, with too many left: log.mu.Unlock() and 429.
Reject(r) ==
    /\ stamps' = [stamps EXCEPT ![log[r]] = Valid(log[r])]
    /\ pc' = [pc EXCEPT ![r] = "done"]
    /\ outcome' = [outcome EXCEPT ![r] = "limited"]
    /\ UNCHANGED <<store, age, client, log, now, remaining, history>>

\* A new log for the client of r, stored and held.
Allocate(r) ==
    LET l == CHOOSE l \in Log \ Reachable : TRUE IN
    /\ Log \ Reachable # {}
    /\ stamps' = [stamps EXCEPT ![l] = {}]
    /\ store' = [store EXCEPT ![client[r]] = l]
    /\ log' = [log EXCEPT ![r] = l]

Forget(c) ==
    /\ store' = [store EXCEPT ![c] = NoLog]
    /\ UNCHANGED <<age, pc, client, log, now, outcome, remaining, history>>
    /\ Collect

-----------------------------------------------------------------------------
(* Seeded faults; no specification uses them. *)

\* The limit is compared with > instead of >=.
PruneOffByOne(r) ==
    /\ pc[r] = "check"
    /\ ~Locked(log[r])
    /\ IF Cardinality(Valid(log[r])) > Limit
       THEN Reject(r)
       ELSE Admit(r)

\* The log found need not be that of the client.
LookupAny(r, c) ==
    /\ pc[r] = "idle"
    /\ Strategy = "ip-address"
    /\ client' = [client EXCEPT ![r] = c]
    /\ \E d \in Client :
        /\ log' = [log EXCEPT ![r] = store[d]]
        /\ pc' = [pc EXCEPT ![r] = IF store[d] = NoLog THEN "create" ELSE "check"]
    /\ UNCHANGED <<logVars, age, now, outcome, remaining, history>>

\* The second look at the store is forgotten.
CreateUnchecked(r) ==
    /\ pc[r] = "create"
    /\ Allocate(r)
    /\ pc' = [pc EXCEPT ![r] = "check"]
    /\ UNCHANGED <<age, client, now, outcome, remaining, history>>

\* The header is computed before the timestamp is appended.
RespondEarly(r) ==
    /\ pc[r] = "allowed"
    /\ remaining' = [remaining EXCEPT ![r] = Limit - (Cardinality(stamps[log[r]]) - 1)]
    /\ outcome' = [outcome EXCEPT ![r] = "served"]
    /\ pc' = [pc EXCEPT ![r] = "done"]
    /\ UNCHANGED <<logVars, age, client, log, now, history>>

-----------------------------------------------------------------------------
\* The plugin is initialised: an empty store, no request under way.
Init ==
    /\ store = [c \in Client |-> NoLog]
    /\ stamps = [l \in Log |-> {}]
    /\ age = [k \in Token |-> MaxAge]
    /\ pc = [r \in Request |-> "idle"]
    /\ client = [r \in Request |-> NoClient]
    /\ log = [r \in Request |-> NoLog]
    /\ now = [r \in Request |-> NoToken]
    /\ outcome = [r \in Request |-> "none"]
    /\ remaining = [r \in Request |-> 0]
    /\ owner = [k \in Token |-> NoClient]
    /\ stray = [k \in Token |-> FALSE]
    /\ since = [r \in Request |-> Window + 1]

\* Handle: a strategy that is not implemented is an error, and an address that
\* does not parse is refused.
Deny(r) ==
    /\ pc[r] = "idle"
    /\ outcome' = [outcome EXCEPT ![r] = IF Strategy = "ip-address" THEN "forbidden"
                                         ELSE "misconfigured"]
    /\ pc' = [pc EXCEPT ![r] = "done"]
    /\ UNCHANGED <<logVars, age, client, log, now, remaining, history>>

\* The first look at the store, under storeMu.RLock().
Lookup(r, c) ==
    /\ pc[r] = "idle"
    /\ Strategy = "ip-address"
    /\ client' = [client EXCEPT ![r] = c]
    /\ log' = [log EXCEPT ![r] = store[c]]
    /\ pc' = [pc EXCEPT ![r] = IF store[c] = NoLog THEN "create" ELSE "check"]
    /\ UNCHANGED <<logVars, age, now, outcome, remaining, history>>

\* The second look, under storeMu.Lock(): another request may have been faster.
Create(r) ==
    /\ pc[r] = "create"
    /\ IF store[client[r]] = NoLog
       THEN Allocate(r)
       ELSE /\ log' = [log EXCEPT ![r] = store[client[r]]]
            /\ UNCHANGED logVars
    /\ pc' = [pc EXCEPT ![r] = "check"]
    /\ UNCHANGED <<age, client, now, outcome, remaining, history>>

\* The first half of the section under log.mu, up to the comparison.
Prune(r) ==
    /\ pc[r] = "check"
    /\ ~Locked(log[r])
    /\ IF Cardinality(Valid(log[r])) >= Limit
       THEN Reject(r)
       ELSE Admit(r)

\* The second half: the timestamp is appended and the lock released.
Append(r) ==
    /\ pc[r] = "append"
    /\ stamps' = [stamps EXCEPT ![log[r]] = @ \cup {now[r]}]
    /\ now' = [now EXCEPT ![r] = NoToken]
    /\ owner' = [owner EXCEPT ![now[r]] = IF age[now[r]] <= Window THEN client[r]
                                          ELSE NoClient]
    /\ stray' = [stray EXCEPT ![now[r]] = age[now[r]] <= Window /\ store[client[r]] # log[r]]
    /\ pc' = [pc EXCEPT ![r] = "allowed"]
    /\ UNCHANGED <<store, age, client, log, outcome, remaining, since>>

\* The headers of an admitted request, for which the length of the log is read
\* again without the lock; then the next handler.
Respond(r) ==
    /\ pc[r] = "allowed"
    /\ remaining' = [remaining EXCEPT ![r] = Limit - Cardinality(stamps[log[r]])]
    /\ outcome' = [outcome EXCEPT ![r] = "served"]
    /\ pc' = [pc EXCEPT ![r] = "done"]
    /\ UNCHANGED <<logVars, age, client, log, now, history>>

\* The goroutine ends; the next request takes its place.
Done(r) ==
    /\ pc[r] = "done"
    /\ pc' = [pc EXCEPT ![r] = "idle"]
    /\ client' = [client EXCEPT ![r] = NoClient]
    /\ log' = [log EXCEPT ![r] = NoLog]
    /\ outcome' = [outcome EXCEPT ![r] = "none"]
    /\ remaining' = [remaining EXCEPT ![r] = 0]
    /\ since' = [since EXCEPT ![r] = Window + 1]
    /\ UNCHANGED <<store, age, now, owner, stray>>
    /\ Collect

\* cleanupOldClients visits one client.  An empty log is skipped; otherwise the
\* newest timestamp decides.  It waits for log.mu.  A pass visits all clients under
\* storeMu, but a visit reads and writes nothing that the other visits do.
Cleanup(c) ==
    /\ store[c] # NoLog
    /\ ~Locked(store[c])
    /\ stamps[store[c]] # {}
    /\ \A k \in stamps[store[c]] : age[k] > Expiry
    /\ Forget(c)

Tick ==
    /\ age' = [k \in Token |-> IF age[k] < MaxAge THEN age[k] + 1 ELSE age[k]]
    /\ since' = [r \in Request |-> IF since[r] <= Window THEN since[r] + 1 ELSE since[r]]
    /\ owner' = [k \in Token |-> IF age[k] < Window THEN owner[k] ELSE NoClient]
    /\ stray' = [k \in Token |-> age[k] < Window /\ stray[k]]
    /\ UNCHANGED <<logVars, pc, client, log, now, outcome, remaining>>

Handle(r) ==
    \/ Deny(r)
    \/ \E c \in Client : Lookup(r, c)
    \/ Create(r) \/ Prune(r) \/ Append(r) \/ Respond(r) \/ Done(r)

Next ==
    \/ \E r \in Request : Handle(r)
    \/ \E c \in Client : Cleanup(c)
    \/ Tick

Spec == Init /\ [][Next]_vars

-----------------------------------------------------------------------------
\* Every variable keeps its type; no log is longer than the limit.
TypeOK ==
    /\ store \in [Client -> Log \cup {NoLog}]
    /\ stamps \in [Log -> SUBSET Token]
    /\ \A l \in Log : Cardinality(stamps[l]) <= Limit
    /\ age \in [Token -> 0..MaxAge]
    /\ pc \in [Request -> {"idle", "create", "check", "append", "allowed", "done"}]
    /\ client \in [Request -> Client \cup {NoClient}]
    /\ log \in [Request -> Log \cup {NoLog}]
    /\ now \in [Request -> Token \cup {NoToken}]
    /\ outcome \in [Request -> {"none", "forbidden", "misconfigured", "limited", "served"}]
    /\ remaining \in [Request -> Int]
    /\ owner \in [Token -> Client \cup {NoClient}]
    /\ stray \in [Token -> BOOLEAN]
    /\ since \in [Request -> 0..(Window + 1)]

\* The admissions of client c that are not older than the window.
InWindow(c) == {k \in Token : owner[k] = c /\ age[k] <= Window}

\* At no time has a client more than Limit admissions in the window that ends
\* then, counting those recorded in a log that was in the store at the time:
\* concurrent first requests share one log, pruning forgets nothing that still
\* counts and the cleanup deletes only logs that do not matter any more.
WindowLimit ==
    \A c \in Client : Cardinality({k \in InWindow(c) : ~stray[k]}) <= Limit

\* A request is turned away only if its client really has Limit admissions in
\* the window: neither other clients' requests nor expired timestamps count
\* against it, also when its log has left the store.
RejectionJust ==
    [][\A r \in Request : outcome[r] # "limited" /\ outcome'[r] = "limited"
                          => Cardinality(InWindow(client[r])) >= Limit]_vars

\* X-RateLimit-Remaining, read after the unlock, is between 0 and the limit and
\* never ignores the request it is sent with while that is in the window, also
\* when another request has pruned the log and not appended to it yet.
RemainingHonest ==
    [][\A r \in Request : outcome[r] # "served" /\ outcome'[r] = "served" =>
        /\ remaining'[r] \in 0..Limit
        /\ since[r] <= Window => remaining'[r] < Limit]_vars

\* "enforces request rate limits" (ratelimiting.go:27): no client gets more than
\* Limit requests through in any window.
EveryClientLimited == \A c \in Client : Cardinality(InWindow(c)) <= Limit
=============================================================================
