------------------------------- MODULE Caching -------------------------------
(***************************************************************************)
(* The response cache of app/plugins/caching.go.  A request takes an entry *)
(* out of the store under one lock, decides about it under none, removes a *)
(* stale one under another lock and stores the upstream's answer under a   *)
(* third; other requests for the same key and the cleanup goroutine run in *)
(* between.  The answer is recorded piece by piece: the header, then the   *)
(* body, which may break off.                                              *)
(*                                                                         *)
(* Entries carry the time they have left (expiresAt - now) and, for the    *)
(* properties, the age of their content.                                   *)
(***************************************************************************)
EXTENDS Integers

CONSTANTS
    Key,        \* cache keys
    Request,    \* request goroutines
    TTL,        \* p.ttl
    MaxDelay,   \* from the end of the upstream's answer to that of the handler, at most
    NoEntry

ASSUME CachingAssumption ==
    /\ TTL \in Nat \ {0}
    /\ MaxDelay \in Nat

\* What the recorder holds of an answer: the status is 200 or another one, the
\* body has arrived in part or as a whole, and is within maxCacheBodySize or not.
Status == {"ok", "error"}
Size   == {"fits", "large"}
Body   == {"part", "whole"}

MaxAge == TTL + MaxDelay + 1

\* life is negative once the entry has expired.
EntryType == [status : Status, size : Size, body : Body,
              life : -1..TTL, age : 0..MaxAge]

ASSUME NoEntryAssumption == NoEntry \notin EntryType

VARIABLES
    store,    \* cacheStore
    pc,       \* where each request is
    key,      \* its cache key
    entry,    \* the entry it took from the store, or the answer it records
    outcome   \* how the client was served

vars == <<store, pc, key, entry, outcome>>

\* What the recorder holds, as an entry to be.
Recorded(status, size, body) ==
    [status |-> status, size |-> size, body |-> body, life |-> TTL, age |-> 0]

Expired(e) == e.life < 0

\* An answer that is still arriving has no age yet.
Older(e) == IF e = NoEntry \/ e.body = "part" THEN e ELSE
    [e EXCEPT !.life = IF @ < 0 THEN @ ELSE @ - 1,
              !.age  = IF @ < MaxAge THEN @ + 1 ELSE @]

Finish(r, result) ==
    /\ pc' = [pc EXCEPT ![r] = "done"]
    /\ outcome' = [outcome EXCEPT ![r] = result]

-----------------------------------------------------------------------------
(* Seeded faults; no specification uses them. *)

\* A body that breaks off ends the proxy's handler without a panic.
AbortReturns(r) ==
    /\ pc[r] \in {"fetch", "copying"}
    /\ entry[r] # NoEntry
    /\ pc' = [pc EXCEPT ![r] = "answered"]
    /\ UNCHANGED <<store, key, entry, outcome>>

\* isExpired is asked only of the entry in the store, before it is taken.
HitUnasked(r) ==
    /\ pc[r] = "decide"
    /\ entry[r] # NoEntry
    /\ Finish(r, "hit")
    /\ UNCHANGED <<store, key, entry>>

\* The cleanup looks for entries about to expire and misses those that have.
CleanupAtZero ==
    /\ \E k \in Key : store[k] # NoEntry /\ store[k].life = 0
    /\ store' = [k \in Key |-> IF store[k] # NoEntry /\ store[k].life = 0
                               THEN NoEntry ELSE store[k]]
    /\ UNCHANGED <<pc, key, entry, outcome>>

-----------------------------------------------------------------------------
\* The plugin is initialised: an empty store, no request under way.
Init ==
    /\ store = [k \in Key |-> NoEntry]
    /\ pc = [r \in Request |-> "idle"]
    /\ key \in [Request -> Key]
    /\ entry = [r \in Request |-> NoEntry]
    /\ outcome = [r \in Request |-> "none"]

\* Handle: anything but GET goes straight to the next handler.
Bypass(r) ==
    /\ pc[r] = "idle"
    /\ Finish(r, "passed")
    /\ UNCHANGED <<store, key, entry>>

\* The store is read under storeMu.RLock().
Lookup(r, k) ==
    /\ pc[r] = "idle"
    /\ key' = [key EXCEPT ![r] = k]
    /\ entry' = [entry EXCEPT ![r] = store[k]]
    /\ pc' = [pc EXCEPT ![r] = "decide"]
    /\ UNCHANGED <<store, outcome>>

\* The entry taken has not expired: it is served.
Hit(r) ==
    /\ pc[r] = "decide"
    /\ entry[r] # NoEntry
    /\ ~Expired(entry[r])
    /\ Finish(r, "hit")
    /\ UNCHANGED <<store, key, entry>>

\* The entry taken has expired: whatever is stored under its key by now is
\* deleted.
Stale(r) ==
    /\ pc[r] = "decide"
    /\ entry[r] # NoEntry
    /\ Expired(entry[r])
    /\ store' = [store EXCEPT ![key[r]] = NoEntry]
    /\ pc' = [pc EXCEPT ![r] = "fetch"]
    /\ UNCHANGED <<key, entry, outcome>>

Miss(r) ==
    /\ pc[r] = "decide"
    /\ entry[r] = NoEntry
    /\ pc' = [pc EXCEPT ![r] = "fetch"]
    /\ UNCHANGED <<store, key, entry, outcome>>

\* next.ServeHTTP: the header of the answer is recorded ...
Fetch(r, s) ==
    /\ pc[r] = "fetch"
    /\ entry' = [entry EXCEPT ![r] = Recorded(s, "fits", "part")]
    /\ pc' = [pc EXCEPT ![r] = "copying"]
    /\ UNCHANGED <<store, key, outcome>>

\* ... then its body, to the end ...
Copy(r, z) ==
    /\ pc[r] = "copying"
    /\ entry' = [entry EXCEPT ![r] = Recorded(entry[r].status, z, "whole")]
    /\ pc' = [pc EXCEPT ![r] = "answered"]
    /\ UNCHANGED <<store, key, outcome>>

\* ... or a handler behind this one panics, ReverseProxy with ErrAbortHandler when
\* the body breaks off.  That unwinds this handler too, whatever it has recorded.
Abort(r) ==
    /\ pc[r] \in {"fetch", "copying"}
    /\ Finish(r, "aborted")
    /\ UNCHANGED <<store, key, entry>>

\* The answer goes to the client first; only then is it cached, with a lifetime
\* that starts now, if the status is 200 and the recorded body is not too large.
Store(r) ==
    /\ pc[r] = "answered"
    /\ store' = IF entry[r].status = "ok" /\ entry[r].size = "fits"
                THEN [store EXCEPT ![key[r]] = [entry[r] EXCEPT !.life = TTL]]
                ELSE store
    /\ Finish(r, "miss")
    /\ UNCHANGED <<key, entry>>

Done(r) ==
    /\ pc[r] = "done"
    /\ pc' = [pc EXCEPT ![r] = "idle"]
    /\ entry' = [entry EXCEPT ![r] = NoEntry]
    /\ outcome' = [outcome EXCEPT ![r] = "none"]
    /\ UNCHANGED <<store, key>>

\* A pass of cleanupExpiredEntries, all of it under storeMu.Lock().
Cleanup ==
    /\ \E k \in Key : store[k] # NoEntry /\ Expired(store[k])
    /\ store' = [k \in Key |-> IF store[k] # NoEntry /\ Expired(store[k])
                               THEN NoEntry ELSE store[k]]
    /\ UNCHANGED <<pc, key, entry, outcome>>

\* Time passes, though not beyond the write timeout for a handler that writes a
\* complete answer to its client.
Tick ==
    /\ \A r \in Request : pc[r] = "answered" => entry[r].age < MaxDelay
    /\ store' = [k \in Key |-> Older(store[k])]
    /\ entry' = [r \in Request |-> Older(entry[r])]
    /\ UNCHANGED <<pc, key, outcome>>

Handle(r) ==
    \/ Bypass(r)
    \/ \E k \in Key : Lookup(r, k)
    \/ Hit(r) \/ Stale(r) \/ Miss(r)
    \/ \E s \in Status : Fetch(r, s)
    \/ \E z \in Size : Copy(r, z)
    \/ Abort(r) \/ Store(r) \/ Done(r)

Next == (\E r \in Request : Handle(r)) \/ Cleanup \/ Tick

Spec == Init /\ [][Next]_vars

\* The cleanup goroutine's ticker keeps firing and storeMu is never held for
\* long: nobody waits while holding it.
FairSpec == Spec /\ WF_vars(Cleanup)

-----------------------------------------------------------------------------
\* Every variable keeps its type; no entry lives longer than TTL.
TypeOK ==
    /\ store \in [Key -> EntryType \cup {NoEntry}]
    /\ pc \in [Request -> {"idle", "decide", "fetch", "copying", "answered", "done"}]
    /\ key \in [Request -> Key]
    /\ entry \in [Request -> EntryType \cup {NoEntry}]
    /\ outcome \in [Request -> {"none", "passed", "hit", "miss", "aborted"}]

\* No cut-off answer is ever replayed: what is in the store is a 200 with the whole
\* of its body.  Handle asks for the status and the size of what it has recorded;
\* that the body is complete it takes from next.ServeHTTP's having returned.
CachedIsComplete ==
    \A k \in Key : store[k] # NoEntry => /\ store[k].status = "ok"
                                         /\ store[k].body = "whole"

\* What a hit serves was the upstream's answer at most the lifetime plus one
\* handler's delay ago, although the entry was taken from the store before the
\* decision, may have left it since, and got its lifetime after the client was
\* served.
StalenessBound ==
    [][\A r \in Request : outcome[r] # "hit" /\ outcome'[r] = "hit"
                          => entry[r].age <= TTL + MaxDelay]_vars

\* No expired entry stays in the store for good, even if nobody asks for its key
\* again.
ExpiredRemoved ==
    \A k \in Key : (store[k] # NoEntry /\ Expired(store[k]))
                   ~> (store[k] = NoEntry \/ ~Expired(store[k]))
=============================================================================
