--------------------------- MODULE Authentication ---------------------------
(***************************************************************************)
(* One instance of the authentication plugin of                            *)
(* app/plugins/authentication.go: what Init() makes of the configuration,  *)
(* the API keys it holds in memory, the goroutine that refreshes them from *)
(* MongoDB and the requests that are judged by them.                       *)
(*                                                                         *)
(* An entry, in MongoDB or in the YAML file, is a record: lookup is the    *)
(* key whose SHA-256 it is filed under, hash the key its bcrypt hash was   *)
(* made from, client the identity it grants.  Its form is "good" or        *)
(* "damaged".  Depending on the damage the code skips such an entry with a *)
(* warning (it does not decode, a field is missing) or panics: the slice   *)
(* expression in the log statement does not survive a lookup string of     *)
(* less than eight characters.                                             *)
(***************************************************************************)
EXTENDS FiniteSets, Sequences

CONSTANTS
    Key,       \* API keys a client may present
    Document,  \* the entries the MongoDB collection may contain
    Listed,    \* the entries an api_keys list of the configuration may contain
    Yamls,     \* the api_keys lists it may contain
    Request,   \* request goroutines
    NoKey,
    NoEntry

\* All entries, wherever they are stored.
Entry == Document \union Listed

ASSUME AuthenticationAssumption ==
    /\ \A d \in Entry : d.form \in {"good", "damaged"}
    /\ Yamls \subseteq Seq(Listed)
    /\ NoKey \notin Key
    /\ NoEntry \notin Entry

VARIABLES
    provider,  \* p.Provider
    mongo,     \* p.useMongoDBForAPIKeys, as long as Init() asks for it
    pending,   \* what the loop over keysList has not read yet
    pc,        \* where Init() or, after it, the refresh goroutine is
    serving,   \* Init() has returned and requests can come
    valid,     \* validAPIKeys: at most one entry for each lookup key
    loaded,    \* loadedKeys of the load under way
    returned,  \* what its cursor has returned so far
    db,        \* the active documents of the collection
    rpc,       \* where each request is
    key,       \* the API key it presents
    details,   \* apiKeyDetails, copied under the read lock
    outcome,   \* how it was judged
    \* History
    seen,      \* documents active at some moment since the query of the load
    steady,    \* documents active at every moment since then
    basis,     \* the good ones of seen, as of the load that filled validAPIKeys
    promised,  \* the entries that load has to have delivered
    grounds    \* basis when the request looked its key up

settingVars == <<mongo, pending>>
cursorVars == <<loaded, returned, seen, steady>>
cacheVars == <<valid, basis, promised>>
requestVars == <<rpc, key, details, outcome, grounds>>
vars == <<provider, settingVars, pc, serving, cacheVars, cursorVars, db, requestVars>>

Good(entries) == {d \in entries : d.form = "good"}

\* m[d.lookup] = d: a later entry for the same lookup key replaces the earlier.
Put(m, d) == {e \in m : e.lookup # d.lookup} \union {d}

Alive == pc # "crashed"

\* The YAML keys are read with the global section, unless that section already
\* asks for MongoDB.
ReadsYaml(global) == global \in {"absent", "partial"}

\* Init() or the goroutine has finished a call of loadAPIKeysFromMongoDB.  Only
\* an initial load that succeeds starts the goroutine.
LoadReturns(ok) ==
    /\ pc' = IF serving \/ ok THEN "select" ELSE "off"
    /\ serving' = TRUE

\* The cursor and loadedKeys go with the call.
ForgetCursor == loaded' = {} /\ returned' = {} /\ seen' = {} /\ steady' = {}

\* validAPIKeys = m and Unlock, when the loop over the cursor has ended.
Replace(m, whole) ==
    /\ pc = "cursor"
    /\ whole => steady \subseteq returned
    /\ valid' = m
    /\ basis' = Good(seen)
    /\ promised' = IF whole THEN Good(steady) ELSE {}
    /\ LoadReturns(TRUE)
    /\ ForgetCursor
    /\ UNCHANGED <<provider, settingVars, db, requestVars>>

\* cursor.Next returns d.  A cursor is no snapshot: it returns a document at
\* most once, and only if it was active at some moment since the query.
Return(d) ==
    /\ pc = "cursor"
    /\ d \in seen \ returned
    /\ returned' = returned \union {d}
    /\ UNCHANGED <<provider, settingVars, serving, cacheVars, seen, steady, db, requestVars>>

Judge(r, result) ==
    /\ rpc' = [rpc EXCEPT ![r] = "done"]
    /\ outcome' = [outcome EXCEPT ![r] = result]

pluginVars == <<provider, settingVars, pc, serving, cacheVars, cursorVars, db>>

-----------------------------------------------------------------------------
(* Seeded faults; no specification uses them. *)

\* The keys read are added to those already known.
EndCursorMerge(whole) ==
    Replace({e \in valid : \A d \in loaded : d.lookup # e.lookup} \union loaded, whole)

\* Two entries for the same lookup key are both kept.
CursorNextTwice(d) ==
    /\ d.form = "good"
    /\ loaded' = loaded \union {d}
    /\ Return(d)
    /\ UNCHANGED pc

\* A document that does not decode throws away what was read before it.
CursorNextReset(d) ==
    /\ loaded' = IF d.form = "good" THEN Put(loaded, d) ELSE {}
    /\ Return(d)
    /\ UNCHANGED pc

\* The goroutine gives up after a failed refresh.
FindFailsForGood ==
    /\ pc = "find"
    /\ pc' = "off"
    /\ serving' = TRUE
    /\ UNCHANGED <<provider, settingVars, cacheVars, cursorVars, db, requestVars>>

\* A key that is found is taken to match, without the bcrypt comparison.
CompareNot(r) ==
    /\ Alive
    /\ rpc[r] = "compare"
    /\ Judge(r, "passed")
    /\ UNCHANGED <<pluginVars, key, details, grounds>>

\* An empty result leaves the old keys in place, and the lock taken.
EndCursorStuck(whole) == loaded # {} /\ Replace(loaded, whole)

-----------------------------------------------------------------------------
\* A new plugin, any configuration and any contents of the collection.
Init ==
    /\ provider \in {"none", "jwt", "api-key", "other"}
    /\ pc = "configure"
    /\ serving = FALSE
    /\ mongo = FALSE /\ pending = <<>>
    /\ valid = {} /\ loaded = {} /\ returned = {}
    /\ db \in SUBSET Document
    /\ rpc = [r \in Request |-> "idle"]
    /\ key = [r \in Request |-> NoKey]
    /\ details = [r \in Request |-> NoEntry]
    /\ outcome = [r \in Request |-> "none"]
    /\ seen = {} /\ steady = {} /\ basis = {} /\ promised = {}
    /\ grounds = [r \in Request |-> {}]

(* Init() and the loads *)

\* applyAuthConfig for the global section, with its MongoDB settings ("nil" if
\* there is no such section) and its list of keys.
Configure(global, yaml) ==
    /\ pc = "configure"
    /\ mongo' = (global = "complete")
    /\ pending' = IF ReadsYaml(global) THEN yaml ELSE <<>>
    /\ pc' = "keys"
    /\ UNCHANGED <<provider, serving, cacheVars, cursorVars, db, requestVars>>

\* One pass of its loop over the list.  A lookup key that is listed again replaces
\* the earlier entry.
ReadKey ==
    LET d == Head(pending)
    IN  /\ pc = "keys"
        /\ pending # <<>>
        /\ pending' = Tail(pending)
        /\ \/ /\ d.form = "good"
              /\ valid' = Put(valid, d)
              /\ basis' = basis \union {d}
              /\ promised' = promised \union {d}
              /\ UNCHANGED pc
           \/ /\ d.form = "damaged"
              /\ pc' \in {"keys", "crashed"}
              /\ UNCHANGED cacheVars
        /\ UNCHANGED <<provider, mongo, serving, cursorVars, db, requestVars>>

\* applyAuthConfig for the route, whose settings decide about MongoDB if they
\* name a URI, and decide against it if another name is missing; then Init() up
\* to connectMongoDB.  JWT settings that are not usable make the plugin
\* unavailable.
ConfigureRoute(route, usable) ==
    /\ pc = "keys"
    /\ pending = <<>>
    /\ mongo' = IF route = "absent" THEN mongo ELSE route = "complete"
    /\ pc' = IF provider = "jwt" /\ ~usable THEN "refused"
             ELSE IF provider = "api-key" /\ mongo' THEN "connect"
             ELSE "off"
    /\ serving' = (pc' = "off")
    /\ UNCHANGED <<provider, pending, cacheVars, cursorVars, db, requestVars>>

\* connectMongoDB: Connect and Ping.
Connect ==
    /\ pc = "connect"
    /\ pc' = "find"
    /\ UNCHANGED <<provider, settingVars, serving, cacheVars, cursorVars, db, requestVars>>

\* It fails: Init() goes on without MongoDB, and without reading the YAML keys
\* if they were passed over.
ConnectFails ==
    /\ pc = "connect"
    /\ pc' = "off"
    /\ serving' = TRUE
    /\ mongo' = FALSE
    /\ UNCHANGED <<provider, pending, cacheVars, cursorVars, db, requestVars>>

\* The query is answered and the write lock taken; a reader's section is one
\* step, so the lock is free.
Find ==
    /\ pc = "find"
    /\ pc' = "cursor"
    /\ loaded' = {} /\ returned' = {}
    /\ seen' = db /\ steady' = db
    /\ UNCHANGED <<provider, settingVars, serving, cacheVars, db, requestVars>>

\* The query fails.
FindFails ==
    /\ pc = "find"
    /\ LoadReturns(FALSE)
    /\ UNCHANGED <<provider, settingVars, cacheVars, cursorVars, db, requestVars>>

\* One pass of the loop.
CursorNext(d) ==
    /\ \/ /\ d.form = "good"
          /\ loaded' = Put(loaded, d)
          /\ UNCHANGED pc
       \/ /\ d.form = "damaged"
          /\ UNCHANGED <<loaded, pc>>
       \/ /\ d.form = "damaged"
          /\ pc' = "crashed"
          /\ UNCHANGED loaded
    /\ Return(d)

\* cursor.Next says false, because all documents have been returned (whole) or
\* because of a timeout or a lost connection: the code does not ask which.
EndCursor(whole) == Replace(loaded, whole)

(* The refresh goroutine *)

\* A tick comes, or has come during the load before.  The other branch of the
\* select is for Shutdown(), which nothing calls.
SelectTick ==
    /\ pc = "select"
    /\ pc' = "find"
    /\ UNCHANGED <<provider, settingVars, serving, cacheVars, cursorVars, db, requestVars>>

\* An administrator activates or deactivates a document.
Change(d) ==
    /\ Alive
    /\ db' = IF d \in db THEN db \ {d} ELSE db \union {d}
    /\ seen' = IF pc = "cursor" THEN seen \union db' ELSE seen
    /\ steady' = IF pc = "cursor" THEN steady \intersect db' ELSE steady
    /\ UNCHANGED <<provider, settingVars, pc, serving, cacheVars, loaded, returned, requestVars>>

(* Handle *)

\* Requests that need no key: "none" lets them pass, an unknown provider is an
\* error, a token is as good as jwt.ParseWithClaims finds it, a key is missing.
Decide(r) ==
    /\ Alive /\ serving
    /\ rpc[r] = "idle"
    /\ \/ provider = "none" /\ Judge(r, "passed")
       \/ provider = "other" /\ Judge(r, "misconfigured")
       \/ provider = "jwt" /\ \E result \in {"passed", "unauthorized"} : Judge(r, result)
       \/ provider = "api-key" /\ Judge(r, "unauthorized")
    /\ UNCHANGED <<pluginVars, key, details, grounds>>

\* A request with an API key computes the lookup key.
Present(r, k) ==
    /\ Alive /\ serving
    /\ rpc[r] = "idle"
    /\ provider = "api-key"
    /\ key' = [key EXCEPT ![r] = k]
    /\ rpc' = [rpc EXCEPT ![r] = "lookup"]
    /\ UNCHANGED <<pluginVars, details, outcome, grounds>>

\* validAPIKeys[incomingLookupKey] under the read lock; a load that walks its
\* cursor holds the write lock.
Lookup(r) ==
    LET found == {d \in valid : d.lookup = key[r]}
    IN  /\ Alive
        /\ rpc[r] = "lookup"
        /\ pc # "cursor"
        /\ \/ /\ found = {}
              /\ Judge(r, "unauthorized")
              /\ UNCHANGED <<details, grounds>>
           \/ \E d \in found :
                /\ details' = [details EXCEPT ![r] = d]
                /\ grounds' = [grounds EXCEPT ![r] = basis]
                /\ rpc' = [rpc EXCEPT ![r] = "compare"]
                /\ UNCHANGED outcome
        /\ UNCHANGED <<pluginVars, key>>

\* bcrypt.CompareHashAndPassword, without a lock.
Compare(r) ==
    /\ Alive
    /\ rpc[r] = "compare"
    /\ Judge(r, IF details[r].hash = key[r] THEN "passed" ELSE "unauthorized")
    /\ UNCHANGED <<pluginVars, key, details, grounds>>

\* The goroutine goes and another request can use its place.
Done(r) ==
    /\ Alive
    /\ rpc[r] = "done"
    /\ rpc' = [rpc EXCEPT ![r] = "idle"]
    /\ key' = [key EXCEPT ![r] = NoKey]
    /\ details' = [details EXCEPT ![r] = NoEntry]
    /\ outcome' = [outcome EXCEPT ![r] = "none"]
    /\ grounds' = [grounds EXCEPT ![r] = {}]
    /\ UNCHANGED pluginVars

Handle(r) ==
    \/ Decide(r)
    \/ \E k \in Key : Present(r, k)
    \/ Lookup(r) \/ Compare(r) \/ Done(r)

Next ==
    \/ \E global \in {"nil", "absent", "partial", "complete"}, yaml \in Yamls :
           Configure(global, yaml)
    \/ ReadKey
    \/ \E route \in {"absent", "partial", "complete"}, usable \in BOOLEAN :
           ConfigureRoute(route, usable)
    \/ Connect \/ ConnectFails
    \/ Find \/ FindFails
    \/ \E d \in Document : CursorNext(d)
    \/ \E whole \in BOOLEAN : EndCursor(whole)
    \/ SelectTick
    \/ \E d \in Document : Change(d)
    \/ \E r \in Request : Handle(r)

\* Goroutines that can run do; the ticker fires; a cursor ends at the latest
\* with the timeout of its context.  RWMutex admits waiting readers when the
\* writer unlocks, so lookups are not shut out by one load after the other.
\* About MongoDB: queries repeated for ever do not all fail.
Fairness ==
    /\ WF_vars(SelectTick)
    /\ WF_vars(Find \/ FindFails) /\ SF_vars(Find)
    /\ WF_vars(\E whole \in BOOLEAN : EndCursor(whole))
    /\ \A r \in Request : SF_vars(Lookup(r)) /\ WF_vars(Compare(r))

Spec == Init /\ [][Next]_vars

FairSpec == Spec /\ Fairness

-----------------------------------------------------------------------------
Location == {"configure", "keys", "connect", "find", "cursor", "select", "off",
             "refused", "crashed"}

\* Every variable keeps its type, and validAPIKeys is a map: there is one entry
\* for a lookup key at most.
TypeOK ==
    /\ provider \in {"none", "jwt", "api-key", "other"}
    /\ mongo \in BOOLEAN /\ pending \in Seq(Entry)
    /\ pc \in Location
    /\ serving \in BOOLEAN
    /\ valid \subseteq Entry /\ loaded \subseteq Entry
    /\ \A d, e \in valid : d.lookup = e.lookup => d = e
    /\ db \subseteq Document /\ returned \subseteq Document
    /\ seen \subseteq Document /\ steady \subseteq Document
    /\ basis \subseteq Entry /\ promised \subseteq Entry
    /\ rpc \in [Request -> {"idle", "lookup", "compare", "done"}]
    /\ key \in [Request -> Key \union {NoKey}]
    /\ details \in [Request -> Entry \union {NoEntry}]
    /\ outcome \in [Request -> {"none", "passed", "unauthorized", "misconfigured"}]
    /\ grounds \in [Request -> SUBSET Entry]

\* Revoked keys leave memory: loadAPIKeysFromMongoDB leaves nothing in
\* validAPIKeys that was not active at some moment of that load.
RevokedKeysGone == valid \subseteq basis

\* Active keys stay: an entry that was active during the whole of a load that
\* saw all documents has its lookup key in validAPIKeys, also next to documents
\* that do not decode, and no failed connection or query takes it away.
ActiveKeysKept == \A d \in promised : \E e \in valid : e.lookup = d.lookup

\* Handle lets a request with an API key pass only as the client of an entry
\* for this very key, by lookup key and by hash, that was active since the load
\* in force at its lookup began; no refresh between lookup and comparison
\* changes that.
AcceptedIsListed ==
    \A r \in Request :
        provider = "api-key" /\ outcome[r] = "passed" =>
            /\ details[r] \in grounds[r]
            /\ details[r].lookup = key[r]
            /\ details[r].hash = key[r]

\* A request that asks for its key gets an answer, although a load holds the
\* lock for as long as its cursor takes, unless the program ends.
EveryLookupAnswered ==
    \A r \in Request : (rpc[r] = "lookup") ~> (rpc[r] = "done" \/ pc = "crashed")

\* With the refresh goroutine running, a document that is deactivated for good
\* is in the end no longer honoured, whatever refreshes fail in between.
RevocationArrives ==
    \A d \in Document :
        <>(pc = "select") /\ <>[](d \notin db) => <>[](d \notin valid \/ pc = "crashed")
=============================================================================
