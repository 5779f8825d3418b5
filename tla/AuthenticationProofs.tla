------------------------ MODULE AuthenticationProofs ------------------------
(* Theorems about Authentication for any keys, documents, lists and requests. *)
EXTENDS Authentication, TLAPS

IsMap(m) == \A d, e \in m : d.lookup = e.lookup => d = e

\* Every entry of the one set has its lookup key in the other.
Covers(m, entries) == \A d \in entries : \E e \in m : e.lookup = d.lookup

\* What a load has read so far: good documents that were active since its query,
\* one for a lookup key, and one for each good document returned.
LoadInv ==
    /\ loaded \subseteq Good(seen)
    /\ IsMap(loaded)
    /\ Covers(loaded, Good(returned))

\* A request is judged at its end, and holds an entry for its key between lookup
\* and comparison.
RequestInv ==
    \A r \in Request :
        /\ rpc[r] # "done" => outcome[r] = "none"
        /\ rpc[r] = "compare" => /\ details[r] \in grounds[r]
                                 /\ details[r].lookup = key[r]

AuthInv == TypeOK /\ LoadInv /\ RevokedKeysGone /\ ActiveKeysKept
                  /\ RequestInv /\ AcceptedIsListed

\* Put keeps a map a map, adds d, loses no lookup key and adds nothing else.
LEMMA PutFacts ==
    ASSUME NEW m, NEW d, IsMap(m)
    PROVE  /\ IsMap(Put(m, d))
           /\ d \in Put(m, d)
           /\ Put(m, d) \subseteq m \union {d}
           /\ \A e \in m : \E f \in Put(m, d) : f.lookup = e.lookup
  BY DEF IsMap, Put

LEMMA GoodFacts ==
    ASSUME NEW s, NEW t, NEW d
    PROVE  /\ Good(s) \subseteq s
           /\ s \subseteq t => Good(s) \subseteq Good(t)
           /\ d.form = "good" => Good(s \union {d}) = Good(s) \union {d}
           /\ d.form # "good" => Good(s \union {d}) = Good(s)
  BY DEF Good

-----------------------------------------------------------------------------
LEMMA InitAuth == Init => AuthInv
  <1> SUFFICES ASSUME Init PROVE AuthInv
    OBVIOUS
  <1>1. TypeOK
    <2>1. pending \in Seq(Entry)
      BY DEF Init
    <2>2. mongo \in BOOLEAN /\ serving \in BOOLEAN /\ pc \in Location
      BY DEF Init, Location
    <2>3. /\ provider \in {"none", "jwt", "api-key", "other"}
          /\ valid = {} /\ loaded \subseteq Entry
          /\ db \subseteq Document /\ returned \subseteq Document
          /\ seen \subseteq Document /\ steady \subseteq Document
          /\ basis \subseteq Entry /\ promised \subseteq Entry
      BY DEF Init
    <2>4. /\ rpc \in [Request -> {"idle", "lookup", "compare", "done"}]
          /\ key \in [Request -> Key \union {NoKey}]
          /\ details \in [Request -> Entry \union {NoEntry}]
          /\ outcome \in [Request -> {"none", "passed", "unauthorized", "misconfigured"}]
          /\ grounds \in [Request -> SUBSET Entry]
      BY DEF Init
    <2> QED
      BY <2>1, <2>2, <2>3, <2>4 DEF TypeOK
  <1>2. LoadInv /\ RevokedKeysGone /\ ActiveKeysKept
    BY DEF Init, LoadInv, RevokedKeysGone, ActiveKeysKept, IsMap, Covers, Good
  <1>3. RequestInv /\ AcceptedIsListed
    BY DEF Init, RequestInv, AcceptedIsListed
  <1> QED
    BY <1>1, <1>2, <1>3 DEF AuthInv

\* What the plugin does leaves the requests alone.
LEMMA PluginStep ==
    ASSUME TypeOK, RequestInv, AcceptedIsListed, UNCHANGED <<provider, requestVars>>
    PROVE  RequestInv' /\ AcceptedIsListed'
  BY DEF requestVars, RequestInv, AcceptedIsListed

\* What the requests do leaves the plugin alone.
LEMMA RequestStep ==
    ASSUME AuthInv, UNCHANGED pluginVars
    PROVE  LoadInv' /\ RevokedKeysGone' /\ ActiveKeysKept'
  BY DEF AuthInv, pluginVars, cacheVars, cursorVars, LoadInv, RevokedKeysGone,
         ActiveKeysKept, IsMap, Covers, Good

\* A step that touches neither the cursor nor the cache.
LEMMA QuietStep ==
    ASSUME AuthInv, UNCHANGED <<provider, cacheVars, cursorVars, db, requestVars>>,
           mongo' \in BOOLEAN, pending' \in Seq(Entry), serving' \in BOOLEAN,
           pc' \in Location
    PROVE  AuthInv'
  <1>1. RequestInv' /\ AcceptedIsListed'
    BY PluginStep DEF AuthInv
  <1>2. LoadInv' /\ RevokedKeysGone' /\ ActiveKeysKept'
    BY DEF AuthInv, cacheVars, cursorVars, LoadInv, RevokedKeysGone, ActiveKeysKept,
           IsMap, Covers, Good
  <1>3. TypeOK'
    BY DEF AuthInv, TypeOK, cacheVars, cursorVars, requestVars
  <1> QED
    BY <1>1, <1>2, <1>3 DEF AuthInv

\* A pass of the loop over the keys of the configuration.
LEMMA ReadKeyAuth ==
    ASSUME AuthInv, ReadKey
    PROVE  AuthInv'
  <1> DEFINE d == Head(pending)
  <1>1. pending \in Seq(Entry) /\ pending # <<>>
    BY DEF AuthInv, TypeOK, ReadKey
  <1>2. d \in Entry /\ Tail(pending) \in Seq(Entry)
    BY <1>1
  <1> HIDE DEF d
  <1>3. /\ pending' = Tail(pending)
        /\ UNCHANGED <<provider, mongo, serving, cursorVars, db, requestVars>>
        /\ pc' \in Location
    BY DEF AuthInv, TypeOK, ReadKey, Location
  <1>4. CASE UNCHANGED cacheVars
    <2>1. mongo \in BOOLEAN /\ serving \in BOOLEAN
      BY DEF AuthInv, TypeOK
    <2> QED
      BY <1>2, <1>3, <1>4, <2>1, QuietStep
  <1>5. CASE /\ valid' = Put(valid, d)
             /\ basis' = basis \union {d}
             /\ promised' = promised \union {d}
    <2>1. IsMap(valid)
      BY DEF AuthInv, TypeOK, IsMap
    <2>2. /\ IsMap(Put(valid, d)) /\ d \in Put(valid, d)
          /\ Put(valid, d) \subseteq valid \union {d}
          /\ \A e \in valid : \E f \in Put(valid, d) : f.lookup = e.lookup
      BY <2>1, PutFacts
    <2>3. RequestInv' /\ AcceptedIsListed'
      BY <1>3, PluginStep DEF AuthInv
    <2>4. LoadInv'
      BY <1>3 DEF AuthInv, cursorVars, LoadInv, IsMap, Covers, Good
    <2>5. RevokedKeysGone' /\ ActiveKeysKept'
      BY <1>5, <2>2 DEF AuthInv, RevokedKeysGone, ActiveKeysKept
    <2>6. TypeOK'
      BY <1>2, <1>3, <1>5, <2>2 DEF AuthInv, TypeOK, cursorVars, requestVars, IsMap
    <2> QED
      BY <2>3, <2>4, <2>5, <2>6 DEF AuthInv
  <1> QED
    BY <1>4, <1>5 DEF ReadKey, d

LEMMA FindAuth ==
    ASSUME AuthInv, Find
    PROVE  AuthInv'
  <1>1. RequestInv' /\ AcceptedIsListed'
    BY PluginStep DEF AuthInv, Find
  <1>2. LoadInv'
    BY DEF Find, LoadInv, IsMap, Covers, Good
  <1>3. RevokedKeysGone' /\ ActiveKeysKept'
    BY DEF AuthInv, Find, cacheVars, RevokedKeysGone, ActiveKeysKept
  <1>4. TypeOK'
    BY DEF AuthInv, TypeOK, Find, cacheVars, requestVars, settingVars, Location
  <1> QED
    BY <1>1, <1>2, <1>3, <1>4 DEF AuthInv

LEMMA CursorNextAuth ==
    ASSUME AuthInv, NEW d \in Document, CursorNext(d)
    PROVE  AuthInv'
  <1>1. /\ d \in seen /\ returned' = returned \union {d}
        /\ UNCHANGED <<provider, settingVars, serving, cacheVars, seen, steady, db,
                       requestVars>>
        /\ pc' \in {"cursor", "crashed"}
    BY DEF CursorNext, Return
  <1>2. RequestInv' /\ AcceptedIsListed'
    BY <1>1, PluginStep DEF AuthInv
  <1>3. RevokedKeysGone' /\ ActiveKeysKept'
    BY <1>1 DEF AuthInv, cacheVars, RevokedKeysGone, ActiveKeysKept
  <1>4. LoadInv'
    <2>1. CASE d.form = "good" /\ loaded' = Put(loaded, d)
      <3>1. Good(returned') = Good(returned) \union {d}
        BY <1>1, <2>1, GoodFacts
      <3>2. IsMap(loaded') /\ loaded' \subseteq Good(seen)
        BY <1>1, <2>1, PutFacts DEF AuthInv, LoadInv, Good
      <3>3. Covers(loaded', Good(returned'))
        <4>1. \A e \in Good(returned) : \E f \in loaded : f.lookup = e.lookup
          BY DEF AuthInv, LoadInv, Covers
        <4>2. \A e \in loaded : \E f \in loaded' : f.lookup = e.lookup
          BY <2>1, PutFacts DEF AuthInv, LoadInv
        <4>3. d \in loaded'
          BY <2>1, PutFacts DEF AuthInv, LoadInv
        <4> QED
          BY <3>1, <4>1, <4>2, <4>3 DEF Covers
      <3> QED
        BY <1>1, <3>2, <3>3 DEF LoadInv, IsMap, Covers
    <2>2. CASE d.form # "good" /\ UNCHANGED loaded
      <3>1. Good(returned') = Good(returned)
        BY <1>1, <2>2, GoodFacts
      <3> QED
        BY <1>1, <2>2, <3>1 DEF AuthInv, LoadInv, IsMap, Covers
    <2> QED
      BY <2>1, <2>2 DEF CursorNext
  <1>5. loaded' \subseteq Entry
    BY <1>1, <1>4 DEF AuthInv, TypeOK, LoadInv, Good, Entry
  <1>6. TypeOK'
    BY <1>1, <1>5 DEF AuthInv, TypeOK, cacheVars, requestVars, settingVars, Location
  <1> QED
    BY <1>2, <1>3, <1>4, <1>6 DEF AuthInv

LEMMA EndCursorAuth ==
    ASSUME AuthInv, NEW whole \in BOOLEAN, EndCursor(whole)
    PROVE  AuthInv'
  <1>1. /\ valid' = loaded /\ basis' = Good(seen)
        /\ promised' = IF whole THEN Good(steady) ELSE {}
        /\ whole => steady \subseteq returned
        /\ loaded' = {} /\ returned' = {} /\ seen' = {} /\ steady' = {}
        /\ pc' = "select" /\ serving' = TRUE
        /\ UNCHANGED <<provider, settingVars, db, requestVars>>
    BY DEF EndCursor, Replace, ForgetCursor, LoadReturns
  <1>2. RequestInv' /\ AcceptedIsListed'
    BY <1>1, PluginStep DEF AuthInv
  <1>3. LoadInv'
    BY <1>1 DEF LoadInv, IsMap, Covers, Good
  <1>4. RevokedKeysGone'
    BY <1>1 DEF AuthInv, LoadInv, RevokedKeysGone
  <1>5. promised' \subseteq Good(returned)
    BY <1>1, GoodFacts
  <1>6. ActiveKeysKept'
    BY <1>1, <1>5 DEF AuthInv, LoadInv, Covers, ActiveKeysKept
  <1>7. Good(seen) \subseteq Entry /\ promised' \subseteq Entry
    BY <1>5 DEF AuthInv, TypeOK, Good, Entry
  <1>8. TypeOK'
    BY <1>1, <1>7 DEF AuthInv, TypeOK, LoadInv, IsMap, requestVars, settingVars,
                      Location
  <1> QED
    BY <1>2, <1>3, <1>4, <1>6, <1>8 DEF AuthInv

LEMMA ChangeAuth ==
    ASSUME AuthInv, NEW d \in Document, Change(d)
    PROVE  AuthInv'
  <1>1. /\ seen \subseteq seen' /\ seen' \subseteq seen \union db \union {d}
        /\ steady' \subseteq steady
        /\ db' \subseteq db \union {d}
        /\ UNCHANGED <<provider, settingVars, pc, serving, cacheVars, loaded, returned,
                       requestVars>>
    BY DEF Change
  <1>2. RequestInv' /\ AcceptedIsListed'
    BY <1>1, PluginStep DEF AuthInv
  <1>3. LoadInv'
    BY <1>1, GoodFacts DEF AuthInv, LoadInv, IsMap, Covers
  <1>4. RevokedKeysGone' /\ ActiveKeysKept'
    BY <1>1 DEF AuthInv, cacheVars, RevokedKeysGone, ActiveKeysKept
  <1>5. TypeOK'
    BY <1>1 DEF AuthInv, TypeOK, cacheVars, requestVars, settingVars
  <1> QED
    BY <1>2, <1>3, <1>4, <1>5 DEF AuthInv

LEMMA HandleAuth ==
    ASSUME AuthInv, NEW r \in Request, Handle(r)
    PROVE  AuthInv'
  <1>1. UNCHANGED pluginVars
    BY DEF Handle, Decide, Present, Lookup, Compare, Done
  <1>2. LoadInv' /\ RevokedKeysGone' /\ ActiveKeysKept'
    BY <1>1, RequestStep
  <1> SUFFICES TypeOK' /\ RequestInv' /\ AcceptedIsListed'
    BY <1>2 DEF AuthInv
  <1> USE DEF pluginVars, settingVars, cacheVars, cursorVars
  <1>3. CASE Decide(r)
    <2>1. PICK result \in {"passed", "unauthorized", "misconfigured"} :
             /\ Judge(r, result)
             /\ provider = "api-key" => result = "unauthorized"
      BY <1>3 DEF Decide
    <2>2. UNCHANGED <<key, details, grounds>>
      BY <1>3 DEF Decide
    <2>3. TypeOK'
      BY <1>1, <2>1, <2>2 DEF AuthInv, TypeOK, Judge
    <2>4. RequestInv' /\ AcceptedIsListed'
      BY <1>1, <2>1, <2>2 DEF AuthInv, TypeOK, Judge, RequestInv, AcceptedIsListed
    <2> QED
      BY <2>3, <2>4
  <1>4. ASSUME NEW k \in Key, Present(r, k)
        PROVE  TypeOK' /\ RequestInv' /\ AcceptedIsListed'
    <2>1. TypeOK'
      BY <1>1, <1>4 DEF AuthInv, TypeOK, Present
    <2>2. outcome[r] = "none"
      BY <1>4 DEF AuthInv, RequestInv, Present
    <2>3. RequestInv' /\ AcceptedIsListed'
      BY <1>1, <1>4, <2>2 DEF AuthInv, TypeOK, Present, RequestInv, AcceptedIsListed
    <2> QED
      BY <2>1, <2>3
  <1>5. CASE Lookup(r)
    <2>1. CASE Judge(r, "unauthorized") /\ UNCHANGED <<key, details, grounds>>
      <3>1. TypeOK'
        BY <1>1, <2>1 DEF AuthInv, TypeOK, Judge
      <3>2. RequestInv' /\ AcceptedIsListed'
        BY <1>1, <2>1 DEF AuthInv, TypeOK, Judge, RequestInv, AcceptedIsListed
      <3> QED
        BY <3>1, <3>2
    <2>2. ASSUME NEW d \in valid, d.lookup = key[r],
                 /\ rpc[r] = "lookup"
                 /\ details' = [details EXCEPT ![r] = d]
                 /\ grounds' = [grounds EXCEPT ![r] = basis]
                 /\ rpc' = [rpc EXCEPT ![r] = "compare"]
                 /\ UNCHANGED <<outcome, key>>
          PROVE  TypeOK' /\ RequestInv' /\ AcceptedIsListed'
      <3>1. TypeOK'
        BY <1>1, <2>2 DEF AuthInv, TypeOK
      <3>2. outcome[r] = "none" /\ d \in basis
        BY <2>2 DEF AuthInv, RequestInv, RevokedKeysGone
      <3>3. RequestInv' /\ AcceptedIsListed'
        BY <1>1, <2>2, <3>2 DEF AuthInv, TypeOK, RequestInv, AcceptedIsListed
      <3> QED
        BY <3>1, <3>3
    <2> QED
      BY <1>5, <2>1, <2>2 DEF Lookup
  <1>6. CASE Compare(r)
    <2>1. TypeOK'
      BY <1>1, <1>6 DEF AuthInv, TypeOK, Compare, Judge
    <2>2. details[r] \in grounds[r] /\ details[r].lookup = key[r]
      BY <1>6 DEF AuthInv, RequestInv, Compare
    <2>3. RequestInv' /\ AcceptedIsListed'
      BY <1>1, <1>6, <2>2 DEF AuthInv, TypeOK, Compare, Judge, RequestInv, AcceptedIsListed
    <2> QED
      BY <2>1, <2>3
  <1>7. CASE Done(r)
    <2>1. TypeOK'
      BY <1>1, <1>7 DEF AuthInv, TypeOK, Done
    <2>2. RequestInv' /\ AcceptedIsListed'
      BY <1>1, <1>7 DEF AuthInv, TypeOK, Done, RequestInv, AcceptedIsListed
    <2> QED
      BY <2>1, <2>2
  <1> QED
    BY <1>3, <1>4, <1>5, <1>6, <1>7 DEF Handle

LEMMA NextAuth == AuthInv /\ [Next]_vars => AuthInv'
  <1> SUFFICES ASSUME AuthInv, [Next]_vars PROVE AuthInv'
    OBVIOUS
  <1>1. ASSUME NEW global, NEW yaml \in Yamls, Configure(global, yaml) PROVE AuthInv'
    <2>1. yaml \in Seq(Listed) /\ <<>> \in Seq(Entry)
      BY AuthenticationAssumption
    <2>2. yaml \in Seq(Entry)
      BY <2>1 DEF Entry
    <2>3. /\ mongo' \in BOOLEAN /\ pending' \in Seq(Entry)
          /\ serving' \in BOOLEAN /\ pc' \in Location
          /\ UNCHANGED <<provider, cacheVars, cursorVars, db, requestVars>>
      BY <1>1, <2>1, <2>2 DEF AuthInv, TypeOK, Configure, Location
    <2> QED
      BY <2>3, QuietStep
  <1>7. CASE ReadKey
    BY <1>7, ReadKeyAuth
  <1>8. ASSUME NEW route, NEW usable, ConfigureRoute(route, usable) PROVE AuthInv'
    <2>1. /\ mongo' \in BOOLEAN /\ pending' \in Seq(Entry)
          /\ serving' \in BOOLEAN /\ pc' \in Location
          /\ UNCHANGED <<provider, cacheVars, cursorVars, db, requestVars>>
      BY <1>8 DEF AuthInv, TypeOK, ConfigureRoute, Location
    <2> QED
      BY <2>1, QuietStep
  <1>2. CASE Connect \/ ConnectFails \/ FindFails \/ SelectTick \/ UNCHANGED vars
    <2>1. /\ UNCHANGED <<provider, cacheVars, cursorVars, db, requestVars>>
          /\ mongo' \in BOOLEAN /\ pending' \in Seq(Entry)
          /\ serving' \in BOOLEAN /\ pc' \in Location
      BY <1>2 DEF AuthInv, TypeOK, Connect, ConnectFails, FindFails, SelectTick,
                  LoadReturns, vars, settingVars, Location
    <2> QED
      BY <2>1, QuietStep
  <1>3. CASE Find
    BY <1>3, FindAuth
  <1>4. CASE \E d \in Document : CursorNext(d) \/ Change(d)
    BY <1>4, CursorNextAuth, ChangeAuth
  <1>5. CASE \E whole \in BOOLEAN : EndCursor(whole)
    BY <1>5, EndCursorAuth
  <1>6. CASE \E r \in Request : Handle(r)
    BY <1>6, HandleAuth
  <1> QED
    BY <1>1, <1>2, <1>3, <1>4, <1>5, <1>6, <1>7, <1>8 DEF Next

LEMMA AuthInvariant == Spec => []AuthInv
  BY InitAuth, NextAuth, PTL DEF Spec

-----------------------------------------------------------------------------
\* Every variable keeps its type, and validAPIKeys never holds two entries for
\* one lookup key.
THEOREM AuthenticationTypeOK == Spec => []TypeOK
  <1>1. AuthInv => TypeOK
    BY DEF AuthInv
  <1> QED
    BY <1>1, AuthInvariant, PTL

\* A load leaves no key in memory that was not active at some moment of it.
THEOREM AuthenticationRevokedKeysGone == Spec => []RevokedKeysGone
  <1>1. AuthInv => RevokedKeysGone
    BY DEF AuthInv
  <1> QED
    BY <1>1, AuthInvariant, PTL

\* A key active during the whole of a complete load is in memory after it, until
\* the next load completes.
THEOREM AuthenticationActiveKeysKept == Spec => []ActiveKeysKept
  <1>1. AuthInv => ActiveKeysKept
    BY DEF AuthInv
  <1> QED
    BY <1>1, AuthInvariant, PTL

\* Handle lets a key pass only for an entry of that key that was active since
\* the load in force at the lookup began.
THEOREM AuthenticationAcceptedIsListed == Spec => []AcceptedIsListed
  <1>1. AuthInv => AcceptedIsListed
    BY DEF AuthInv
  <1> QED
    BY <1>1, AuthInvariant, PTL
=============================================================================
