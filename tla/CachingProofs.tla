---------------------------- MODULE CachingProofs ----------------------------
(* Theorems about Caching for any keys, requests, lifetime and delay. *)
EXTENDS Caching, TLAPS

\* What an entry that is still fresh has left, it has not used up already.
Bounded(e) == ~Expired(e) => e.age + e.life <= TTL + MaxDelay

\* Entries are bounded in the store and after they were taken out of it, and an
\* answer on its way into the store is as young as MaxDelay says.
FreshInv ==
    /\ \A k \in Key : store[k] # NoEntry => Bounded(store[k])
    /\ \A r \in Request : pc[r] = "decide" /\ entry[r] # NoEntry => Bounded(entry[r])
    /\ \A r \in Request : pc[r] = "answered" =>
           /\ entry[r] # NoEntry
           /\ entry[r].age <= MaxDelay

\* A request that records, and only a request, holds an incomplete answer: what
\* next.ServeHTTP has returned with is complete.
RecordInv ==
    \A r \in Request : /\ pc[r] = "copying" => entry[r] # NoEntry
                       /\ pc[r] = "answered" => entry[r].body = "whole"

CacheInv == TypeOK /\ CachedIsComplete /\ FreshInv /\ RecordInv

\* What the passing of time does to an entry.
LEMMA OlderEntry ==
    ASSUME NEW e \in EntryType \cup {NoEntry}
    PROVE  /\ Older(e) \in EntryType \cup {NoEntry}
           /\ (Older(e) = NoEntry) <=> (e = NoEntry)
           /\ e # NoEntry => /\ Older(e).status = e.status
                             /\ Older(e).body = e.body
                             /\ Older(e).age <= e.age + 1
                             /\ Bounded(e) => Bounded(Older(e))
  <1>1. CASE e = NoEntry
    BY <1>1, NoEntryAssumption DEF Older
  <1>2. CASE e \in EntryType /\ e.body = "part"
    BY <1>2, NoEntryAssumption, CachingAssumption DEF Older, EntryType, MaxAge
  <1>3. CASE e \in EntryType /\ e.body # "part"
    <2> DEFINE life == IF e.life < 0 THEN e.life ELSE e.life - 1
               age  == IF e.age < MaxAge THEN e.age + 1 ELSE e.age
    <2>1. e # NoEntry
      BY <1>3, NoEntryAssumption
    <2>2. /\ e.status \in Status /\ e.size \in Size /\ e.body \in Body
          /\ e.life \in -1..TTL
          /\ e.age \in 0..MaxAge
      BY <1>3 DEF EntryType
    <2>3. Older(e) = [status |-> e.status, size |-> e.size, body |-> e.body,
                    life |-> life, age |-> age]
      BY <1>3, <2>1 DEF Older, EntryType
    <2>4. life \in -1..TTL /\ age \in 0..MaxAge
      BY <2>2, CachingAssumption DEF MaxAge
    <2>5. age <= e.age + 1
      BY <2>2, CachingAssumption DEF MaxAge
    <2>6. Older(e) \in EntryType
      BY <2>2, <2>3, <2>4 DEF EntryType
    <2>7. Bounded(e) => Bounded(Older(e))
      BY <2>2, <2>3, CachingAssumption DEF Bounded, Expired, MaxAge
    <2> QED
      BY <2>1, <2>3, <2>5, <2>6, <2>7, NoEntryAssumption
  <1> QED
    BY <1>1, <1>2, <1>3

LEMMA RecordedType ==
    ASSUME NEW s \in Status, NEW z \in Size, NEW b \in Body
    PROVE  /\ Recorded(s, z, b) \in EntryType
           /\ Recorded(s, z, b) # NoEntry
           /\ Recorded(s, z, b).age <= MaxDelay
           /\ Recorded(s, z, b).body = b
  BY CachingAssumption, NoEntryAssumption DEF Recorded, EntryType, MaxAge

LEMMA InitCache == Init => CacheInv
  BY DEF Init, CacheInv, TypeOK, CachedIsComplete, FreshInv, RecordInv

\* Every step keeps the invariant.
LEMMA NextCache == CacheInv /\ [Next]_vars => CacheInv'
  <1> SUFFICES ASSUME CacheInv, [Next]_vars PROVE CacheInv'
    OBVIOUS
  <1> USE DEF CacheInv
  <1>1. ASSUME NEW r \in Request, Bypass(r) PROVE CacheInv'
    BY <1>1 DEF Bypass, Finish, TypeOK, CachedIsComplete, FreshInv, RecordInv
  <1>2. ASSUME NEW r \in Request, NEW k \in Key, Lookup(r, k) PROVE CacheInv'
    BY <1>2 DEF Lookup, TypeOK, CachedIsComplete, FreshInv, RecordInv
  <1>3. ASSUME NEW r \in Request, Hit(r) PROVE CacheInv'
    BY <1>3 DEF Hit, Finish, TypeOK, CachedIsComplete, FreshInv, RecordInv
  <1>4. ASSUME NEW r \in Request, Stale(r) PROVE CacheInv'
    BY <1>4 DEF Stale, TypeOK, CachedIsComplete, FreshInv, RecordInv
  <1>5. ASSUME NEW r \in Request, Miss(r) PROVE CacheInv'
    BY <1>5 DEF Miss, TypeOK, CachedIsComplete, FreshInv, RecordInv
  <1>6. ASSUME NEW r \in Request, NEW s \in Status, Fetch(r, s) PROVE CacheInv'
    <2> DEFINE e == Recorded(s, "fits", "part")
    <2>1. e \in EntryType /\ e # NoEntry
      BY RecordedType DEF Size, Body
    <2>2. entry' = [entry EXCEPT ![r] = e]
      BY <1>6 DEF Fetch
    <2> HIDE DEF e
    <2>3. TypeOK' /\ CachedIsComplete'
      BY <1>6, <2>1, <2>2 DEF Fetch, TypeOK, CachedIsComplete
    <2>4. FreshInv' /\ RecordInv'
      BY <1>6, <2>1, <2>2 DEF Fetch, TypeOK, FreshInv, RecordInv
    <2> QED
      BY <2>3, <2>4
  <1>13. ASSUME NEW r \in Request, NEW z \in Size, Copy(r, z) PROVE CacheInv'
    <2> DEFINE e == Recorded(entry[r].status, z, "whole")
    <2>1. entry[r].status \in Status
      BY <1>13 DEF Copy, TypeOK, RecordInv, EntryType
    <2>2. e \in EntryType /\ e # NoEntry /\ e.age <= MaxDelay /\ e.body = "whole"
      BY <2>1, RecordedType DEF Body
    <2>3. entry' = [entry EXCEPT ![r] = e]
      BY <1>13 DEF Copy
    <2> HIDE DEF e
    <2>4. TypeOK' /\ CachedIsComplete'
      BY <1>13, <2>2, <2>3 DEF Copy, TypeOK, CachedIsComplete
    <2>5. FreshInv' /\ RecordInv'
      BY <1>13, <2>2, <2>3 DEF Copy, TypeOK, FreshInv, RecordInv
    <2> QED
      BY <2>4, <2>5
  <1>7. ASSUME NEW r \in Request, Abort(r) PROVE CacheInv'
    BY <1>7 DEF Abort, Finish, TypeOK, CachedIsComplete, FreshInv, RecordInv
  <1>8. ASSUME NEW r \in Request, Store(r) PROVE CacheInv'
    <2> DEFINE e == [entry[r] EXCEPT !.life = TTL]
    <2>1. entry[r] \in EntryType /\ entry[r].age <= MaxDelay
      BY <1>8 DEF Store, TypeOK, FreshInv
    <2>2. e \in EntryType /\ e.age = entry[r].age /\ e.life = TTL
          /\ e.status = entry[r].status /\ e.body = entry[r].body
      BY <2>1, CachingAssumption DEF EntryType
    <2>3. Bounded(e)
      BY <2>1, <2>2, CachingAssumption DEF Bounded, EntryType
    <2>4. store' = IF entry[r].status = "ok" /\ entry[r].size = "fits"
                   THEN [store EXCEPT ![key[r]] = e] ELSE store
      BY <1>8 DEF Store
    <2> HIDE DEF e
    <2>5. TypeOK'
      BY <1>8, <2>2, <2>4 DEF Store, Finish, TypeOK
    <2>6. CachedIsComplete'
      BY <1>8, <2>2, <2>4 DEF Store, TypeOK, CachedIsComplete, RecordInv
    <2>7. FreshInv' /\ RecordInv'
      BY <1>8, <2>3, <2>4 DEF Store, Finish, TypeOK, FreshInv, RecordInv
    <2> QED
      BY <2>5, <2>6, <2>7
  <1>9. ASSUME NEW r \in Request, Done(r) PROVE CacheInv'
    BY <1>9 DEF Done, TypeOK, CachedIsComplete, FreshInv, RecordInv
  <1>10. CASE Cleanup
    BY <1>10 DEF Cleanup, TypeOK, CachedIsComplete, FreshInv, RecordInv
  <1>11. CASE Tick
    <2>1. \A k \in Key : store[k] \in EntryType \cup {NoEntry} /\ store'[k] = Older(store[k])
      BY <1>11 DEF Tick, TypeOK
    <2>2. \A r \in Request : entry[r] \in EntryType \cup {NoEntry} /\ entry'[r] = Older(entry[r])
      BY <1>11 DEF Tick, TypeOK
    <2>3. TypeOK'
      BY <1>11, <2>1, <2>2, OlderEntry DEF Tick, TypeOK
    <2>4. CachedIsComplete'
      BY <2>1, OlderEntry DEF CachedIsComplete
    <2>5. FreshInv'
      <3>1. \A k \in Key : store'[k] # NoEntry => Bounded(store'[k])
        BY <2>1, OlderEntry DEF FreshInv
      <3>2. \A r \in Request : pc'[r] = "decide" /\ entry'[r] # NoEntry => Bounded(entry'[r])
        BY <1>11, <2>2, OlderEntry DEF Tick, FreshInv
      <3>3. ASSUME NEW r \in Request, pc'[r] = "answered"
            PROVE  entry'[r] # NoEntry /\ entry'[r].age <= MaxDelay
        <4>1. pc[r] = "answered" /\ entry[r] \in EntryType /\ entry[r].age < MaxDelay
          BY <1>11, <3>3, <2>2 DEF Tick, FreshInv
        <4>2. /\ Older(entry[r]) # NoEntry
              /\ Older(entry[r]).age <= entry[r].age + 1
              /\ Older(entry[r]) \in EntryType
          BY <4>1, NoEntryAssumption, OlderEntry
        <4>3. /\ entry[r].age \in Int
              /\ Older(entry[r]).age \in Int
          BY <4>1, <4>2 DEF EntryType
        <4> QED
          BY <4>1, <4>2, <4>3, <2>2, CachingAssumption
      <3> QED
        BY <3>1, <3>2, <3>3 DEF FreshInv, Bounded, Expired
    <2>6. RecordInv'
      BY <1>11, <2>2, OlderEntry DEF Tick, RecordInv, FreshInv
    <2> QED
      BY <2>3, <2>4, <2>5, <2>6
  <1>12. CASE UNCHANGED vars
    BY <1>12 DEF vars, TypeOK, CachedIsComplete, FreshInv, RecordInv
  <1> QED
    BY <1>1, <1>2, <1>3, <1>4, <1>5, <1>6, <1>7, <1>8, <1>9, <1>10, <1>11, <1>12, <1>13
    DEF Next, Handle

\* The cache keeps every variable within its type.
THEOREM CachingTypeOK == Spec => []TypeOK
  <1>1. CacheInv => TypeOK
    BY DEF CacheInv
  <1> QED
    BY <1>1, InitCache, NextCache, PTL DEF Spec

\* Whatever breaks off behind the plugin, only complete answers with status 200 are
\* ever stored.
THEOREM CachingCachedIsComplete == Spec => []CachedIsComplete
  <1>1. CacheInv => CachedIsComplete
    BY DEF CacheInv
  <1> QED
    BY <1>1, InitCache, NextCache, PTL DEF Spec

\* A step that serves a hit is Hit, and it serves a bounded entry that has not
\* expired.
LEMMA HitIsYoung ==
    ASSUME CacheInv, [Next]_vars, NEW r \in Request,
           outcome[r] # "hit", outcome'[r] = "hit"
    PROVE  entry[r].age <= TTL + MaxDelay
  <1>1. Hit(r)
    BY DEF CacheInv, TypeOK, Next, Handle, vars, Bypass, Lookup, Hit, Stale, Miss, Fetch,
           Copy, Abort, Store, Done, Cleanup, Tick, Finish
  <1>2. entry[r] \in EntryType /\ Bounded(entry[r]) /\ ~Expired(entry[r])
    BY <1>1 DEF Hit, CacheInv, TypeOK, FreshInv
  <1> QED
    BY <1>2, CachingAssumption DEF Bounded, Expired, EntryType, MaxAge

\* No hit is older than the lifetime plus one handler's delay.
THEOREM CachingStalenessBound == Spec => StalenessBound
  <1>1. CacheInv /\ [Next]_vars
        => [\A r \in Request : outcome[r] # "hit" /\ outcome'[r] = "hit"
                               => entry[r].age <= TTL + MaxDelay]_vars
    BY HitIsYoung
  <1> QED
    BY <1>1, InitCache, NextCache, PTL DEF Spec, StalenessBound
=============================================================================
