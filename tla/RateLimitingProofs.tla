------------------------- MODULE RateLimitingProofs -------------------------
(* Theorems about RateLimiting for any clients, requests, limit and window. *)
EXTENDS RateLimiting, FiniteSetTheorems, TLAPS

\* A request has a client once it has looked at the store, and a log once it
\* has been through the section that creates one.
HolderInv ==
    \A r \in Request :
        /\ pc[r] \in {"create", "check", "append", "allowed"} => client[r] \in Client
        /\ pc[r] \in {"check", "append", "allowed"} => log[r] \in Log

\* A request between its two writes has left room in the log, and its timestamp,
\* not older than the request's own, is in no log; no two such requests are at the
\* same log.
LockInv ==
    /\ \A r \in Request : pc[r] = "append" =>
           /\ now[r] \in Token
           /\ Cardinality(stamps[log[r]]) < Limit
           /\ \A l \in Log : now[r] \notin stamps[l]
           /\ since[r] <= Window => age[now[r]] <= since[r]
    /\ \A r, q \in Request :
           pc[r] = "append" /\ pc[q] = "append" /\ r # q => log[r] # log[q] /\ now[r] # now[q]

\* Whatever counts for a client is in the log the store has for it.
CountedInv ==
    \A c \in Client, k \in Token :
        owner[k] = c /\ age[k] <= Window /\ ~stray[k]
        => store[c] \in Log /\ k \in stamps[store[c]]

\* As long as its admission is in the window, a request that is about to send
\* its headers finds a timestamp at least that young in its log.
OwnStampInv ==
    \A r \in Request :
        pc[r] = "allowed" /\ since[r] <= Window
        => \E k \in stamps[log[r]] : age[k] <= since[r]

LimiterInv == TypeOK /\ HolderInv /\ LockInv /\ CountedInv /\ OwnStampInv

\* The cleanup waits at least one window.
LEMMA ExpiryBound == Expiry \in Nat /\ Window \in Nat /\ Expiry >= Window
  <1> DEFINE e == ExpiryFactor
             w == Window
  <1>1. e \in Nat /\ w \in Nat /\ e >= 1 /\ w >= 1
    BY RateLimitingAssumption
  <1>2. e * w >= w
    BY <1>1, SMT
  <1> QED
    BY <1>1, <1>2 DEF Expiry

\* A log that the store knows is not garbage.
LEMMA StoredIsReachable ==
    ASSUME NEW c \in Client, store[c] \in Log
    PROVE  store[c] \in Reachable
  BY DEF Reachable

\* Neither is one that a request holds.
LEMMA HeldIsReachable ==
    ASSUME NEW r \in Request, log[r] \in Log
    PROVE  log[r] \in Reachable
  BY DEF Reachable

\* The token an admission uses counts for nobody, and is in no other log and on
\* its way to none.
LEMMA AdmitToken ==
    ASSUME NEW r \in Request, Admit(r)
    PROVE  \E k \in Token :
              /\ age[k] > Window /\ owner[k] = NoClient
              /\ \A l \in Log \ {log[r]} : k \notin stamps[l]
              /\ \A q \in Request : k # now[q]
              /\ age' = [age EXCEPT ![k] = 0]
              /\ now' = [now EXCEPT ![r] = k]
  <1> DEFINE k == CHOOSE k \in FreeTokens(r) : TRUE
  <1>1. k \in FreeTokens(r)
    BY DEF Admit
  <1>2. /\ k \in Token
        /\ age[k] > Window /\ owner[k] = NoClient
        /\ \A l \in Log \ {log[r]} : k \notin stamps[l]
        /\ \A q \in Request : k # now[q]
    BY <1>1 DEF FreeTokens
  <1> QED
    BY <1>2 DEF Admit

\* A new log was garbage before.
LEMMA AllocateLog ==
    ASSUME NEW r \in Request, Allocate(r)
    PROVE  \E l \in Log :
              /\ l \notin Reachable
              /\ stamps' = [stamps EXCEPT ![l] = {}]
              /\ store' = [store EXCEPT ![client[r]] = l]
              /\ log' = [log EXCEPT ![r] = l]
  <1> DEFINE l == CHOOSE l \in Log \ Reachable : TRUE
  <1>1. l \in Log \ Reachable
    BY DEF Allocate
  <1> QED
    BY <1>1 DEF Allocate

\* Logs are finite, and pruning makes them no longer.
LEMMA ValidBound ==
    ASSUME TypeOK, NEW l \in Log
    PROVE  /\ IsFiniteSet(stamps[l])
           /\ Valid(l) \in SUBSET Token
           /\ IsFiniteSet(Valid(l))
           /\ Cardinality(Valid(l)) \in Nat
           /\ Cardinality(Valid(l)) <= Limit
  <1>1. IsFiniteSet(stamps[l])
    BY RateLimitingAssumption, FS_Subset DEF TypeOK
  <1>2. Valid(l) \subseteq stamps[l]
    BY DEF Valid
  <1>3. /\ IsFiniteSet(Valid(l))
        /\ Cardinality(Valid(l)) <= Cardinality(stamps[l])
    BY <1>1, <1>2, FS_Subset
  <1>4. Cardinality(Valid(l)) \in Nat /\ Cardinality(stamps[l]) \in Nat
    BY <1>1, <1>3, FS_CardinalityType
  <1>5. Cardinality(stamps[l]) <= Limit /\ Limit \in Nat
    BY RateLimitingAssumption DEF TypeOK
  <1>6. Valid(l) \in SUBSET Token
    BY <1>2 DEF TypeOK
  <1> QED
    BY <1>1, <1>3, <1>4, <1>5, <1>6

-----------------------------------------------------------------------------
LEMMA InitLimiter == Init => LimiterInv
  <1> SUFFICES ASSUME Init PROVE LimiterInv
    OBVIOUS
  <1>1. TypeOK
    <2>1. MaxAge \in 0..MaxAge /\ Window + 1 \in 0..(Window + 1)
      BY ExpiryBound DEF MaxAge
    <2>2. \A l \in Log : Cardinality(stamps[l]) <= Limit
      BY FS_EmptySet, RateLimitingAssumption DEF Init
    <2> QED
      BY <2>1, <2>2 DEF Init, TypeOK
  <1>2. HolderInv /\ LockInv /\ OwnStampInv
    BY DEF Init, HolderInv, LockInv, OwnStampInv
  <1>3. CountedInv
    BY RateLimitingAssumption DEF Init, CountedInv
  <1> QED
    BY <1>1, <1>2, <1>3 DEF LimiterInv

\* Pruning shortens the log.
LEMMA PruneType ==
    ASSUME TypeOK, HolderInv, NEW r \in Request, Prune(r)
    PROVE  TypeOK'
  <1>1. log[r] \in Log
    BY DEF Prune, HolderInv
  <1>2. stamps' = [stamps EXCEPT ![log[r]] = Valid(log[r])]
    BY DEF Prune, Reject, Admit
  <1>3. stamps' \in [Log -> SUBSET Token]
    BY <1>1, <1>2, ValidBound DEF TypeOK
  <1>4. \A l \in Log : Cardinality(stamps'[l]) <= Limit
    BY <1>1, <1>2, ValidBound DEF TypeOK
  <1>5. CASE Reject(r)
    BY <1>3, <1>4, <1>5 DEF Reject, history, TypeOK
  <1>6. CASE Admit(r)
    <2>1. PICK k \in Token : age' = [age EXCEPT ![k] = 0] /\ now' = [now EXCEPT ![r] = k]
      BY <1>6, AdmitToken
    <2>2. 0 \in 0..MaxAge /\ 0 \in 0..(Window + 1)
      BY ExpiryBound DEF MaxAge
    <2>3. age' \in [Token -> 0..MaxAge] /\ now' \in [Request -> Token \cup {NoToken}]
      BY <2>1, <2>2 DEF TypeOK
    <2>4. since' \in [Request -> 0..(Window + 1)]
      BY <1>6, <2>2 DEF Admit, TypeOK
    <2> QED
      BY <1>3, <1>4, <1>6, <2>3, <2>4 DEF Admit, TypeOK
  <1> QED
    BY <1>5, <1>6 DEF Prune

\* What Append does, with the token it appends.
LEMMA AppendStep ==
    ASSUME TypeOK, HolderInv, LockInv, NEW r \in Request, Append(r)
    PROVE  /\ log[r] \in Log /\ client[r] \in Client /\ now[r] \in Token
           /\ stamps' = [stamps EXCEPT ![log[r]] = stamps[log[r]] \cup {now[r]}]
           /\ now' = [now EXCEPT ![r] = NoToken]
           /\ pc' = [pc EXCEPT ![r] = "allowed"]
           /\ \A k \in Token \ {now[r]} : owner'[k] = owner[k] /\ stray'[k] = stray[k]
           /\ owner'[now[r]] \in Client => owner'[now[r]] = client[r]
           /\ age[now[r]] <= Window => /\ owner'[now[r]] = client[r]
                                       /\ stray'[now[r]] = (store[client[r]] # log[r])
           /\ UNCHANGED <<store, age, client, log, since>>
  BY RateLimitingAssumption DEF Append, TypeOK, HolderInv, LockInv

LEMMA AppendType ==
    ASSUME TypeOK, HolderInv, LockInv, NEW r \in Request, Append(r)
    PROVE  TypeOK'
  <1>1. log[r] \in Log /\ client[r] \in Client /\ now[r] \in Token
    BY AppendStep
  <1>2. stamps' = [stamps EXCEPT ![log[r]] = stamps[log[r]] \cup {now[r]}]
    BY AppendStep
  <1>3. Cardinality(stamps[log[r]] \cup {now[r]}) <= Limit
    <2>1. IsFiniteSet(stamps[log[r]])
      BY <1>1, ValidBound
    <2>2. Cardinality(stamps[log[r]]) \in Nat /\ Cardinality(stamps[log[r]]) < Limit
      BY <2>1, FS_CardinalityType DEF LockInv, Append
    <2>3. Cardinality(stamps[log[r]] \cup {now[r]})
              \in {Cardinality(stamps[log[r]]), Cardinality(stamps[log[r]]) + 1}
      BY <2>1, FS_AddElement
    <2> QED
      BY <2>2, <2>3, RateLimitingAssumption
  <1>4. stamps' \in [Log -> SUBSET Token]
    BY <1>1, <1>2 DEF TypeOK
  <1>5. \A l \in Log : Cardinality(stamps'[l]) <= Limit
    BY <1>1, <1>2, <1>3 DEF TypeOK
  <1>6. /\ owner' \in [Token -> Client \cup {NoClient}]
        /\ stray' \in [Token -> BOOLEAN]
        /\ now' \in [Request -> Token \cup {NoToken}]
    BY <1>1 DEF Append, TypeOK
  <1> QED
    BY <1>4, <1>5, <1>6 DEF Append, TypeOK

\* Collecting garbage shortens logs only.
LEMMA CollectType ==
    ASSUME TypeOK, Collect
    PROVE  /\ stamps' \in [Log -> SUBSET Token]
           /\ \A l \in Log : Cardinality(stamps'[l]) <= Limit
  BY FS_EmptySet, RateLimitingAssumption DEF TypeOK, Collect

LEMMA TickType ==
    ASSUME TypeOK, Tick
    PROVE  TypeOK'
  <1>1. age' \in [Token -> 0..MaxAge]
    BY ExpiryBound DEF Tick, TypeOK, MaxAge
  <1>2. since' \in [Request -> 0..(Window + 1)]
    BY ExpiryBound DEF Tick, TypeOK
  <1>3. /\ owner' \in [Token -> Client \cup {NoClient}]
        /\ stray' \in [Token -> BOOLEAN]
    BY DEF Tick, TypeOK
  <1> QED
    BY <1>1, <1>2, <1>3 DEF Tick, logVars, TypeOK

LEMMA NextType == LimiterInv /\ [Next]_vars => TypeOK'
  <1> SUFFICES ASSUME LimiterInv, [Next]_vars PROVE TypeOK'
    OBVIOUS
  <1> USE DEF LimiterInv
  <1>1. ASSUME NEW r \in Request, Deny(r) PROVE TypeOK'
    BY <1>1 DEF Deny, TypeOK, logVars, history
  <1>2. ASSUME NEW r \in Request, NEW c \in Client, Lookup(r, c) PROVE TypeOK'
    BY <1>2 DEF Lookup, TypeOK, logVars, history
  <1>3. ASSUME NEW r \in Request, Create(r) PROVE TypeOK'
    <2>1. CASE Allocate(r)
      <3>1. PICK l \in Log : /\ stamps' = [stamps EXCEPT ![l] = {}]
                             /\ store' = [store EXCEPT ![client[r]] = l]
                             /\ log' = [log EXCEPT ![r] = l]
        BY <2>1, AllocateLog
      <3>2. \A m \in Log : Cardinality(stamps'[m]) <= Limit
        BY <3>1, FS_EmptySet, RateLimitingAssumption DEF TypeOK
      <3> QED
        BY <1>3, <3>1, <3>2 DEF Create, TypeOK, history
    <2>2. CASE log' = [log EXCEPT ![r] = store[client[r]]] /\ UNCHANGED logVars
      BY <1>3, <2>2 DEF Create, HolderInv, TypeOK, logVars, history
    <2> QED
      BY <1>3, <2>1, <2>2 DEF Create
  <1>4. ASSUME NEW r \in Request, Prune(r) \/ Append(r) PROVE TypeOK'
    BY <1>4, PruneType, AppendType
  <1>5. ASSUME NEW r \in Request, Respond(r) PROVE TypeOK'
    <2>1. Limit - Cardinality(stamps[log[r]]) \in Int
      <3>1. log[r] \in Log
        BY <1>5 DEF Respond, HolderInv
      <3>2. Cardinality(stamps[log[r]]) \in Nat
        BY <3>1, ValidBound, FS_CardinalityType
      <3> QED
        BY <3>2, RateLimitingAssumption
    <2> QED
      BY <1>5, <2>1 DEF Respond, TypeOK, logVars, history
  <1>6. ASSUME NEW r \in Request, Done(r) PROVE TypeOK'
    <2>1. Collect
      BY <1>6 DEF Done
    <2>2. Window + 1 \in 0..(Window + 1)
      BY ExpiryBound
    <2> QED
      BY <1>6, <2>1, <2>2, CollectType DEF Done, TypeOK
  <1>7. ASSUME NEW c \in Client, Cleanup(c) PROVE TypeOK'
    <2>1. Collect
      BY <1>7 DEF Cleanup, Forget
    <2> QED
      BY <1>7, <2>1, CollectType DEF Cleanup, Forget, TypeOK, history
  <1>8. CASE Tick
    BY <1>8, TickType
  <1>9. CASE UNCHANGED vars
    BY <1>9 DEF vars, logVars, history, TypeOK
  <1> QED
    BY <1>1, <1>2, <1>3, <1>4, <1>5, <1>6, <1>7, <1>8, <1>9 DEF Next, Handle

LEMMA NextHolder == LimiterInv /\ [Next]_vars => HolderInv'
  <1> SUFFICES ASSUME LimiterInv, [Next]_vars PROVE HolderInv'
    OBVIOUS
  <1> USE DEF LimiterInv
  <1>1. ASSUME NEW r \in Request, Deny(r) PROVE HolderInv'
    BY <1>1 DEF Deny, TypeOK, HolderInv
  <1>2. ASSUME NEW r \in Request, NEW c \in Client, Lookup(r, c) PROVE HolderInv'
    BY <1>2 DEF Lookup, TypeOK, HolderInv
  <1>3. ASSUME NEW r \in Request, Create(r) PROVE HolderInv'
    <2>1. CASE Allocate(r)
      <3>1. \E l \in Log : log' = [log EXCEPT ![r] = l]
        BY <2>1, AllocateLog
      <3> QED
        BY <1>3, <3>1 DEF Create, TypeOK, HolderInv
    <2>2. CASE store[client[r]] # NoLog /\ log' = [log EXCEPT ![r] = store[client[r]]]
      <3>1. store[client[r]] \in Log
        BY <1>3, <2>2 DEF Create, TypeOK, HolderInv
      <3> QED
        BY <1>3, <2>2, <3>1 DEF Create, TypeOK, HolderInv
    <2> QED
      BY <1>3, <2>1, <2>2 DEF Create
  <1>4. ASSUME NEW r \in Request, Prune(r) \/ Append(r) PROVE HolderInv'
    BY <1>4 DEF Prune, Append, Admit, Reject, TypeOK, HolderInv
  <1>5. ASSUME NEW r \in Request, Respond(r) PROVE HolderInv'
    BY <1>5 DEF Respond, TypeOK, HolderInv
  <1>6. ASSUME NEW r \in Request, Done(r) PROVE HolderInv'
    BY <1>6 DEF Done, TypeOK, HolderInv
  <1>7. ASSUME NEW c \in Client, Cleanup(c) PROVE HolderInv'
    BY <1>7 DEF Cleanup, Forget, TypeOK, HolderInv
  <1>8. CASE Tick \/ UNCHANGED vars
    BY <1>8 DEF Tick, vars, HolderInv
  <1> QED
    BY <1>1, <1>2, <1>3, <1>4, <1>5, <1>6, <1>7, <1>8 DEF Next, Handle

\* A step that shortens logs, and leaves those between their writes alone.
LEMMA LockShrinks ==
    ASSUME TypeOK, HolderInv, LockInv, UNCHANGED <<age, now>>,
           \A q \in Request : pc'[q] = "append" =>
               pc[q] = "append" /\ log'[q] = log[q] /\ since'[q] = since[q],
           \A l \in Log : stamps'[l] \subseteq stamps[l]
    PROVE  LockInv'
  <1>1. ASSUME NEW q \in Request, pc'[q] = "append"
        PROVE  Cardinality(stamps'[log'[q]]) < Limit
    <2>1. pc[q] = "append" /\ log'[q] = log[q]
      BY <1>1
    <2>2. log[q] \in Log
      BY <2>1 DEF HolderInv
    <2>3. IsFiniteSet(stamps[log[q]])
      BY <2>2, ValidBound
    <2>4. /\ Cardinality(stamps[log[q]]) \in Nat
          /\ Cardinality(stamps'[log[q]]) \in Nat
          /\ Cardinality(stamps'[log[q]]) <= Cardinality(stamps[log[q]])
      <3>1. stamps'[log[q]] \subseteq stamps[log[q]]
        BY <2>2
      <3> QED
        BY <2>3, <3>1, FS_Subset, FS_CardinalityType
    <2>5. Cardinality(stamps[log[q]]) < Limit
      BY <2>1 DEF LockInv
    <2> QED
      BY <2>1, <2>4, <2>5, RateLimitingAssumption
  <1> QED
    BY <1>1 DEF LockInv

\* The lock keeps the log as it was pruned until the timestamp is appended.
LEMMA NextLock == LimiterInv /\ [Next]_vars => LockInv'
  <1> SUFFICES ASSUME LimiterInv, [Next]_vars PROVE LockInv'
    OBVIOUS
  <1> USE DEF LimiterInv
  <1>1. ASSUME NEW r \in Request, \/ Deny(r)
                                  \/ \E c \in Client : Lookup(r, c)
                                  \/ Respond(r)
        PROVE  LockInv'
    BY <1>1, LockShrinks DEF Deny, Lookup, Respond, logVars, history, TypeOK
  <1>2. ASSUME NEW r \in Request, Create(r) PROVE LockInv'
    <2>1. /\ UNCHANGED <<age, now, since>>
          /\ pc' = [pc EXCEPT ![r] = "check"]
          /\ \A q \in Request \ {r} : log'[q] = log[q]
      BY <1>2 DEF Create, Allocate, history, TypeOK
    <2>2. \A l \in Log : stamps'[l] \subseteq stamps[l]
      <3>1. CASE Allocate(r)
        BY <3>1, AllocateLog DEF TypeOK
      <3> QED
        BY <1>2, <3>1 DEF Create, logVars
    <2> QED
      BY <2>1, <2>2, LockShrinks DEF TypeOK
  <1>3. ASSUME NEW r \in Request, Prune(r), Reject(r) PROVE LockInv'
    <2>1. \A l \in Log : stamps'[l] \subseteq stamps[l]
      BY <1>3 DEF Reject, Valid, TypeOK
    <2> QED
      BY <1>3, <2>1, LockShrinks DEF Reject, history, TypeOK
  <1>4. ASSUME NEW r \in Request, Prune(r), Admit(r), ~(Cardinality(Valid(log[r])) >= Limit)
        PROVE  LockInv'
    <2>1. PICK k \in Token :
              /\ age[k] > Window
              /\ \A l \in Log \ {log[r]} : k \notin stamps[l]
              /\ \A q \in Request : k # now[q]
              /\ age' = [age EXCEPT ![k] = 0]
              /\ now' = [now EXCEPT ![r] = k]
      BY <1>4, AdmitToken
    <2>2. /\ stamps' = [stamps EXCEPT ![log[r]] = Valid(log[r])]
          /\ UNCHANGED log
          /\ since' = [since EXCEPT ![r] = 0]
          /\ pc' = [pc EXCEPT ![r] = "append"]
      BY <1>4 DEF Admit
    <2>3. log[r] \in Log /\ pc[r] = "check"
      BY <1>4 DEF Prune, HolderInv
    <2>4. /\ now'[r] = k /\ age'[k] = 0 /\ since'[r] = 0
          /\ stamps'[log[r]] = Valid(log[r])
      BY <2>1, <2>2, <2>3 DEF TypeOK
    <2>5. Cardinality(stamps'[log[r]]) < Limit
      <3>1. Cardinality(Valid(log[r])) \in Nat
        BY <2>3, ValidBound
      <3> QED
        BY <1>4, <2>4, <3>1, RateLimitingAssumption
    <2>6. \A l \in Log : k \notin stamps'[l]
      <3>1. k \notin Valid(log[r])
        <4>1. age[k] \in Int
          BY DEF TypeOK
        <4> QED
          BY <2>1, <4>1, ExpiryBound DEF Valid
      <3> QED
        BY <2>1, <2>2, <2>4, <3>1 DEF TypeOK
    <2>7. ASSUME NEW q \in Request, q # r, pc'[q] = "append"
          PROVE  /\ pc[q] = "append" /\ log[q] \in Log /\ log[q] # log[r]
                 /\ now'[q] = now[q] /\ now[q] \in Token /\ now[q] # k
                 /\ since'[q] = since[q] /\ age'[now[q]] = age[now[q]]
                 /\ stamps'[log[q]] = stamps[log[q]]
                 /\ \A l \in Log : now[q] \notin stamps'[l]
      <3>1. pc[q] = "append" /\ now'[q] = now[q] /\ since'[q] = since[q]
        BY <2>1, <2>2, <2>7 DEF TypeOK
      <3>2. log[q] \in Log /\ log[q] # log[r]
        BY <1>4, <3>1 DEF Prune, Locked, HolderInv
      <3>3. now[q] \in Token /\ now[q] # k /\ \A l \in Log : now[q] \notin stamps[l]
        BY <2>1, <3>1 DEF LockInv
      <3>4. age'[now[q]] = age[now[q]]
        BY <2>1, <3>3 DEF TypeOK
      <3>5. stamps'[log[q]] = stamps[log[q]] /\ \A l \in Log : stamps'[l] \subseteq stamps[l]
        BY <2>2, <3>2 DEF TypeOK, Valid
      <3> QED
        BY <3>1, <3>2, <3>3, <3>4, <3>5
    <2>8. \A q \in Request : pc'[q] = "append" =>
              /\ now'[q] \in Token
              /\ Cardinality(stamps'[log'[q]]) < Limit
              /\ \A l \in Log : now'[q] \notin stamps'[l]
              /\ since'[q] <= Window => age'[now'[q]] <= since'[q]
      <3>1. TAKE q \in Request
      <3>2. HAVE pc'[q] = "append"
      <3>3. CASE q = r
        BY <2>1, <2>2, <2>4, <2>5, <2>6, <3>3
      <3>4. CASE q # r
        <4>1. /\ Cardinality(stamps[log[q]]) < Limit
              /\ since[q] <= Window => age[now[q]] <= since[q]
          BY <2>7, <3>2, <3>4 DEF LockInv
        <4> QED
          BY <2>2, <2>7, <3>2, <3>4, <4>1
      <3> QED
        BY <3>3, <3>4
    <2>9. \A p, q \in Request : pc'[p] = "append" /\ pc'[q] = "append" /\ p # q
              => log'[p] # log'[q] /\ now'[p] # now'[q]
      <3>1. TAKE p, q \in Request
      <3>2. HAVE pc'[p] = "append" /\ pc'[q] = "append" /\ p # q
      <3>3. CASE p = r
        BY <2>2, <2>4, <2>7, <3>2, <3>3
      <3>4. CASE q = r
        BY <2>2, <2>4, <2>7, <3>2, <3>4
      <3>5. CASE p # r /\ q # r
        BY <2>2, <2>7, <3>2, <3>5 DEF LockInv
      <3> QED
        BY <3>3, <3>4, <3>5
    <2> QED
      BY <2>8, <2>9 DEF LockInv
  <1>5. ASSUME NEW r \in Request, Append(r) PROVE LockInv'
    <2>1. /\ log[r] \in Log /\ now[r] \in Token
          /\ stamps' = [stamps EXCEPT ![log[r]] = stamps[log[r]] \cup {now[r]}]
          /\ now' = [now EXCEPT ![r] = NoToken]
          /\ pc' = [pc EXCEPT ![r] = "allowed"]
          /\ UNCHANGED <<age, log, since>>
      BY <1>5, AppendStep
    <2>2. ASSUME NEW q \in Request, pc'[q] = "append"
          PROVE  /\ pc[q] = "append" /\ now'[q] = now[q]
                 /\ stamps'[log[q]] = stamps[log[q]]
                 /\ \A l \in Log : now[q] \notin stamps'[l]
      <3>1. q # r /\ pc[q] = "append" /\ now'[q] = now[q] /\ pc[r] = "append"
        BY <1>5, <2>1, <2>2 DEF TypeOK, Append
      <3>2. log[q] \in Log /\ log[q] # log[r] /\ now[q] # now[r]
        BY <3>1 DEF LockInv, HolderInv
      <3>3. \A l \in Log : now[q] \notin stamps[l]
        BY <3>1 DEF LockInv
      <3> QED
        BY <2>1, <3>1, <3>2, <3>3 DEF TypeOK
    <2>3. \A q \in Request : pc'[q] = "append" =>
              /\ now'[q] \in Token
              /\ Cardinality(stamps'[log'[q]]) < Limit
              /\ \A l \in Log : now'[q] \notin stamps'[l]
              /\ since'[q] <= Window => age'[now'[q]] <= since'[q]
      <3>1. TAKE q \in Request
      <3>2. HAVE pc'[q] = "append"
      <3>3. /\ now[q] \in Token
            /\ Cardinality(stamps[log[q]]) < Limit
            /\ since[q] <= Window => age[now[q]] <= since[q]
        BY <2>2, <3>2 DEF LockInv
      <3> QED
        BY <2>1, <2>2, <3>2, <3>3
    <2>4. \A p, q \in Request : pc'[p] = "append" /\ pc'[q] = "append" /\ p # q
              => log'[p] # log'[q] /\ now'[p] # now'[q]
      BY <2>1, <2>2 DEF LockInv
    <2> QED
      BY <2>3, <2>4 DEF LockInv
  <1>6. ASSUME NEW r \in Request, Done(r) PROVE LockInv'
    <2>1. \A l \in Log : stamps'[l] \subseteq stamps[l]
      BY <1>6 DEF Done, Collect
    <2> QED
      BY <1>6, <2>1, LockShrinks DEF Done, TypeOK
  <1>7. ASSUME NEW c \in Client, Cleanup(c) PROVE LockInv'
    <2>1. \A l \in Log : stamps'[l] \subseteq stamps[l]
      BY <1>7 DEF Cleanup, Forget, Collect
    <2> QED
      BY <1>7, <2>1, LockShrinks DEF Cleanup, Forget, history
  <1>8. ASSUME Tick PROVE LockInv'
    <2>1. UNCHANGED <<stamps, pc, log, now>>
      BY <1>8 DEF Tick, logVars
    <2>2. ASSUME NEW q \in Request, pc[q] = "append", since'[q] <= Window
          PROVE  age'[now[q]] <= since'[q]
      <3>1. now[q] \in Token /\ since[q] \in Int /\ age[now[q]] \in Int
        BY <2>2 DEF LockInv, TypeOK
      <3>2. since[q] <= Window /\ since'[q] = since[q] + 1
        BY <1>8, <2>2, <3>1, ExpiryBound DEF Tick
      <3>3. age[now[q]] <= since[q]
        BY <2>2, <3>2 DEF LockInv
      <3>4. age'[now[q]] \in {age[now[q]], age[now[q]] + 1}
        BY <1>8, <3>1 DEF Tick
      <3> QED
        BY <3>1, <3>2, <3>3, <3>4
    <2> QED
      BY <2>1, <2>2 DEF LockInv
  <1>9. CASE UNCHANGED vars
    BY <1>9 DEF vars, logVars, history, LockInv
  <1> QED
    <2>1. ASSUME NEW r \in Request, Prune(r) PROVE LockInv'
      BY <2>1, <1>3, <1>4 DEF Prune
    <2> QED
      BY <1>1, <1>2, <2>1, <1>5, <1>6, <1>7, <1>8, <1>9 DEF Next, Handle

\* The part of the argument that makes the limiter right: neither a new log,
\* nor pruning, nor the cleanup, nor the garbage collector loses a timestamp
\* that still counts.
LEMMA NextCounted == LimiterInv /\ [Next]_vars => CountedInv'
  <1> SUFFICES ASSUME LimiterInv, [Next]_vars PROVE CountedInv'
    OBVIOUS
  <1> USE DEF LimiterInv
  <1>1. ASSUME UNCHANGED <<store, stamps, age, owner, stray>> PROVE CountedInv'
    BY <1>1 DEF CountedInv
  <1>2. ASSUME NEW r \in Request, Create(r), Allocate(r), store[client[r]] = NoLog
        PROVE  CountedInv'
    <2>1. PICK l \in Log : /\ l \notin Reachable
                           /\ stamps' = [stamps EXCEPT ![l] = {}]
                           /\ store' = [store EXCEPT ![client[r]] = l]
      BY <1>2, AllocateLog
    <2>2. UNCHANGED <<age, owner, stray>> /\ client[r] \in Client
      BY <1>2 DEF Create, history, HolderInv
    <2> SUFFICES ASSUME NEW c \in Client, NEW k \in Token,
                        owner[k] = c, age[k] <= Window, ~stray[k]
                 PROVE  store'[c] \in Log /\ k \in stamps'[store'[c]]
      BY <2>2 DEF CountedInv
    <2>3. store[c] \in Log /\ k \in stamps[store[c]]
      BY DEF CountedInv
    <2>4. c # client[r] /\ store[c] # l
      BY <1>2, <2>1, <2>3, StoredIsReachable, RateLimitingAssumption
    <2> QED
      BY <2>1, <2>3, <2>4 DEF TypeOK
  <1>3. ASSUME NEW r \in Request, Prune(r) PROVE CountedInv'
    <2>1. /\ stamps' = [stamps EXCEPT ![log[r]] = Valid(log[r])]
          /\ UNCHANGED <<store, owner, stray>>
      BY <1>3 DEF Prune, Admit, Reject, history
    <2>2. ASSUME NEW j \in Token, owner[j] \in Client PROVE age'[j] = age[j]
      <3>1. CASE Admit(r)
        <4>1. PICK k \in Token : owner[k] = NoClient /\ age' = [age EXCEPT ![k] = 0]
          BY <3>1, AdmitToken
        <4> QED
          BY <2>2, <4>1, RateLimitingAssumption DEF TypeOK
      <3>2. CASE Reject(r)
        BY <3>2 DEF Reject
      <3> QED
        BY <1>3, <3>1, <3>2 DEF Prune
    <2> QED
      BY <2>1, <2>2 DEF CountedInv, TypeOK, Valid
  <1>4. ASSUME NEW r \in Request, Append(r) PROVE CountedInv'
    <2>1. /\ log[r] \in Log /\ client[r] \in Client /\ now[r] \in Token
          /\ stamps' = [stamps EXCEPT ![log[r]] = stamps[log[r]] \cup {now[r]}]
          /\ \A k \in Token \ {now[r]} : owner'[k] = owner[k] /\ stray'[k] = stray[k]
          /\ age[now[r]] <= Window => /\ owner'[now[r]] = client[r]
                                      /\ stray'[now[r]] = (store[client[r]] # log[r])
          /\ UNCHANGED <<store, age>>
      BY <1>4, AppendStep
    <2> SUFFICES ASSUME NEW c \in Client, NEW j \in Token,
                        owner'[j] = c, age[j] <= Window, ~stray'[j]
                 PROVE  store[c] \in Log /\ j \in stamps'[store[c]]
      BY <2>1 DEF CountedInv
    <2>3. CASE j = now[r]
      <3>1. store[c] = log[r]
        BY <2>1, <2>3
      <3> QED
        BY <2>1, <2>3, <3>1 DEF TypeOK
    <2>4. CASE j # now[r]
      <3>1. store[c] \in Log /\ j \in stamps[store[c]]
        BY <2>1, <2>4 DEF CountedInv
      <3> QED
        BY <2>1, <3>1 DEF TypeOK
    <2> QED
      BY <2>3, <2>4
  <1>5. ASSUME NEW r \in Request, Done(r) PROVE CountedInv'
    <2>1. /\ UNCHANGED <<store, age, owner, stray>>
          /\ stamps' = [l \in Log |-> IF l \in Reachable' THEN stamps[l] ELSE {}]
      BY <1>5 DEF Done, Collect
    <2>2. \A c \in Client : store[c] \in Log => store[c] \in Reachable'
      BY <2>1 DEF Reachable
    <2> QED
      BY <2>1, <2>2 DEF CountedInv
  <1>6. ASSUME NEW c \in Client, Cleanup(c) PROVE CountedInv'
    <2>1. /\ UNCHANGED <<age, owner, stray>>
          /\ store' = [store EXCEPT ![c] = NoLog]
          /\ stamps' = [l \in Log |-> IF l \in Reachable' THEN stamps[l] ELSE {}]
      BY <1>6 DEF Cleanup, Forget, Collect, history
    <2> SUFFICES ASSUME NEW d \in Client, NEW k \in Token,
                        owner[k] = d, age[k] <= Window, ~stray[k]
                 PROVE  store'[d] \in Log /\ k \in stamps'[store'[d]]
      BY <2>1 DEF CountedInv
    <2>2. store[d] \in Log /\ k \in stamps[store[d]]
      BY DEF CountedInv
    <2>3. d # c
      <3>1. ASSUME d = c PROVE FALSE
        <4>1. age[k] > Expiry
          BY <1>6, <2>2, <3>1 DEF Cleanup
        <4>2. age[k] \in Int
          BY DEF TypeOK
        <4> QED
          BY <4>1, <4>2, ExpiryBound
      <3> QED
        BY <3>1
    <2>4. store'[d] = store[d] /\ store[d] \in Reachable'
      BY <2>1, <2>2, <2>3 DEF TypeOK, Reachable
    <2> QED
      BY <2>1, <2>2, <2>4
  <1>7. ASSUME Tick PROVE CountedInv'
    <2> SUFFICES ASSUME NEW c \in Client, NEW k \in Token,
                        owner'[k] = c, age'[k] <= Window, ~stray'[k]
                 PROVE  store[c] \in Log /\ k \in stamps[store[c]]
      BY <1>7 DEF Tick, logVars, CountedInv
    <2>1. age[k] < Window
      BY <1>7, RateLimitingAssumption DEF Tick
    <2>2. owner[k] = c /\ ~stray[k] /\ age[k] <= Window
      BY <1>7, <2>1, RateLimitingAssumption DEF Tick, TypeOK
    <2> QED
      BY <2>2 DEF CountedInv
  <1> QED
    <2>1. ASSUME NEW r \in Request, Create(r) PROVE CountedInv'
      BY <2>1, <1>1, <1>2 DEF Create, logVars, history
    <2>3. ASSUME NEW r \in Request, \/ Deny(r)
                                    \/ \E c \in Client : Lookup(r, c)
                                    \/ Respond(r)
          PROVE  CountedInv'
      BY <2>3, <1>1 DEF Deny, Lookup, Respond, logVars, history
    <2>4. CASE UNCHANGED vars
      BY <2>4, <1>1 DEF vars, logVars, history
    <2> QED
      BY <2>1, <2>3, <2>4, <1>3, <1>4, <1>5, <1>6, <1>7 DEF Next, Handle

\* A request's own timestamp outlives whatever other requests do to its log.
LEMMA NextOwnStamp == LimiterInv /\ [Next]_vars => OwnStampInv'
  <1> SUFFICES ASSUME LimiterInv, [Next]_vars PROVE OwnStampInv'
    OBVIOUS
  <1> USE DEF LimiterInv
  <1>1. ASSUME NEW r \in Request, \/ Deny(r)
                                  \/ \E c \in Client : Lookup(r, c)
                                  \/ Respond(r)
        PROVE  OwnStampInv'
    BY <1>1 DEF Deny, Lookup, Respond, logVars, history, TypeOK, OwnStampInv
  <1>2. ASSUME NEW r \in Request, Create(r), UNCHANGED logVars,
               log' = [log EXCEPT ![r] = store[client[r]]]
        PROVE  OwnStampInv'
    BY <1>2 DEF Create, logVars, history, TypeOK, OwnStampInv
  <1>3. ASSUME NEW r \in Request, Create(r), Allocate(r) PROVE OwnStampInv'
    <2>1. PICK l \in Log : /\ l \notin Reachable
                           /\ stamps' = [stamps EXCEPT ![l] = {}]
                           /\ log' = [log EXCEPT ![r] = l]
      BY <1>3, AllocateLog
    <2>2. /\ UNCHANGED <<age, since>>
          /\ pc' = [pc EXCEPT ![r] = "check"]
      BY <1>3 DEF Create, history
    <2> SUFFICES ASSUME NEW q \in Request, pc'[q] = "allowed", since[q] <= Window
                 PROVE  \E k \in stamps'[log'[q]] : age[k] <= since[q]
      BY <2>2 DEF OwnStampInv
    <2>3. q # r /\ pc[q] = "allowed"
      BY <2>2 DEF TypeOK
    <2>4. log[q] \in Log /\ log[q] # l
      BY <2>1, <2>3, HeldIsReachable DEF HolderInv
    <2>5. stamps'[log'[q]] = stamps[log[q]]
      BY <2>1, <2>3, <2>4 DEF TypeOK
    <2> QED
      BY <2>3, <2>5 DEF OwnStampInv
  <1>4. ASSUME NEW r \in Request, Prune(r) PROVE OwnStampInv'
    <2>1. /\ stamps' = [stamps EXCEPT ![log[r]] = Valid(log[r])]
          /\ UNCHANGED log
          /\ \A q \in Request : pc'[q] = "allowed" => pc[q] = "allowed" /\ since'[q] = since[q]
      BY <1>4 DEF Prune, Admit, Reject, history, TypeOK
    <2>2. ASSUME NEW k \in Token, age[k] <= Window PROVE age'[k] = age[k]
      <3>1. CASE Admit(r)
        <4>1. PICK j \in Token : age[j] > Window /\ age' = [age EXCEPT ![j] = 0]
          BY <3>1, AdmitToken
        <4>2. k # j
          <5>1. age[j] \in Int
            BY DEF TypeOK
          <5> QED
            BY <2>2, <4>1, <5>1, ExpiryBound
        <4> QED
          BY <4>1, <4>2 DEF TypeOK
      <3>2. CASE Reject(r)
        BY <3>2 DEF Reject
      <3> QED
        BY <1>4, <3>1, <3>2 DEF Prune
    <2> SUFFICES ASSUME NEW q \in Request, pc'[q] = "allowed", since'[q] <= Window
                 PROVE  \E k \in stamps'[log[q]] : age'[k] <= since'[q]
      BY <2>1 DEF OwnStampInv
    <2>3. pc[q] = "allowed" /\ log[q] \in Log /\ since'[q] = since[q]
      BY <2>1 DEF HolderInv
    <2>4. PICK k \in stamps[log[q]] : age[k] <= since[q]
      BY <2>3 DEF OwnStampInv
    <2>5. k \in Token /\ age[k] \in Int /\ since[q] \in Int
      BY <2>3, <2>4 DEF TypeOK
    <2>6. age[k] <= Window
      BY <2>3, <2>4, <2>5, ExpiryBound
    <2>7. k \in stamps'[log[q]]
      BY <2>1, <2>3, <2>4, <2>6 DEF Valid, TypeOK
    <2> QED
      BY <2>2, <2>3, <2>4, <2>5, <2>6, <2>7
  <1>5. ASSUME NEW r \in Request, Append(r) PROVE OwnStampInv'
    <2>1. /\ log[r] \in Log
          /\ stamps' = [stamps EXCEPT ![log[r]] = stamps[log[r]] \cup {now[r]}]
          /\ pc' = [pc EXCEPT ![r] = "allowed"]
          /\ UNCHANGED <<age, log, since>>
      BY <1>5, AppendStep
    <2> SUFFICES ASSUME NEW q \in Request, pc'[q] = "allowed", since[q] <= Window
                 PROVE  \E k \in stamps'[log[q]] : age[k] <= since[q]
      BY <2>1 DEF OwnStampInv
    <2>3. CASE q = r
      <3>1. now[r] \in stamps'[log[q]]
        BY <2>1, <2>3 DEF TypeOK
      <3>2. age[now[r]] <= since[r]
        BY <1>5, <2>3 DEF LockInv, Append
      <3> QED
        BY <2>3, <3>1, <3>2
    <2>4. CASE q # r
      <3>1. pc[q] = "allowed" /\ log[q] \in Log
        BY <2>1, <2>4 DEF TypeOK, HolderInv
      <3>2. stamps[log[q]] \subseteq stamps'[log[q]]
        BY <2>1, <3>1 DEF TypeOK
      <3> QED
        BY <3>1, <3>2 DEF OwnStampInv
    <2> QED
      BY <2>3, <2>4
  <1>6. ASSUME NEW r \in Request, Done(r) PROVE OwnStampInv'
    <2>1. /\ UNCHANGED age
          /\ since' = [since EXCEPT ![r] = Window + 1]
          /\ pc' = [pc EXCEPT ![r] = "idle"]
          /\ log' = [log EXCEPT ![r] = NoLog]
          /\ stamps' = [l \in Log |-> IF l \in Reachable' THEN stamps[l] ELSE {}]
      BY <1>6 DEF Done, Collect
    <2> SUFFICES ASSUME NEW q \in Request, pc'[q] = "allowed", since'[q] <= Window
                 PROVE  \E k \in stamps'[log'[q]] : age[k] <= since'[q]
      BY <2>1 DEF OwnStampInv
    <2>2. /\ pc[q] = "allowed" /\ log[q] \in Log
          /\ since'[q] = since[q] /\ log'[q] = log[q]
      BY <2>1 DEF TypeOK, HolderInv
    <2>3. log[q] \in Reachable'
      BY <2>2 DEF Reachable
    <2> QED
      BY <2>1, <2>2, <2>3 DEF OwnStampInv
  <1>7. ASSUME NEW c \in Client, Cleanup(c) PROVE OwnStampInv'
    <2>1. /\ UNCHANGED <<age, since, pc, log>>
          /\ stamps' = [l \in Log |-> IF l \in Reachable' THEN stamps[l] ELSE {}]
      BY <1>7 DEF Cleanup, Forget, Collect, history
    <2>2. \A q \in Request : log[q] \in Log => log[q] \in Reachable'
      BY <2>1 DEF Reachable
    <2> QED
      BY <2>1, <2>2 DEF OwnStampInv, HolderInv
  <1>8. ASSUME Tick PROVE OwnStampInv'
    <2> SUFFICES ASSUME NEW q \in Request, pc[q] = "allowed", since'[q] <= Window
                 PROVE  \E k \in stamps[log[q]] : age'[k] <= since'[q]
      BY <1>8 DEF Tick, logVars, OwnStampInv
    <2>1. log[q] \in Log /\ since[q] \in Int
      BY DEF TypeOK, HolderInv
    <2>2. since[q] <= Window /\ since'[q] = since[q] + 1
      BY <1>8, <2>1, ExpiryBound DEF Tick
    <2>3. PICK k \in stamps[log[q]] : age[k] <= since[q]
      BY <2>2 DEF OwnStampInv
    <2>4. k \in Token /\ age[k] \in Int
      BY <2>1, <2>3 DEF TypeOK
    <2>5. age'[k] \in {age[k], age[k] + 1}
      BY <1>8, <2>4 DEF Tick
    <2>6. age'[k] <= since'[q]
      BY <2>1, <2>2, <2>3, <2>4, <2>5
    <2> QED
      BY <2>3, <2>6
  <1> QED
    <2>1. ASSUME NEW r \in Request, Create(r) PROVE OwnStampInv'
      BY <2>1, <1>2, <1>3 DEF Create
    <2>3. CASE UNCHANGED vars
      BY <2>3 DEF vars, logVars, history, OwnStampInv
    <2> QED
      BY <1>1, <1>4, <1>5, <2>1, <2>3, <1>6, <1>7, <1>8 DEF Next, Handle

LEMMA LimiterInvariant == Spec => []LimiterInv
  <1>1. LimiterInv /\ [Next]_vars => LimiterInv'
    BY NextType, NextHolder, NextLock, NextCounted, NextOwnStamp DEF LimiterInv
  <1> QED
    BY <1>1, InitLimiter, PTL DEF Spec

-----------------------------------------------------------------------------
\* The limiter keeps every variable within its type, and no log outgrows the
\* limit.
THEOREM RateLimitingTypeOK == Spec => []TypeOK
  <1>1. LimiterInv => TypeOK
    BY DEF LimiterInv
  <1> QED
    BY <1>1, LimiterInvariant, PTL

\* No client has more than Limit admissions in a window, counting those recorded
\* in a log that was in the store.
THEOREM RateLimitingWindowLimit == Spec => []WindowLimit
  <1>1. ASSUME LimiterInv PROVE WindowLimit
    <2> SUFFICES ASSUME NEW c \in Client
                 PROVE  Cardinality({k \in InWindow(c) : ~stray[k]}) <= Limit
      BY DEF WindowLimit
    <2> DEFINE counted == {k \in InWindow(c) : ~stray[k]}
    <2>1. \A k \in counted : store[c] \in Log /\ k \in stamps[store[c]]
      BY <1>1 DEF InWindow, LimiterInv, CountedInv
    <2>2. CASE store[c] \in Log
      <3>1. counted \subseteq stamps[store[c]]
        BY <2>1
      <3>2. IsFiniteSet(stamps[store[c]])
        BY <1>1, <2>2, ValidBound DEF LimiterInv
      <3>3. /\ IsFiniteSet(counted)
            /\ Cardinality(counted) <= Cardinality(stamps[store[c]])
        BY <3>1, <3>2, FS_Subset
      <3>4. Cardinality(counted) \in Nat /\ Cardinality(stamps[store[c]]) \in Nat
        BY <3>2, <3>3, FS_CardinalityType
      <3>5. Cardinality(stamps[store[c]]) <= Limit
        BY <1>1, <2>2 DEF LimiterInv, TypeOK
      <3> QED
        BY <3>3, <3>4, <3>5, RateLimitingAssumption
    <2>3. CASE store[c] \notin Log
      <3>1. counted = {}
        BY <2>1, <2>3
      <3> QED
        BY <3>1, FS_EmptySet, RateLimitingAssumption
    <2> QED
      BY <2>2, <2>3
  <1> QED
    BY <1>1, LimiterInvariant, PTL

\* A step that serves a request is Respond, and the length it reads, lock or no
\* lock, counts that request and does not exceed the limit.
LEMMA RespondHonest ==
    ASSUME LimiterInv, [Next]_vars, NEW r \in Request,
           outcome[r] # "served", outcome'[r] = "served"
    PROVE  /\ remaining'[r] \in 0..Limit
           /\ since[r] <= Window => remaining'[r] < Limit
  <1>1. Respond(r)
    BY DEF LimiterInv, TypeOK, Next, Handle, vars, history, Deny, Lookup, Create, Prune,
           Append, Admit, Reject, Respond, Done, Cleanup, Forget, Tick
  <1>2. log[r] \in Log /\ pc[r] = "allowed"
    BY <1>1 DEF Respond, LimiterInv, HolderInv
  <1> DEFINE n == Cardinality(stamps[log[r]])
  <1>3. IsFiniteSet(stamps[log[r]])
    BY <1>2, ValidBound DEF LimiterInv
  <1>4. n \in Nat /\ n <= Limit
    BY <1>2, <1>3, FS_CardinalityType DEF LimiterInv, TypeOK
  <1>5. remaining'[r] = Limit - n
    BY <1>1 DEF Respond, LimiterInv, TypeOK
  <1>6. since[r] <= Window => n # 0
    BY <1>2, <1>3, FS_EmptySet DEF LimiterInv, OwnStampInv
  <1> HIDE DEF n
  <1> QED
    BY <1>4, <1>5, <1>6, RateLimitingAssumption

\* X-RateLimit-Remaining is within its bounds and counts the request itself.
THEOREM RateLimitingRemainingHonest == Spec => RemainingHonest
  <1>1. LimiterInv /\ [Next]_vars
        => [\A r \in Request : outcome[r] # "served" /\ outcome'[r] = "served" =>
               /\ remaining'[r] \in 0..Limit
               /\ since[r] <= Window => remaining'[r] < Limit]_vars
    BY RespondHonest
  <1> QED
    BY <1>1, LimiterInvariant, PTL DEF Spec, RemainingHonest

-----------------------------------------------------------------------------
(* Whose log it is.                                                         *)

\* Log l serves client c: the store has it for c, or a request of c holds it.
Serves(l, c) == store[c] = l \/ \E r \in Request : log[r] = l /\ client[r] = c

\* A log serves one client, inside the store or outside, and what counts in it
\* are admissions of that client.
OwnerInv ==
    /\ \A r \in Request : log[r] \in Log => client[r] \in Client
    /\ \A l \in Log, c, d \in Client : Serves(l, c) /\ Serves(l, d) => c = d
    /\ \A l \in Log, c \in Client, k \in Token :
          Serves(l, c) /\ k \in stamps[l] /\ age[k] <= Window => owner[k] = c

\* A step after which logs serve no new client and hold no new timestamp keeps
\* the owners.
LEMMA OwnerShrinks ==
    ASSUME OwnerInv, UNCHANGED <<age, owner>>,
           \A r \in Request : log'[r] \in Log => client'[r] \in Client,
           \A l \in Log, c \in Client : Serves(l, c)' => Serves(l, c),
           \A l \in Log : stamps'[l] \subseteq stamps[l]
    PROVE  OwnerInv'
  BY DEF OwnerInv

\* The client of a log that a request fills is the request's own.
LEMMA AppendOwner ==
    ASSUME LimiterInv, OwnerInv, NEW r \in Request, Append(r)
    PROVE  OwnerInv'
  <1>1. /\ log[r] \in Log /\ client[r] \in Client /\ now[r] \in Token
        /\ stamps' = [stamps EXCEPT ![log[r]] = stamps[log[r]] \cup {now[r]}]
        /\ \A k \in Token \ {now[r]} : owner'[k] = owner[k]
        /\ age[now[r]] <= Window => owner'[now[r]] = client[r]
        /\ UNCHANGED <<store, age, client, log>>
    BY AppendStep DEF LimiterInv
  <1>2. \A l \in Log : now[r] \notin stamps[l]
    BY DEF LimiterInv, LockInv, Append
  <1>3. Serves(log[r], client[r])
    BY DEF Serves
  <1>4. stamps \in [Log -> SUBSET Token]
    BY DEF LimiterInv, TypeOK
  <1>5. \A l \in Log, c \in Client : Serves(l, c)' <=> Serves(l, c)
    BY <1>1 DEF Serves
  <1>6. \A q \in Request : log'[q] \in Log => client'[q] \in Client
    BY <1>1 DEF OwnerInv
  <1>7. \A l \in Log, c, d \in Client : Serves(l, c) /\ Serves(l, d) => c = d
    BY DEF OwnerInv
  <1>8. ASSUME NEW l \in Log, NEW c \in Client, NEW k \in Token,
               Serves(l, c), k \in stamps'[l], age'[k] <= Window
        PROVE  owner'[k] = c
    <2>1. CASE k = now[r]
      <3>1. owner'[k] = client[r]
        BY <1>1, <1>8, <2>1
      <3>2. l = log[r]
        BY <1>1, <1>2, <1>4, <1>8, <2>1
      <3> QED
        BY <1>1, <1>3, <1>7, <1>8, <3>1, <3>2
    <2>2. CASE k # now[r]
      <3>1. owner'[k] = owner[k] /\ age'[k] = age[k]
        BY <1>1, <2>2
      <3>2. k \in stamps[l]
        BY <1>1, <1>4, <1>8, <2>2
      <3> QED
        BY <1>8, <3>1, <3>2 DEF OwnerInv
    <2> QED
      BY <2>1, <2>2
  <1> QED
    BY <1>5, <1>6, <1>7, <1>8 DEF OwnerInv

\* Neither pruning nor a timestamp that is taken and in no log yet changes owners.
LEMMA AdmitOwner ==
    ASSUME LimiterInv, OwnerInv, NEW r \in Request, Prune(r), Admit(r)
    PROVE  OwnerInv'
  <1>1. PICK j \in Token :
            /\ age[j] > Window
            /\ \A l \in Log \ {log[r]} : j \notin stamps[l]
            /\ age' = [age EXCEPT ![j] = 0]
    BY AdmitToken
  <1>2. /\ UNCHANGED <<store, client, log, owner>>
        /\ stamps' = [stamps EXCEPT ![log[r]] = Valid(log[r])]
    BY DEF Admit
  <1>3. /\ stamps \in [Log -> SUBSET Token]
        /\ age \in [Token -> 0..MaxAge]
        /\ log[r] \in Log
    BY DEF LimiterInv, TypeOK, HolderInv, Prune
  <1>4. j \notin Valid(log[r])
    BY <1>1, <1>3, ExpiryBound DEF Valid
  <1>5. \A l \in Log : stamps'[l] \subseteq stamps[l] /\ j \notin stamps'[l]
    BY <1>1, <1>2, <1>3, <1>4 DEF Valid
  <1>6. \A k \in Token \ {j} : age'[k] = age[k]
    BY <1>1, <1>3
  <1>7. \A l \in Log, c \in Client : Serves(l, c)' <=> Serves(l, c)
    BY <1>2 DEF Serves
  <1> QED
    BY <1>2, <1>5, <1>6, <1>7 DEF OwnerInv

\* A new log has served nobody before.
LEMMA AllocateOwner ==
    ASSUME LimiterInv, OwnerInv, NEW r \in Request, Create(r), Allocate(r)
    PROVE  OwnerInv'
  <1>1. PICK n \in Log : /\ n \notin Reachable
                         /\ stamps' = [stamps EXCEPT ![n] = {}]
                         /\ store' = [store EXCEPT ![client[r]] = n]
                         /\ log' = [log EXCEPT ![r] = n]
    BY AllocateLog
  <1>2. /\ UNCHANGED <<age, owner, client>>
        /\ client[r] \in Client
    BY DEF Create, history, LimiterInv, HolderInv
  <1>3. /\ store \in [Client -> Log \cup {NoLog}]
        /\ log \in [Request -> Log \cup {NoLog}]
        /\ stamps \in [Log -> SUBSET Token]
    BY DEF LimiterInv, TypeOK
  <1>4. \A c \in Client : Serves(n, c)' => c = client[r]
    BY <1>1, <1>2, <1>3 DEF Serves, Reachable
  <1>5. \A l \in Log \ {n}, c \in Client : Serves(l, c)' => Serves(l, c)
    BY <1>1, <1>2, <1>3 DEF Serves
  <1>6. stamps'[n] = {} /\ \A l \in Log \ {n} : stamps'[l] = stamps[l]
    BY <1>1, <1>3
  <1>7. \A q \in Request : log'[q] \in Log => client'[q] \in Client
    BY <1>1, <1>2, <1>3 DEF OwnerInv
  <1>8. \A l \in Log, c, d \in Client : Serves(l, c)' /\ Serves(l, d)' => c = d
    BY <1>4, <1>5 DEF OwnerInv
  <1>9. \A l \in Log, c \in Client, k \in Token :
            Serves(l, c)' /\ k \in stamps'[l] /\ age[k] <= Window => owner[k] = c
    BY <1>5, <1>6 DEF OwnerInv
  <1> QED
    BY <1>2, <1>7, <1>8, <1>9 DEF OwnerInv

LEMMA NextOwner ==
    ASSUME LimiterInv, OwnerInv, [Next]_vars
    PROVE  OwnerInv'
  <1>0. /\ store \in [Client -> Log \cup {NoLog}]
        /\ log \in [Request -> Log \cup {NoLog}]
        /\ client \in [Request -> Client \cup {NoClient}]
        /\ stamps \in [Log -> SUBSET Token]
        /\ NoLog \notin Log
    BY RateLimitingAssumption DEF LimiterInv, TypeOK
  <1>1. ASSUME UNCHANGED <<store, stamps, age, client, log, owner>>
        PROVE  OwnerInv'
    BY <1>1 DEF OwnerInv, Serves
  <1>2. ASSUME NEW r \in Request, NEW c \in Client, Lookup(r, c)
        PROVE  OwnerInv'
    <2>1. /\ UNCHANGED <<store, stamps, age, owner>>
          /\ client' = [client EXCEPT ![r] = c]
          /\ log' = [log EXCEPT ![r] = store[c]]
      BY <1>2 DEF Lookup, logVars, history
    <2>2. \A l \in Log, d \in Client : Serves(l, d)' => Serves(l, d)
      BY <1>0, <2>1 DEF Serves
    <2>3. \A q \in Request : log'[q] \in Log => client'[q] \in Client
      BY <1>0, <2>1 DEF OwnerInv
    <2> QED
      BY <2>1, <2>2, <2>3, OwnerShrinks
  <1>3. ASSUME NEW r \in Request, Create(r), UNCHANGED logVars,
               log' = [log EXCEPT ![r] = store[client[r]]]
        PROVE  OwnerInv'
    <2>1. UNCHANGED <<store, stamps, age, owner, client>> /\ client[r] \in Client
      BY <1>3 DEF Create, logVars, history, LimiterInv, HolderInv
    <2>2. \A l \in Log, d \in Client : Serves(l, d)' => Serves(l, d)
      BY <1>0, <1>3, <2>1 DEF Serves
    <2>3. \A q \in Request : log'[q] \in Log => client'[q] \in Client
      BY <1>0, <1>3, <2>1 DEF OwnerInv
    <2> QED
      BY <2>1, <2>2, <2>3, OwnerShrinks
  <1>4. ASSUME NEW r \in Request, Prune(r), Reject(r)
        PROVE  OwnerInv'
    <2>1. /\ stamps' = [stamps EXCEPT ![log[r]] = Valid(log[r])]
          /\ UNCHANGED <<store, age, owner, client, log>>
      BY <1>4 DEF Reject, history
    <2>2. \A l \in Log : stamps'[l] \subseteq stamps[l]
      BY <1>0, <2>1 DEF Valid
    <2>3. \A l \in Log, d \in Client : Serves(l, d)' => Serves(l, d)
      BY <2>1 DEF Serves
    <2>4. \A q \in Request : log'[q] \in Log => client'[q] \in Client
      BY <2>1 DEF OwnerInv
    <2> QED
      BY <2>1, <2>2, <2>3, <2>4, OwnerShrinks
  <1>5. ASSUME NEW r \in Request, Done(r)
        PROVE  OwnerInv'
    <2>1. /\ UNCHANGED <<store, age, owner>>
          /\ client' = [client EXCEPT ![r] = NoClient]
          /\ log' = [log EXCEPT ![r] = NoLog]
          /\ \A l \in Log : stamps'[l] \subseteq stamps[l]
      BY <1>5 DEF Done, Collect
    <2>2. \A l \in Log, d \in Client : Serves(l, d)' => Serves(l, d)
      BY <1>0, <2>1 DEF Serves
    <2>3. \A q \in Request : log'[q] \in Log => client'[q] \in Client
      BY <1>0, <2>1 DEF OwnerInv
    <2> QED
      BY <2>1, <2>2, <2>3, OwnerShrinks
  <1>6. ASSUME NEW c \in Client, Cleanup(c)
        PROVE  OwnerInv'
    <2>1. /\ UNCHANGED <<age, owner, client, log>>
          /\ store' = [store EXCEPT ![c] = NoLog]
          /\ \A l \in Log : stamps'[l] \subseteq stamps[l]
      BY <1>6 DEF Cleanup, Forget, Collect, history
    <2>2. \A l \in Log, d \in Client : Serves(l, d)' => Serves(l, d)
      BY <1>0, <2>1 DEF Serves
    <2>3. \A q \in Request : log'[q] \in Log => client'[q] \in Client
      BY <2>1 DEF OwnerInv
    <2> QED
      BY <2>1, <2>2, <2>3, OwnerShrinks
  <1>7. CASE Tick
    <2>1. UNCHANGED <<store, stamps, client, log>>
      BY <1>7 DEF Tick, logVars
    <2>2. \A l \in Log, d \in Client : Serves(l, d)' <=> Serves(l, d)
      BY <2>1 DEF Serves
    <2>3. ASSUME NEW k \in Token, age'[k] <= Window
          PROVE  age[k] <= Window /\ owner'[k] = owner[k]
      <3>1. age[k] \in 0..MaxAge
        BY DEF LimiterInv, TypeOK
      <3>2. age'[k] = IF age[k] < MaxAge THEN age[k] + 1 ELSE age[k]
        BY <1>7 DEF Tick
      <3>3. age[k] < Window
        BY <2>3, <3>1, <3>2, ExpiryBound DEF MaxAge
      <3> QED
        BY <1>7, <3>1, <3>3, ExpiryBound DEF Tick
    <2> QED
      BY <2>1, <2>2, <2>3 DEF OwnerInv
  <1> QED
    <2>1. ASSUME NEW r \in Request, Create(r)
          PROVE  OwnerInv'
      BY <2>1, <1>3, AllocateOwner DEF Create
    <2>2. ASSUME NEW r \in Request, Prune(r) \/ Append(r)
          PROVE  OwnerInv'
      BY <2>2, <1>4, AdmitOwner, AppendOwner DEF Prune
    <2>3. ASSUME NEW r \in Request, Deny(r) \/ Respond(r)
          PROVE  OwnerInv'
      BY <2>3, <1>1 DEF Deny, Respond, logVars, history
    <2>4. CASE UNCHANGED vars
      BY <2>4, <1>1 DEF vars, logVars, history
    <2> QED
      BY <1>2, <1>5, <1>6, <1>7, <2>1, <2>2, <2>3, <2>4 DEF Next, Handle

\* A step that turns a request away finds Limit timestamps in its log, all of
\* them young and the client's own.
LEMMA RejectJust ==
    ASSUME LimiterInv, OwnerInv, Next, NEW r \in Request,
           outcome[r] # "limited", outcome'[r] = "limited"
    PROVE  Cardinality(InWindow(client[r])) >= Limit
  <1>1. Prune(r) /\ Cardinality(Valid(log[r])) >= Limit
    BY DEF LimiterInv, TypeOK, Next, Handle, history, Deny, Lookup, Create, Prune,
           Append, Admit, Reject, Respond, Done, Cleanup, Forget, Tick
  <1>2. log[r] \in Log /\ client[r] \in Client /\ Serves(log[r], client[r])
    BY <1>1 DEF Prune, LimiterInv, HolderInv, Serves
  <1>3. Valid(log[r]) \subseteq InWindow(client[r])
    <2>1. stamps[log[r]] \subseteq Token
      BY <1>2 DEF LimiterInv, TypeOK
    <2> QED
      BY <1>2, <2>1 DEF Valid, InWindow, OwnerInv
  <1>4. IsFiniteSet(InWindow(client[r]))
    <2>1. InWindow(client[r]) \in SUBSET Token
      BY DEF InWindow
    <2> QED
      BY <2>1, RateLimitingAssumption, FS_Subset
  <1>5. /\ Cardinality(Valid(log[r])) <= Cardinality(InWindow(client[r]))
        /\ Cardinality(Valid(log[r])) \in Nat
        /\ Cardinality(InWindow(client[r])) \in Nat
    BY <1>2, <1>3, <1>4, ValidBound, FS_Subset, FS_CardinalityType DEF LimiterInv
  <1> QED
    BY <1>1, <1>5, RateLimitingAssumption

\* No request is answered 429 on account of another client's requests or of
\* timestamps older than the window, whatever the cleanup and other requests do
\* between its look at the store and its turn at the log.
THEOREM RateLimitingRejectionJust == Spec => RejectionJust
  <1>1. Init => OwnerInv
    BY RateLimitingAssumption DEF Init, OwnerInv, Serves
  <1>2. LimiterInv /\ OwnerInv /\ [Next]_vars => OwnerInv'
    BY NextOwner
  <1>3. LimiterInv /\ OwnerInv /\ [Next]_vars
        => [\A r \in Request : outcome[r] # "limited" /\ outcome'[r] = "limited"
                               => Cardinality(InWindow(client[r])) >= Limit]_vars
    BY RejectJust
  <1> QED
    BY <1>1, <1>2, <1>3, LimiterInvariant, PTL DEF Spec, RejectionJust
=============================================================================
