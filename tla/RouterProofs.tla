---------------------------- MODULE RouterProofs ----------------------------
(***************************************************************************)
(* Theorems about Startup and Router, for every set of configuration files  *)
(* and requests.                                                            *)
(***************************************************************************)
EXTENDS Router, WellFoundedInduction, FiniteSetTheorems, TLAPS

-----------------------------------------------------------------------------
(* Induction and the folds the model is built from. *)

\* Every non-empty set of numbers has a least element: this is what inductions
\* below rest on.
LEMMA LeastNat ==
    ASSUME NEW T \in SUBSET Nat, T # {}
    PROVE  \E x \in T : \A y \in T : x <= y
<1>1. PICK R : R = OpToRel(<, Nat)
  OBVIOUS
<1>2. IsWellFoundedOn(R, Nat)
  BY <1>1, NatLessThanWellFounded
<1>3. PICK x \in T : \A y \in T : ~(<<y, x>> \in R)
  BY <1>2, WFMin
<1>4. \A y \in Nat : y < x => <<y, x>> \in R
  BY <1>1 DEF OpToRel
<1>5. \A y \in T : ~(y < x) /\ y \in Nat /\ x \in Nat
  BY <1>3, <1>4
<1>6. QED
  BY <1>5

\* Induction, as a fact about sets of numbers.
LEMMA Induction ==
    ASSUME NEW T \in SUBSET Nat, 0 \in T, \A k \in T : k + 1 \in T
    PROVE  \A k \in Nat : k \in T
<1>1. SUFFICES ASSUME NEW S, S = {k \in Nat : k \notin T}, S # {} PROVE FALSE
  OBVIOUS
<1>2. PICK x \in S : \A y \in S : x <= y
  BY <1>1, LeastNat
<1>3. x \in Nat /\ x \notin T /\ x # 0
  BY <1>1, <1>2
<1>4. x - 1 \in Nat /\ x - 1 \notin S
  BY <1>2, <1>3
<1>5. x - 1 \in T
  BY <1>1, <1>4
<1>6. (x - 1) + 1 \in T /\ (x - 1) + 1 = x
  BY <1>3, <1>5
<1>7. QED
  BY <1>3, <1>6

\* Min and Max of a set of positions.
LEMMA MinOf ==
    ASSUME NEW n \in Nat, NEW s \in SUBSET (1..n), s # {}
    PROVE  Min(s) \in s /\ \A y \in s : Min(s) <= y
<1>1. PICK x \in s : \A y \in s : x <= y
  BY LeastNat
<1>2. QED
  BY <1>1 DEF Min

LEMMA MaxOf ==
    ASSUME NEW n \in Nat, NEW s \in SUBSET (1..n), s # {}
    PROVE  Max(s) \in s /\ \A y \in s : y <= Max(s)
<1>1. PICK T : T = {k \in Nat : \A y \in s : y <= k}
  OBVIOUS
<1>2. n \in T
  BY <1>1
<1>3. PICK x \in T : \A y \in T : x <= y
  BY <1>1, <1>2, LeastNat
<1>4. x \in Nat /\ \A y \in s : y <= x
  BY <1>1, <1>3
<1>5. x \in s
  <2>1. SUFFICES ASSUME x \notin s PROVE FALSE
    OBVIOUS
  <2>2. \A y \in s : y <= x - 1
    BY <1>4, <2>1
  <2>3. x - 1 \in Nat
    <3>1. PICK y \in s : y \in 1..n
      OBVIOUS
    <3>2. y <= x - 1
      BY <2>2
    <3>3. QED
      BY <1>4, <3>1, <3>2
  <2>4. x - 1 \in T
    BY <1>1, <2>2, <2>3
  <2>5. QED
    BY <1>3, <1>4, <2>4
<1>6. \E z \in s : \A y \in s : z >= y
  BY <1>4, <1>5
<1>7. QED
  BY <1>6 DEF Max

\* f is a fold over sets of positions 1..n with values in Y: it applies G to the
\* position C takes next and to the fold of the others.
FoldArguments(n, Y, base, G, C) ==
    /\ base \in Y
    /\ G \in [1..n -> [Y -> Y]]
    /\ \A s \in SUBSET (1..n) : s # {} => C[s] \in s
IsFold(f, n, Y, base, G, C) ==
    /\ f \in [SUBSET (1..n) -> Y]
    /\ \A s \in SUBSET (1..n) :
          f[s] = IF s = {} THEN base ELSE G[C[s]][f[s \ {C[s]}]]

\* A fold is well defined: the function MapThenFoldSet defines by recursion
\* exists, whatever position it takes next.
LEMMA FoldExists ==
    ASSUME NEW n \in Nat, NEW Y, NEW base, NEW G, NEW C,
           FoldArguments(n, Y, base, G, C)
    PROVE  \E f : IsFold(f, n, Y, base, G, C)
<1>0. /\ base \in Y /\ G \in [1..n -> [Y -> Y]]
      /\ \A s \in SUBSET (1..n) : s # {} => C[s] \in s
  BY DEF FoldArguments
<1> DEFINE Small(k) == {s \in SUBSET (1..n) : Cardinality(s) <= k}
           Good(k) == \E f \in [Small(k) -> Y] :
                         f = [s \in Small(k) |->
                                 IF s = {} THEN base ELSE G[C[s]][f[s \ {C[s]}]]]
<1>1. \A s \in SUBSET (1..n) : /\ IsFiniteSet(s)
                               /\ Cardinality(s) \in 0..n
                               /\ s = {} <=> Cardinality(s) = 0
  <2>1. SUFFICES ASSUME NEW s \in SUBSET (1..n)
                 PROVE  /\ IsFiniteSet(s) /\ Cardinality(s) \in 0..n
                        /\ s = {} <=> Cardinality(s) = 0
    OBVIOUS
  <2>2. IsFiniteSet(1..n) /\ Cardinality(1..n) = n
    <3>1. IsFiniteSet(1..n) /\ Cardinality(1..n) = IF 1 > n THEN 0 ELSE n - 1 + 1
      BY FS_Interval
    <3>2. QED
      BY <3>1
  <2>3. IsFiniteSet(s) /\ Cardinality(s) <= n
    <3>1. PICK S : S = 1..n
      OBVIOUS
    <3>2. IsFiniteSet(s) /\ Cardinality(s) <= Cardinality(S)
      BY <2>2, <3>1, FS_Subset
    <3>3. QED
      BY <2>2, <3>1, <3>2
  <2>4. Cardinality(s) \in Nat
    BY <2>3, FS_CardinalityType
  <2>5. s = {} <=> Cardinality(s) = 0
    BY <2>3, FS_EmptySet
  <2>6. QED
    BY <2>3, <2>4, <2>5
<1>2. Good(0)
  <2>1. \A s \in Small(0) : s = {}
    BY <1>1
  <2>2. PICK f : f = [s \in Small(0) |-> base]
    OBVIOUS
  <2>3. f \in [Small(0) -> Y]
    BY <1>0, <2>2
  <2>4. f = [s \in Small(0) |-> IF s = {} THEN base ELSE G[C[s]][f[s \ {C[s]}]]]
    BY <2>1, <2>2
  <2>5. QED
    BY <2>3, <2>4
<1>3. ASSUME NEW k \in Nat, Good(k) PROVE Good(k + 1)
  <2>1. PICK f \in [Small(k) -> Y] :
            f = [s \in Small(k) |->
                    IF s = {} THEN base ELSE G[C[s]][f[s \ {C[s]}]]]
    BY <1>3
  <2>2. ASSUME NEW s \in Small(k + 1), s # {}
        PROVE  s \ {C[s]} \in Small(k) /\ C[s] \in 1..n
    <3>1. C[s] \in s /\ s \in SUBSET (1..n) /\ Cardinality(s) <= k + 1
      BY <1>0, <2>2
    <3>2. Cardinality(s \ {C[s]}) = Cardinality(s) - 1
      BY <1>1, <3>1, FS_RemoveElement
    <3>3. Cardinality(s) \in Nat
      BY <1>1, <3>1
    <3>4. s \ {C[s]} \in SUBSET (1..n) /\ C[s] \in 1..n
      BY <3>1
    <3>5. Cardinality(s \ {C[s]}) <= k
      BY <3>1, <3>2, <3>3
    <3>6. QED
      BY <3>4, <3>5
  <2>3. Small(k) \subseteq Small(k + 1)
    BY <1>1
  <2>4. PICK g : g = [s \in Small(k + 1) |->
                        IF s = {} THEN base ELSE G[C[s]][f[s \ {C[s]}]]]
    OBVIOUS
  <2>5. g \in [Small(k + 1) -> Y]
    <3>1. ASSUME NEW s \in Small(k + 1), s # {} PROVE G[C[s]][f[s \ {C[s]}]] \in Y
      <4>1. f[s \ {C[s]}] \in Y
        BY <2>1, <2>2, <3>1
      <4>2. QED
        BY <1>0, <2>2, <3>1, <4>1
    <3>2. QED
      BY <1>0, <2>4, <3>1
  <2>6. ASSUME NEW s \in Small(k) PROVE g[s] = f[s]
    <3>1. f[s] = IF s = {} THEN base ELSE G[C[s]][f[s \ {C[s]}]]
      BY <2>1
    <3>2. QED
      BY <2>3, <2>4, <3>1
  <2>7. ASSUME NEW s \in Small(k + 1)
        PROVE  g[s] = IF s = {} THEN base ELSE G[C[s]][g[s \ {C[s]}]]
    BY <2>2, <2>4, <2>6
  <2>8. g = [s \in Small(k + 1) |->
                IF s = {} THEN base ELSE G[C[s]][g[s \ {C[s]}]]]
    BY <2>5, <2>7
  <2>9. QED
    BY <2>5, <2>8
<1> HIDE DEF Good
<1>4. Good(n)
  <2>1. PICK T : T = {k \in Nat : Good(k)}
    OBVIOUS
  <2>2. 0 \in T /\ T \in SUBSET Nat
    BY <1>2, <2>1
  <2>3. ASSUME NEW k \in T PROVE k + 1 \in T
    <3>1. k \in Nat /\ Good(k)
      BY <2>1
    <3>2. k + 1 \in Nat /\ Good(k + 1)
      BY <1>3, <3>1
    <3>3. QED
      BY <2>1, <3>2
  <2>4. n \in T
    BY <2>2, <2>3, Induction
  <2>5. QED
    BY <2>1, <2>4
<1>5. Small(n) = SUBSET (1..n)
  BY <1>1
<1>6. QED
  BY <1>4, <1>5 DEF Good, IsFold

\* The chain that buildPluginChain wraps from the last plugin to the first has
\* them in the order of the list.
LEMMA ChainIsList ==
    ASSUME NEW S, NEW p \in Seq(S)
    PROVE  ChainPlugins(p) = p
<1>1. PICK n \in Nat : n = Len(p) /\ DOMAIN p = 1..n
  OBVIOUS
<1> DEFINE Body(f) == [s \in SUBSET (1..n) |->
                         IF s = {} THEN <<>> ELSE <<p[Min(s)]>> \o f[s \ {Min(s)}]]
<1>2. ChainPlugins(p) = (CHOOSE f : f = Body(f))[1..n]
  BY <1>1 DEF ChainPlugins, FoldRight, MapThenFoldSet
<1>3. \E f : f = Body(f)
  <2>1. PICK G : G = [i \in 1..n |-> [c \in Seq(S) |-> <<p[i]>> \o c]]
    OBVIOUS
  <2>2. G \in [1..n -> [Seq(S) -> Seq(S)]]
    <3>1. \A i \in 1..n : p[i] \in S
      BY <1>1
    <3>2. \A i \in 1..n, c \in Seq(S) : <<p[i]>> \o c \in Seq(S)
      BY <3>1
    <3>3. QED
      BY <2>1, <3>2
  <2>3. PICK C : C = [s \in SUBSET (1..n) |-> Min(s)]
    OBVIOUS
  <2>4. \A s \in SUBSET (1..n) : s # {} => C[s] \in s
    BY <2>3, MinOf
  <2>5. <<>> \in Seq(S)
    OBVIOUS
  <2>6. FoldArguments(n, Seq(S), <<>>, G, C)
    BY <2>2, <2>4, <2>5 DEF FoldArguments
  <2>7. PICK f : IsFold(f, n, Seq(S), <<>>, G, C)
    BY <2>6, FoldExists
  <2>8. /\ f \in [SUBSET (1..n) -> Seq(S)]
         /\ \A s \in SUBSET (1..n) :
                f[s] = IF s = {} THEN <<>> ELSE G[C[s]][f[s \ {C[s]}]]
    BY <2>7 DEF IsFold
  <2>9. ASSUME NEW s \in SUBSET (1..n), s # {}
        PROVE  G[C[s]][f[s \ {C[s]}]] = <<p[Min(s)]>> \o f[s \ {Min(s)}]
    <3>1. C[s] = Min(s) /\ Min(s) \in 1..n /\ s \ {Min(s)} \in SUBSET (1..n)
      BY <2>3, <2>4, <2>9
    <3>2. f[s \ {Min(s)}] \in Seq(S)
      BY <2>8, <3>1
    <3>3. QED
      BY <2>1, <3>1, <3>2
  <2>10. \A s \in SUBSET (1..n) : f[s] = Body(f)[s]
    <3>1. SUFFICES ASSUME NEW s \in SUBSET (1..n) PROVE f[s] = Body(f)[s]
      OBVIOUS
    <3>2. f[s] = IF s = {} THEN <<>> ELSE G[C[s]][f[s \ {C[s]}]]
      BY <2>8
    <3>3. QED
      BY <2>9, <3>2
  <2>11. f = Body(f)
    BY <2>8, <2>10
  <2>12. QED
    BY <2>11
<1>4. PICK f : f = (CHOOSE g : g = Body(g))
  OBVIOUS
<1>5. f = Body(f)
  BY <1>3, <1>4
<1>6. f[{}] = <<>>
  BY <1>5
<1>7. ASSUME NEW i \in 1..n PROVE f[i..n] = <<p[i]>> \o f[(i + 1)..n]
  <2>6. i \in i..n
    OBVIOUS
  <2>1. i..n \in SUBSET (1..n) /\ i..n # {} /\ i \in i..n
    <3>1. \A x \in i..n : x \in 1..n
      OBVIOUS
    <3>2. QED
      BY <2>6, <3>1, Zenon
  <2>2. Min(i..n) = i
    <3>1. Min(i..n) \in i..n /\ \A y \in i..n : Min(i..n) <= y
      BY <2>1, MinOf
    <3>2. QED
      BY <2>1, <3>1
  <2>3. (i..n) \ {i} = (i + 1)..n
    OBVIOUS
  <2>4. f[i..n] = <<p[Min(i..n)]>> \o f[(i..n) \ {Min(i..n)}]
    BY <1>5, <2>1
  <2>5. QED
    BY <2>2, <2>3, <2>4
<1> HIDE DEF Body
<1>8. PICK T : T = {k \in Nat : k <= n => f[(n - k + 1)..n] = SubSeq(p, n - k + 1, n)}
  OBVIOUS
<1>9. 0 \in T /\ T \in SUBSET Nat
  <2>1. (n - 0 + 1)..n = {}
    OBVIOUS
  <2>2. SubSeq(p, n - 0 + 1, n) = <<>>
    BY <1>1
  <2>3. QED
    BY <1>6, <1>8, <2>1, <2>2
<1>10. ASSUME NEW k \in T PROVE k + 1 \in T
  <2>1. SUFFICES ASSUME k + 1 <= n
                 PROVE  f[(n - (k + 1) + 1)..n] = SubSeq(p, n - (k + 1) + 1, n)
    BY <1>8
  <2>2. PICK i \in 1..n : i = n - (k + 1) + 1 /\ i + 1 = n - k + 1
    BY <1>8, <2>1
  <2>3. f[(i + 1)..n] = SubSeq(p, i + 1, n)
    BY <1>8, <2>1, <2>2
  <2>4. f[i..n] = <<p[i]>> \o SubSeq(p, i + 1, n)
    BY <1>7, <2>3
  <2>5. <<p[i]>> \o SubSeq(p, i + 1, n) = SubSeq(p, i, n)
    BY <1>1
  <2>6. QED
    BY <2>2, <2>4, <2>5
<1>11. n \in T
  BY <1>9, <1>10, Induction
<1>12. f[1..n] = SubSeq(p, 1, n)
  BY <1>8, <1>11
<1>13. SubSeq(p, 1, n) = p
  BY <1>1
<1>14. QED
  BY <1>2, <1>4, <1>12, <1>13

\* What a plugin of a chain does to the path, and a whole chain.
StepPath(path, plugin) ==
    IF plugin.name = "path-rewrite" THEN Rewritten(path, plugin) ELSE path
Through(plugins, path) ==
    FoldLeft(LAMBDA p, plugin : IF plugin.name = "path-rewrite"
                                THEN Rewritten(p, plugin) ELSE p,
             path, plugins)

\* w is the path before the first plugin, after it, and so on to the last.
IsRun(w, plugins, path) ==
    /\ w \in [0..Len(plugins) -> Seq(Text)]
    /\ w[0] = path
    /\ \A k \in 1..Len(plugins) : w[k] = StepPath(w[k - 1], plugins[k])

\* A plugin turns a path into a path.
LEMMA StepPathType ==
    ASSUME NEW path \in Seq(Text), NEW plugin \in PluginType
    PROVE  StepPath(path, plugin) \in Seq(Text)
<1>1. CASE plugin.name = "path-rewrite"
  <2>1. plugin.from \in Seq(Text) /\ plugin.to \in Seq(Text)
    BY <1>1 DEF PluginType
  <2>2. CASE HasPrefix(path, plugin.from)
    <3>1. PICK n, m \in Nat : n = Len(plugin.from) /\ m = Len(path) /\ n <= m
      BY <2>1, <2>2 DEF HasPrefix, IsPrefix
    <3>2. SubSeq(path, n + 1, m) \in Seq(Text)
      BY <3>1
    <3>3. plugin.to \o SubSeq(path, n + 1, m) \in Seq(Text)
      BY <2>1, <3>2
    <3>4. QED
      BY <1>1, <2>2, <3>1, <3>3 DEF StepPath, Rewritten
  <2>3. QED
    BY <1>1, <2>2 DEF StepPath, Rewritten
<1>2. QED
  BY <1>1 DEF StepPath

\* No plugin empties a path unless it rewrites to the empty one.
LEMMA StepPathStays ==
    ASSUME NEW path \in Seq(Text), NEW plugin \in PluginType, path # <<>>,
           plugin.name = "path-rewrite" => plugin.to # <<>>
    PROVE  StepPath(path, plugin) # <<>>
<1>1. CASE plugin.name = "path-rewrite" /\ HasPrefix(path, plugin.from)
  <2>1. plugin.from \in Seq(Text) /\ plugin.to \in Seq(Text) /\ plugin.to # <<>>
    BY <1>1 DEF PluginType
  <2>2. PICK rest : rest = SubSeq(path, Len(plugin.from) + 1, Len(path))
    OBVIOUS
  <2>3. rest \in Seq(Text)
    BY <2>1, <2>2
  <2>4. Len(plugin.to) \in Nat \ {0} /\ Len(rest) \in Nat
    BY <2>1, <2>3
  <2>5. Len(plugin.to \o rest) # 0
    BY <2>1, <2>3, <2>4
  <2>6. plugin.to \o rest # <<>>
    BY <2>5
  <2>7. QED
    BY <1>1, <2>2, <2>6 DEF StepPath, Rewritten
<1>2. QED
  BY <1>1 DEF StepPath, Rewritten

\* The fold is the end of a run.
LEMMA ThroughRun ==
    ASSUME NEW plugins \in Seq(PluginType), NEW path \in Seq(Text)
    PROVE  \E w : IsRun(w, plugins, path) /\ Through(plugins, path) = w[Len(plugins)]
<1>1. PICK n \in Nat : n = Len(plugins) /\ DOMAIN plugins = 1..n
  OBVIOUS
<1>2. \A k \in 1..n : plugins[k] \in PluginType
  BY <1>1
<1> DEFINE Body(f) == [s \in SUBSET (1..n) |->
                         IF s = {} THEN path
                         ELSE StepPath(f[s \ {Max(s)}], plugins[Max(s)])]
<1>3. Through(plugins, path) = (CHOOSE f : f = Body(f))[1..n]
  BY <1>1 DEF Through, FoldLeft, MapThenFoldSet, StepPath
<1>4. \E f : f = Body(f) /\ f \in [SUBSET (1..n) -> Seq(Text)]
  <2>1. PICK G : G = [i \in 1..n |-> [p \in Seq(Text) |-> StepPath(p, plugins[i])]]
    OBVIOUS
  <2>2. G \in [1..n -> [Seq(Text) -> Seq(Text)]]
    BY <1>2, <2>1, StepPathType
  <2>3. PICK C : C = [s \in SUBSET (1..n) |-> Max(s)]
    OBVIOUS
  <2>4. \A s \in SUBSET (1..n) : s # {} => C[s] \in s
    BY <2>3, MaxOf
  <2>5. FoldArguments(n, Seq(Text), path, G, C)
    BY <2>2, <2>4 DEF FoldArguments
  <2>6. PICK f : IsFold(f, n, Seq(Text), path, G, C)
    BY <2>5, FoldExists
  <2>7. /\ f \in [SUBSET (1..n) -> Seq(Text)]
        /\ \A s \in SUBSET (1..n) :
              f[s] = IF s = {} THEN path ELSE G[C[s]][f[s \ {C[s]}]]
    BY <2>6 DEF IsFold
  <2>8. ASSUME NEW s \in SUBSET (1..n), s # {}
        PROVE  G[C[s]][f[s \ {C[s]}]] = StepPath(f[s \ {Max(s)}], plugins[Max(s)])
    <3>1. C[s] = Max(s) /\ Max(s) \in 1..n /\ s \ {Max(s)} \in SUBSET (1..n)
      BY <2>3, <2>4, <2>8
    <3>2. f[s \ {Max(s)}] \in Seq(Text)
      BY <2>7, <3>1
    <3>3. QED
      BY <2>1, <3>1, <3>2
  <2>9. \A s \in SUBSET (1..n) : f[s] = Body(f)[s]
    BY <2>7, <2>8
  <2>10. f = Body(f)
    BY <2>7, <2>9
  <2>11. QED
    BY <2>7, <2>10
<1>5. PICK f : f = (CHOOSE g : g = Body(g))
  OBVIOUS
<1>6. f = Body(f)
  BY <1>4, <1>5
<1>7. f[{}] = path
  BY <1>6
<1>8. ASSUME NEW i \in 1..n PROVE f[1..i] = StepPath(f[1..(i - 1)], plugins[i])
  <2>1. i \in 1..i /\ 1..i \in SUBSET (1..n)
    <3>1. i \in 1..i /\ \A x \in 1..i : x \in 1..n
      OBVIOUS
    <3>2. QED
      BY <3>1, Zenon
  <2>2. Max(1..i) = i
    <3>1. Max(1..i) \in 1..i /\ \A y \in 1..i : y <= Max(1..i)
      BY <2>1, MaxOf
    <3>2. QED
      BY <2>1, <3>1
  <2>3. (1..i) \ {i} = 1..(i - 1)
    OBVIOUS
  <2>4. f[1..i] = StepPath(f[(1..i) \ {Max(1..i)}], plugins[Max(1..i)])
    BY <1>6, <2>1
  <2>5. QED
    BY <2>2, <2>3, <2>4
<1> HIDE DEF Body
<1>9. PICK w : w = [k \in 0..n |-> f[1..k]]
  OBVIOUS
<1>10. w[0] = path
  <2>1. 1..0 = {}
    OBVIOUS
  <2>2. QED
    BY <1>7, <1>9, <2>1
<1>11. \A k \in 1..n : w[k] = StepPath(w[k - 1], plugins[k])
  <2>1. SUFFICES ASSUME NEW k \in 1..n PROVE w[k] = StepPath(w[k - 1], plugins[k])
    OBVIOUS
  <2>2. k \in 0..n /\ k - 1 \in 0..n
    OBVIOUS
  <2>3. QED
    BY <1>8, <1>9, <2>2
<1>12. \A k \in 0..n : w[k] \in Seq(Text)
  <2>1. PICK T : T = {k \in Nat : k <= n => w[k] \in Seq(Text)}
    OBVIOUS
  <2>2. 0 \in T /\ T \in SUBSET Nat
    BY <1>10, <2>1
  <2>3. ASSUME NEW k \in T PROVE k + 1 \in T
    <3>1. SUFFICES ASSUME k + 1 <= n PROVE w[k + 1] \in Seq(Text)
      BY <2>1
    <3>2. w[k] \in Seq(Text) /\ k + 1 \in 1..n /\ (k + 1) - 1 = k
      BY <2>1, <3>1
    <3>3. w[k + 1] = StepPath(w[k], plugins[k + 1])
      BY <1>11, <3>2
    <3>4. QED
      BY <1>2, <3>2, <3>3, StepPathType
  <2>4. \A k \in Nat : k \in T
    BY <2>2, <2>3, Induction
  <2>5. QED
    BY <2>1, <2>4
<1>13. w \in [0..n -> Seq(Text)]
  BY <1>9, <1>12
<1>14. Through(plugins, path) = w[n]
  BY <1>3, <1>5, <1>9
<1>15. QED
  BY <1>1, <1>10, <1>11, <1>13, <1>14 DEF IsRun

\* A run is determined by its first path.
LEMMA RunUnique ==
    ASSUME NEW plugins \in Seq(PluginType), NEW path, NEW v, NEW w,
           IsRun(v, plugins, path), IsRun(w, plugins, path)
    PROVE  v[Len(plugins)] = w[Len(plugins)]
<1>1. PICK n \in Nat : n = Len(plugins)
  OBVIOUS
<1>2. PICK T : T = {k \in Nat : k <= n => v[k] = w[k]}
  OBVIOUS
<1>3. 0 \in T /\ T \in SUBSET Nat
  BY <1>2 DEF IsRun
<1>4. ASSUME NEW k \in T PROVE k + 1 \in T
  <2>1. SUFFICES ASSUME k + 1 <= n PROVE v[k + 1] = w[k + 1]
    BY <1>2
  <2>2. v[k] = w[k] /\ k + 1 \in 1..n /\ (k + 1) - 1 = k
    BY <1>2, <2>1
  <2>3. /\ v[k + 1] = StepPath(v[k], plugins[k + 1])
        /\ w[k + 1] = StepPath(w[k], plugins[k + 1])
    BY <1>1, <2>2 DEF IsRun
  <2>4. QED
    BY <2>2, <2>3
<1>5. n \in T
  BY <1>3, <1>4, Induction
<1>6. QED
  BY <1>1, <1>2, <1>5

\* The rest of a chain: what is left from the k-th plugin on.
Rest(plugins, k) == SubSeq(plugins, k, Len(plugins))

\* A plugin takes its step first; the rest goes on from there.
LEMMA ThroughStep ==
    ASSUME NEW plugins \in Seq(PluginType), NEW path \in Seq(Text),
           NEW k \in 1..Len(plugins)
    PROVE  Through(Rest(plugins, k), path)
             = Through(Rest(plugins, k + 1), StepPath(path, plugins[k]))
<1>1. PICK n \in Nat : n = Len(plugins)
  OBVIOUS
<1>2. PICK a, b : a = Rest(plugins, k) /\ b = Rest(plugins, k + 1)
  OBVIOUS
<1>3. /\ a \in Seq(PluginType) /\ b \in Seq(PluginType)
      /\ Len(a) = n - k + 1 /\ Len(b) = n - k
      /\ a[1] = plugins[k]
      /\ \A i \in 1..(n - k) : b[i] = a[i + 1]
  BY <1>1, <1>2 DEF Rest
<1>4. PICK next \in Seq(Text) : next = StepPath(path, plugins[k])
  BY StepPathType
<1>5. PICK v : IsRun(v, a, path) /\ Through(a, path) = v[Len(a)]
  BY <1>3, ThroughRun
<1>6. PICK w : IsRun(w, b, next) /\ Through(b, next) = w[Len(b)]
  BY <1>3, ThroughRun
<1>7. PICK m \in Nat : m = n - k
  <2>1. n - k \in Nat
    BY <1>1
  <2>2. QED
    BY <2>1
<1>8. /\ v \in [0..(m + 1) -> Seq(Text)] /\ v[0] = path
      /\ \A i \in 1..(m + 1) : v[i] = StepPath(v[i - 1], a[i])
  BY <1>3, <1>5, <1>7 DEF IsRun
<1>9. PICK u : u = [i \in 0..m |-> v[i + 1]]
  OBVIOUS
<1>10. IsRun(u, b, next)
  <2>1. u \in [0..m -> Seq(Text)]
    BY <1>7, <1>8, <1>9
  <2>2. u[0] = next
    <3>1. v[1] = StepPath(v[0], a[1])
      BY <1>7, <1>8
    <3>2. QED
      BY <1>3, <1>4, <1>7, <1>8, <1>9, <3>1
  <2>3. ASSUME NEW i \in 1..m PROVE u[i] = StepPath(u[i - 1], b[i])
    <3>1. i + 1 \in 1..(m + 1) /\ (i + 1) - 1 = i /\ i \in 0..m /\ i - 1 \in 0..m
      OBVIOUS
    <3>2. v[i + 1] = StepPath(v[i], a[i + 1])
      BY <1>8, <3>1
    <3>3. b[i] = a[i + 1]
      BY <1>3, <1>7
    <3>4. u[i] = v[i + 1] /\ u[i - 1] = v[i]
      BY <1>9, <3>1
    <3>5. QED
      BY <3>2, <3>3, <3>4
  <2>4. Len(b) = m
    BY <1>3, <1>7
  <2>5. QED
    BY <2>1, <2>2, <2>3, <2>4 DEF IsRun
<1>11. u[Len(b)] = w[Len(b)]
  BY <1>3, <1>6, <1>10, RunUnique
<1>12. u[Len(b)] = v[Len(a)]
  BY <1>3, <1>7, <1>9
<1>13. QED
  BY <1>2, <1>4, <1>5, <1>6, <1>11, <1>12

\* At the end of the chain the path is what it is.
LEMMA ThroughEnd ==
    ASSUME NEW plugins \in Seq(PluginType), NEW path \in Seq(Text),
           NEW k \in Nat, k > Len(plugins)
    PROVE  Through(Rest(plugins, k), path) = path
<1>1. PICK a : a = Rest(plugins, k)
  OBVIOUS
<1>2. a \in Seq(PluginType) /\ Len(a) = 0
  BY <1>1 DEF Rest
<1>3. PICK v : IsRun(v, a, path) /\ Through(a, path) = v[Len(a)]
  BY <1>2, ThroughRun
<1>4. QED
  BY <1>1, <1>2, <1>3 DEF IsRun

-----------------------------------------------------------------------------
(* What LoadConfig leaves behind. *)

\* What ConfigSound asks of one service.
SoundService(s) ==
    /\ HasTargets(s)
    /\ Len(s.lb.targets) > 1 => s.lb.strategy \in ValidStrategies
    /\ s.lb.health # Nil =>
        /\ s.lb.health.ready # "" \/ s.lb.health.live # ""
        /\ s.lb.health.interval > 0
        /\ s.lb.health.timeout > 0
        /\ s.lb.health.unhealthy > 0
        /\ s.lb.health.healthy > 0

Loaded == {"balancers", "chains", "serving"}

\* The types of what main() works on; only the services of the file change.
StartTypeOK ==
    /\ scenario \in Scenarios
    /\ stage \in {"global", "services", "routes", "exited"} \cup Loaded
    /\ at \in Nat \ {0}
    /\ cfg \in ConfigType
    /\ cfg.strict = scenario.config.strict

\* A loop of validateAndSetDefaults has done with element i.
ServiceChecked(i) ==
    \/ stage = "services" /\ i < at
    \/ stage \in {"routes"} \cup Loaded
RouteChecked(i) ==
    \/ stage = "routes" /\ i < at
    \/ stage \in Loaded

\* What has been checked stays checked, although the loop writes to the list.
ConfigInv ==
    /\ stage = "global" => at = 1
    /\ stage \in {"services", "routes"} \cup Loaded =>
          (cfg.https => cfg.certificates # <<>>)
    /\ \A i \in DOMAIN cfg.services : ServiceChecked(i) =>
          /\ SoundService(cfg.services[i])
          /\ \A j \in DOMAIN cfg.services :
                j < i => cfg.services[j].name # cfg.services[i].name
    /\ \A i \in DOMAIN cfg.routes : RouteChecked(i) =>
          /\ cfg.routes[i].service \in Names(cfg.services)
          /\ \A j \in DOMAIN cfg.routes : j < i => cfg.routes[j].id # cfg.routes[i].id

\* In strict mode NewProxy has a balancer for every service it has passed.
BalancersInv ==
    cfg.strict =>
        \A i \in DOMAIN cfg.services :
            (stage = "balancers" /\ i < at) \/ stage \in {"chains", "serving"}
            => cfg.services[i].name \in DOMAIN balancers

StartInv == StartTypeOK /\ ConfigInv /\ BalancersInv

\* The fields of a service that LoadConfig has accepted and completed.
LEMMA PopulatedType ==
    ASSUME NEW s \in ServiceType, ~HasTargets(s)
    PROVE  /\ Populated(s) \in ServiceType
           /\ Populated(s).name = s.name
           /\ Populated(s).lb \in LBType
           /\ Populated(s).lb.health = LBOf(s).health
           /\ s.url # "" => /\ Populated(s).lb.targets = <<s.url>>
                            /\ Populated(s).lb.strategy = LBOf(s).strategy
           /\ s.url = "" =>
                /\ Populated(s).lb.targets = s.urls
                /\ Populated(s).lb.strategy = IF LBOf(s).strategy = "" THEN "round-robin"
                                              ELSE LBOf(s).strategy
<1>0. /\ s.lb \in LBType \cup {Nil} /\ s.urls \in Seq(Text)
      /\ <<s.url>> \in Seq(Text) /\ "" \in Text /\ <<>> \in Seq(Text)
  <2>1. s.url \in Text /\ s.lb \in LBType \cup {Nil} /\ s.urls \in Seq(Text)
    BY DEF ServiceType
  <2>2. PICK u \in Text : u = s.url
    BY <2>1
  <2>3. <<u>> \in Seq(Text) /\ <<>> \in Seq(Text)
    OBVIOUS
  <2>4. "" \in Text
    BY ScenarioAssumption
  <2>5. QED
    BY <2>1, <2>2, <2>3, <2>4
<1>1. LBOf(s) \in LBType
  <2>1. EmptyLB \in LBType
    BY <1>0 DEF EmptyLB, LBType
  <2>2. QED
    BY <1>0, <2>1 DEF LBOf
<1>2. PICK lb \in LBType : lb = LBOf(s)
  BY <1>1
<1>3. CASE s.url # ""
  <2>1. PICK new : new = [lb EXCEPT !.targets = <<s.url>>]
    OBVIOUS
  <2>2. Populated(s) = [s EXCEPT !.lb = new, !.url = ""]
    BY <1>2, <1>3, <2>1 DEF Populated
  <2>3. /\ new \in LBType /\ new.targets = <<s.url>>
        /\ new.health = lb.health /\ new.strategy = lb.strategy
    BY <1>0, <2>1 DEF LBType
  <2>4. Populated(s) \in ServiceType /\ Populated(s).lb = new /\ Populated(s).name = s.name
    BY <1>0, <2>2, <2>3 DEF ServiceType
  <2>5. QED
    BY <1>2, <1>3, <2>3, <2>4
<1>4. CASE s.url = ""
  <2>1. PICK strategy \in Text :
            strategy = IF lb.strategy = "" THEN "round-robin" ELSE lb.strategy
    BY ScenarioAssumption DEF LBType
  <2>2. PICK new : new = [lb EXCEPT !.targets = s.urls, !.strategy = strategy]
    OBVIOUS
  <2>3. Populated(s) = [s EXCEPT !.lb = new, !.urls = <<>>]
    BY <1>2, <1>4, <2>1, <2>2 DEF Populated, LBType
  <2>4. /\ new \in LBType /\ new.targets = s.urls
        /\ new.health = lb.health /\ new.strategy = strategy
    BY <1>0, <2>1, <2>2 DEF LBType
  <2>5. Populated(s) \in ServiceType /\ Populated(s).lb = new /\ Populated(s).name = s.name
    BY <1>0, <2>3, <2>4 DEF ServiceType
  <2>6. QED
    BY <1>2, <1>4, <2>1, <2>4, <2>5
<1>5. QED
  BY <1>3, <1>4

\* The defaults of load_balancing: a strategy, and numbers a monitor can use.
LEMMA DefaultedSound ==
    ASSUME NEW lb \in LBType
    PROVE  /\ Defaulted(lb) \in LBType
           /\ Defaulted(lb).targets = lb.targets
           /\ lb.strategy \in ValidStrategies \cup {""}
              => Defaulted(lb).strategy \in ValidStrategies
           /\ Defaulted(lb).health = Nil <=> lb.health = Nil
           /\ lb.health # Nil =>
                /\ Defaulted(lb).health.ready = lb.health.ready
                /\ Defaulted(lb).health.live = lb.health.live
                /\ Defaulted(lb).health.interval > 0
                /\ Defaulted(lb).health.timeout > 0
                /\ Defaulted(lb).health.unhealthy > 0
                /\ Defaulted(lb).health.healthy > 0
<1>1. \A n \in Int, d \in {1, 2, 5, 30} : Positive(n, d) \in Int /\ Positive(n, d) > 0
  BY DEF Positive
<1>2. PICK strategy \in Text :
          strategy = IF lb.strategy = "" THEN "round-robin" ELSE lb.strategy
  BY ScenarioAssumption DEF LBType
<1>3. lb.strategy \in ValidStrategies \cup {""} => strategy \in ValidStrategies
  BY <1>2 DEF ValidStrategies
<1>4. CASE lb.health = Nil
  <2>1. Defaulted(lb) = [lb EXCEPT !.strategy = strategy, !.health = Nil]
    BY <1>2, <1>4 DEF Defaulted, LBType
  <2>2. QED
    BY <1>3, <1>4, <2>1 DEF LBType
<1>5. CASE lb.health # Nil
  <2>1. lb.health \in HealthType
    BY <1>5 DEF LBType
  <2>2. PICK h \in HealthType : h = lb.health
    BY <2>1
  <2>3. PICK g : g = Timed(h)
    OBVIOUS
  <2>4. /\ g \in HealthType
        /\ g.ready = h.ready /\ g.live = h.live
        /\ g.interval > 0 /\ g.timeout > 0
        /\ g.unhealthy > 0 /\ g.healthy > 0
    BY <1>1, <2>3 DEF HealthType, Timed
  <2>5. g # Nil
    BY <2>4, ScenarioAssumption
  <2>7. Defaulted(lb) = [lb EXCEPT !.strategy = strategy, !.health = g]
    BY <1>2, <1>5, <2>2, <2>3 DEF Defaulted, LBType
  <2>8. /\ Defaulted(lb) \in LBType /\ Defaulted(lb).targets = lb.targets
        /\ Defaulted(lb).strategy = strategy /\ Defaulted(lb).health = g
    BY <2>4, <2>7 DEF LBType
  <2>9. QED
    BY <1>3, <1>5, <2>2, <2>4, <2>5, <2>8
<1>6. QED
  BY <1>4, <1>5

\* LoadConfig completes an accepted service to a sound one of the same name.
LEMMA CompletedSound ==
    ASSUME NEW s \in ServiceType, NEW taken, ~Rejected(s, taken)
    PROVE  /\ Completed(s) \in ServiceType
           /\ Completed(s).name = s.name
           /\ SoundService(Completed(s))
           /\ s.name \notin taken
<1>1. ~ServiceError(s, taken)
  BY DEF Rejected
<1>2. s.name \notin taken
  BY <1>1 DEF ServiceError
<1>3. CASE s.lb = Nil
  <2>1. ~HasTargets(s) /\ LBOf(s) = EmptyLB
    BY <1>3 DEF HasTargets, LBOf
  <2>2. Completed(s) = Populated(s)
    BY <1>3 DEF Completed
  <2>3. /\ EmptyLB.strategy = "" /\ EmptyLB.health = Nil
    BY DEF EmptyLB
  <2>4. PICK p \in ServiceType : p = Populated(s)
    BY <2>1, PopulatedType
  <2>5. p.lb # Nil /\ p.lb.health = Nil /\ p.name = s.name
    BY <2>1, <2>3, <2>4, PopulatedType, ScenarioAssumption
  <2>6. CASE s.url # ""
    <3>1. p.lb.targets = <<s.url>>
      BY <2>1, <2>4, <2>6, PopulatedType
    <3>2. SoundService(p)
      BY <2>5, <3>1 DEF SoundService, HasTargets
    <3>3. QED
      BY <1>2, <2>2, <2>4, <2>5, <3>2
  <2>7. CASE s.url = ""
    <3>1. p.lb.targets = s.urls /\ p.lb.strategy = "round-robin"
      BY <2>1, <2>3, <2>4, <2>7, PopulatedType
    <3>2. s.urls # <<>>
      BY <1>1, <2>1, <2>7 DEF ServiceError
    <3>3. SoundService(p)
      BY <2>5, <3>1, <3>2 DEF SoundService, HasTargets, ValidStrategies
    <3>4. QED
      BY <1>2, <2>2, <2>4, <2>5, <3>3
  <2>8. QED
    BY <2>6, <2>7
<1>4. CASE s.lb # Nil
  <2>1. /\ Populated(s) \in ServiceType /\ Populated(s).name = s.name
        /\ Populated(s).lb \in LBType
    <3>1. CASE HasTargets(s)
      BY <1>4, <3>1 DEF Populated, ServiceType
    <3>2. CASE ~HasTargets(s)
      BY <3>2, PopulatedType
    <3>3. QED
      BY <3>1, <3>2
  <2>2. PICK p \in ServiceType : p = Populated(s)
    BY <2>1
  <2>3. PICK lb \in LBType : lb = Defaulted(p.lb)
    BY <2>1, <2>2, DefaultedSound
  <2>4. Completed(s) = [p EXCEPT !.lb = lb]
    BY <1>4, <2>2, <2>3 DEF Completed, ServiceType
  <2>5. PICK t : t = Completed(s)
    OBVIOUS
  <2>6. t \in ServiceType /\ t.lb = lb /\ t.name = s.name
    BY <2>1, <2>2, <2>4, <2>5 DEF ServiceType
  <2>7. ~LoadBalancingError(p.lb)
    BY <1>4, <2>2 DEF Rejected
  <2>8. /\ lb.targets # <<>> /\ lb.strategy \in ValidStrategies
        /\ lb.health # Nil =>
             /\ lb.health.ready # "" \/ lb.health.live # ""
             /\ lb.health.interval > 0 /\ lb.health.timeout > 0
             /\ lb.health.unhealthy > 0 /\ lb.health.healthy > 0
    BY <2>1, <2>2, <2>3, <2>7, DefaultedSound DEF LoadBalancingError
  <2>9. lb # Nil
    BY <2>3, ScenarioAssumption
  <2>10. SoundService(t)
    BY <2>6, <2>8, <2>9 DEF SoundService, HasTargets
  <2>11. QED
    BY <1>2, <2>5, <2>6, <2>10
<1>5. QED
  BY <1>3, <1>4

-----------------------------------------------------------------------------
(* Every step of main() keeps what the earlier ones have established. *)

\* Nothing has been checked when main() begins.
LEMMA InitStart == StartupInit => StartInv
<1>1. SUFFICES ASSUME StartupInit PROVE StartInv
  OBVIOUS
<1>2. /\ scenario \in Scenarios /\ cfg = scenario.config /\ stage = "global" /\ at = 1
      /\ cfg \in ConfigType
  BY <1>1, ScenarioAssumption DEF StartupInit
<1>3. StartTypeOK
  BY <1>2 DEF StartTypeOK
<1>4. ConfigInv /\ BalancersInv
  BY <1>2 DEF ConfigInv, BalancersInv, ServiceChecked, RouteChecked, Loaded
<1>5. QED
  BY <1>3, <1>4 DEF StartInv

\* The elements before the one a loop looks at.
LEMMA BeforeFacts ==
    ASSUME NEW S, NEW list \in Seq(S), at \in Nat \ {0}, at <= Len(list),
           NEW j \in DOMAIN list, j < at
    PROVE  j \in DOMAIN Before(list) /\ Before(list)[j] = list[j]
  BY DEF Before

\* An iteration over the services replaces one of them, by a sound one.
LEMMA LoadServiceStart == StartInv /\ LoadService => StartInv'
<1>1. SUFFICES ASSUME StartInv, LoadService PROVE StartInv'
  OBVIOUS
<1>2. /\ scenario \in Scenarios /\ at \in Nat \ {0} /\ cfg \in ConfigType
      /\ cfg.strict = scenario.config.strict
      /\ cfg.services \in Seq(ServiceType)
  BY <1>1 DEF StartInv, StartTypeOK, ConfigType
<1>3. /\ scenario' = scenario /\ stage = "services" /\ stage' = stage
      /\ at \in 1..Len(cfg.services) /\ at' = at + 1
      /\ ~Rejected(cfg.services[at], Names(Before(cfg.services)))
      /\ cfg' = [cfg EXCEPT !.services[at] = Completed(@)]
  BY <1>1, <1>2 DEF LoadService, Step
<1>4. PICK n \in DOMAIN cfg.services : n = at
  BY <1>2, <1>3
<1>5. PICK s \in ServiceType : s = cfg.services[n]
  BY <1>2
<1>6. PICK t : t = Completed(s)
  OBVIOUS
<1>7. /\ t \in ServiceType /\ t.name = s.name /\ SoundService(t)
      /\ s.name \notin Names(Before(cfg.services))
  BY <1>3, <1>4, <1>5, <1>6, CompletedSound
<1>8. /\ cfg'.strict = cfg.strict /\ cfg'.https = cfg.https
      /\ cfg'.certificates = cfg.certificates /\ cfg'.routes = cfg.routes
      /\ cfg'.services = [cfg.services EXCEPT ![n] = t]
  BY <1>2, <1>3, <1>4, <1>5, <1>6 DEF ConfigType
<1>9. cfg'.services \in Seq(ServiceType) /\ DOMAIN cfg'.services = DOMAIN cfg.services
  BY <1>2, <1>4, <1>7, <1>8
<1>10. cfg' \in ConfigType
  <2>1. cfg' = [cfg EXCEPT !.services = cfg'.services]
    BY <1>2, <1>3 DEF ConfigType
  <2>2. PICK list \in Seq(ServiceType) : list = cfg'.services
    BY <1>9
  <2>3. [cfg EXCEPT !.services = list] \in ConfigType
    BY <1>2 DEF ConfigType
  <2>4. QED
    BY <2>1, <2>2, <2>3
<1>11. StartTypeOK'
  BY <1>1, <1>2, <1>3, <1>8, <1>10 DEF StartInv, StartTypeOK
<1>12. \A j \in DOMAIN cfg.services : j < n => cfg.services[j].name # s.name
  BY <1>2, <1>3, <1>4, <1>7, BeforeFacts, SMTT(30) DEF Names
<1>13. \A j \in DOMAIN cfg.services : cfg'.services[j].name = cfg.services[j].name
  BY <1>2, <1>5, <1>7, <1>8
<1>14. ConfigInv'
  <2>1. cfg'.https => cfg'.certificates # <<>>
    BY <1>1, <1>3, <1>8 DEF StartInv, ConfigInv
  <2>2. ASSUME NEW i \in DOMAIN cfg.services, i < at + 1
        PROVE  /\ SoundService(cfg'.services[i])
               /\ \A j \in DOMAIN cfg.services :
                     j < i => cfg'.services[j].name # cfg'.services[i].name
    <3>1. CASE i = n
      BY <1>2, <1>5, <1>7, <1>8, <1>12, <1>13, <3>1
    <3>2. CASE i # n
      <4>1. i < at
        BY <1>2, <1>4, <2>2, <3>2
      <4>2. /\ SoundService(cfg.services[i])
            /\ \A j \in DOMAIN cfg.services :
                  j < i => cfg.services[j].name # cfg.services[i].name
        BY <1>1, <1>3, <4>1 DEF StartInv, ConfigInv, ServiceChecked
      <4>3. cfg'.services[i] = cfg.services[i]
        BY <1>2, <1>8, <3>2
      <4>4. QED
        BY <1>13, <4>2, <4>3
    <3>3. QED
      BY <3>1, <3>2
  <2>3. \A i \in DOMAIN cfg'.services : ServiceChecked(i)' =>
          /\ SoundService(cfg'.services[i])
          /\ \A j \in DOMAIN cfg'.services :
                j < i => cfg'.services[j].name # cfg'.services[i].name
    BY <1>3, <1>9, <2>2 DEF ServiceChecked, Loaded
  <2>4. \A i \in DOMAIN cfg.routes : ~RouteChecked(i)'
    BY <1>3 DEF RouteChecked, Loaded
  <2>5. QED
    BY <1>3, <1>8, <2>1, <2>3, <2>4 DEF ConfigInv, SoundService, HasTargets
<1>15. BalancersInv'
  BY <1>3 DEF BalancersInv
<1>16. QED
  BY <1>11, <1>14, <1>15 DEF StartInv

\* An iteration over the routes changes nothing.
LEMMA LoadRouteStart == StartInv /\ LoadRoute => StartInv'
<1>1. SUFFICES ASSUME StartInv, LoadRoute PROVE StartInv'
  OBVIOUS
<1>2. /\ at \in Nat \ {0} /\ cfg.routes \in Seq(RouteType)
      /\ cfg.services \in Seq(ServiceType)
  BY <1>1 DEF StartInv, StartTypeOK, ConfigType
<1>3. /\ scenario' = scenario /\ stage = "routes" /\ stage' = stage
      /\ at \in 1..Len(cfg.routes) /\ at' = at + 1
      /\ ~RouteError(cfg.routes[at], IDs(Before(cfg.routes)), Names(cfg.services))
      /\ UNCHANGED <<cfg, balancers>>
  BY <1>1, <1>2 DEF LoadRoute, Step
<1>4. StartTypeOK'
  BY <1>1, <1>2, <1>3 DEF StartInv, StartTypeOK
<1>5. \A j \in DOMAIN cfg.routes : j < at => cfg.routes[j].id # cfg.routes[at].id
  <2>1. cfg.routes[at].id \notin IDs(Before(cfg.routes))
    BY <1>3 DEF RouteError
  <2>2. at <= Len(cfg.routes)
    BY <1>3
  <2>3. QED
    BY <1>2, <2>1, <2>2, BeforeFacts DEF IDs
<1>6. \A i \in DOMAIN cfg.routes : i < at + 1 =>
          /\ cfg.routes[i].service \in Names(cfg.services)
          /\ \A j \in DOMAIN cfg.routes : j < i => cfg.routes[j].id # cfg.routes[i].id
  <2>1. SUFFICES ASSUME NEW i \in DOMAIN cfg.routes, i < at + 1
                 PROVE  /\ cfg.routes[i].service \in Names(cfg.services)
                        /\ \A j \in DOMAIN cfg.routes :
                              j < i => cfg.routes[j].id # cfg.routes[i].id
    OBVIOUS
  <2>2. CASE i = at
    BY <1>3, <1>5, <2>2 DEF RouteError
  <2>3. CASE i < at
    BY <1>1, <1>3, <2>3 DEF StartInv, ConfigInv, RouteChecked
  <2>4. QED
    BY <1>2, <2>1, <2>2, <2>3
<1>7. ConfigInv'
  <2>1. /\ cfg.https => cfg.certificates # <<>>
        /\ \A i \in DOMAIN cfg.services :
            /\ SoundService(cfg.services[i])
            /\ \A j \in DOMAIN cfg.services :
                j < i => cfg.services[j].name # cfg.services[i].name
    BY <1>1, <1>3 DEF StartInv, ConfigInv, ServiceChecked
  <2>2. \A i \in DOMAIN cfg.routes : RouteChecked(i)' => i < at + 1
    BY <1>3 DEF RouteChecked, Loaded
  <2>3. QED
    BY <1>3, <1>6, <2>1, <2>2 DEF ConfigInv, SoundService, HasTargets
<1>8. BalancersInv'
  BY <1>3 DEF BalancersInv
<1>9. QED
  BY <1>4, <1>7, <1>8 DEF StartInv

\* In strict mode an iteration of NewProxy that goes on has made a balancer:
\* LoadConfig has seen to it that there are targets.
LEMMA NewBalancerStart == StartInv /\ NewBalancer => StartInv'
<1>1. SUFFICES ASSUME StartInv, NewBalancer PROVE StartInv'
  OBVIOUS
<1>2. /\ at \in Nat \ {0} /\ cfg.services \in Seq(ServiceType)
  BY <1>1 DEF StartInv, StartTypeOK, ConfigType
<1>3. /\ scenario' = scenario /\ stage = "balancers" /\ stage' = stage
      /\ at \in 1..Len(cfg.services) /\ at' = at + 1 /\ cfg' = cfg
  BY <1>1, <1>2 DEF NewBalancer, Step
<1>4. StartTypeOK'
  BY <1>1, <1>2, <1>3 DEF StartInv, StartTypeOK
<1>5. ConfigInv'
  BY <1>1, <1>3
     DEF StartInv, ConfigInv, ServiceChecked, RouteChecked, Loaded, SoundService, HasTargets
<1>6. HasTargets(cfg.services[at])
  <2>1. at \in DOMAIN cfg.services
    BY <1>2, <1>3
  <2>2. SoundService(cfg.services[at])
    BY <1>1, <1>3, <2>1 DEF StartInv, ConfigInv, ServiceChecked, Loaded
  <2>3. QED
    BY <2>2 DEF SoundService
<1>7. ASSUME cfg.strict
      PROVE  DOMAIN balancers' = DOMAIN balancers \cup {cfg.services[at].name}
  BY <1>1, <1>6, <1>7 DEF NewBalancer, Strictly, With
<1>8. BalancersInv'
  <2>1. SUFFICES ASSUME cfg.strict, NEW i \in DOMAIN cfg.services, i < at + 1
                 PROVE  cfg.services[i].name \in DOMAIN balancers'
    BY <1>3 DEF BalancersInv
  <2>2. CASE i = at
    BY <1>7, <2>1, <2>2
  <2>3. CASE i < at
    <3>1. cfg.services[i].name \in DOMAIN balancers
      BY <1>1, <1>3, <2>1, <2>3 DEF StartInv, BalancersInv
    <3>2. QED
      BY <1>7, <2>1, <3>1
  <2>4. QED
    BY <1>2, <2>1, <2>2, <2>3
<1>9. QED
  BY <1>4, <1>5, <1>8 DEF StartInv

\* A loop that has come to its end has checked the whole list.
LEMMA ProceedStart ==
    ASSUME StartInv, StartupNext, scenario' = scenario, cfg' = cfg,
           balancers' = balancers, at' = 1,
           \/ /\ stage = "services" /\ at > Len(cfg.services) /\ stage' = "routes"
           \/ /\ stage = "routes" /\ at > Len(cfg.routes) /\ stage' = "balancers"
           \/ /\ stage = "balancers" /\ at > Len(cfg.services) /\ stage' = "chains"
           \/ /\ stage = "chains" /\ stage' = "serving"
    PROVE  StartInv'
<1>1. /\ at \in Nat \ {0} /\ cfg.services \in Seq(ServiceType)
      /\ cfg.routes \in Seq(RouteType)
  BY DEF StartInv, StartTypeOK, ConfigType
<1>2. StartTypeOK'
  BY DEF StartInv, StartTypeOK, Loaded
<1>3. /\ \A i \in DOMAIN cfg.services : ServiceChecked(i)' => ServiceChecked(i)
      /\ \A i \in DOMAIN cfg.routes : RouteChecked(i)' => RouteChecked(i)
  BY <1>1 DEF ServiceChecked, RouteChecked, Loaded
<1>4. ConfigInv'
  <2>1. cfg.https => cfg.certificates # <<>>
    BY DEF StartInv, ConfigInv, Loaded
  <2>2. \A i \in DOMAIN cfg.services : ServiceChecked(i)' =>
          /\ SoundService(cfg.services[i])
          /\ \A j \in DOMAIN cfg.services :
                j < i => cfg.services[j].name # cfg.services[i].name
    BY <1>3 DEF StartInv, ConfigInv
  <2>3. \A i \in DOMAIN cfg.routes : RouteChecked(i)' =>
          /\ cfg.routes[i].service \in Names(cfg.services)
          /\ \A j \in DOMAIN cfg.routes : j < i => cfg.routes[j].id # cfg.routes[i].id
    BY <1>3 DEF StartInv, ConfigInv
  <2>4. QED
    BY <2>1, <2>2, <2>3 DEF ConfigInv, SoundService, HasTargets
<1>5. BalancersInv'
  BY <1>1 DEF StartInv, BalancersInv
<1>6. QED
  BY <1>2, <1>4, <1>5 DEF StartInv

\* The invariant of main() is kept, and a gateway that serves stays as it is.
LEMMA NextStart == StartInv /\ StartupNext => StartInv' /\ stage # "serving"
<1>1. SUFFICES ASSUME StartInv, StartupNext PROVE StartInv' /\ stage # "serving"
  OBVIOUS
<1>2. CASE LoadGlobal
  <2>1. /\ stage = "global" /\ stage' = "services" /\ at' = at /\ ~GlobalError(cfg)
        /\ UNCHANGED <<scenario, cfg, balancers>>
    BY <1>2 DEF LoadGlobal
  <2>2. /\ cfg.https => cfg.certificates # <<>>
    BY <2>1 DEF GlobalError
  <2>3. StartTypeOK'
    BY <1>1, <2>1 DEF StartInv, StartTypeOK
  <2>4. ConfigInv' /\ BalancersInv'
    <3>1. at' = 1 /\ cfg.services \in Seq(ServiceType)
      BY <1>1, <2>1 DEF StartInv, ConfigInv, StartTypeOK, ConfigType
    <3>2. \A i \in DOMAIN cfg.services : ~ServiceChecked(i)'
      BY <2>1, <3>1 DEF ServiceChecked, Loaded
    <3>3. \A i \in DOMAIN cfg.routes : ~RouteChecked(i)'
      BY <2>1 DEF RouteChecked, Loaded
    <3>4. QED
      BY <2>1, <2>2, <3>2, <3>3 DEF ConfigInv, BalancersInv
  <2>5. QED
    BY <2>1, <2>3, <2>4 DEF StartInv
<1>3. CASE LoadService
  BY <1>1, <1>3, LoadServiceStart DEF LoadService, Step
<1>4. CASE LoadRoute
  BY <1>1, <1>4, LoadRouteStart DEF LoadRoute, Step
<1>5. CASE NewBalancer
  BY <1>1, <1>5, NewBalancerStart DEF NewBalancer, Step
<1>6. CASE LoadFails \/ NewProxyFails
  <2>1. /\ stage' = "exited" /\ UNCHANGED <<scenario, at, cfg, balancers>>
        /\ stage # "serving"
    BY <1>6 DEF LoadFails, NewProxyFails, Fatal
  <2>2. StartTypeOK'
    BY <1>1, <2>1 DEF StartInv, StartTypeOK
  <2>3. ConfigInv' /\ BalancersInv'
    BY <2>1 DEF ConfigInv, BalancersInv, ServiceChecked, RouteChecked, Loaded
  <2>4. QED
    BY <2>1, <2>2, <2>3 DEF StartInv
<1>7. CASE BuildRouteHandler
  <2>1. /\ stage = "chains" /\ stage' = stage /\ at' = at + 1
        /\ UNCHANGED <<scenario, cfg, balancers>>
    BY <1>7 DEF BuildRouteHandler, Step
  <2>2. StartTypeOK'
    BY <1>1, <2>1 DEF StartInv, StartTypeOK
  <2>3. ConfigInv' /\ BalancersInv'
    BY <1>1, <2>1 DEF StartInv, ConfigInv, BalancersInv, ServiceChecked, RouteChecked,
                      Loaded, SoundService, HasTargets
  <2>4. QED
    BY <2>1, <2>2, <2>3 DEF StartInv
<1>8. CASE Proceed("services", cfg.services, "routes")
  BY <1>1, <1>8, ProceedStart DEF Proceed
<1>9. CASE Proceed("routes", cfg.routes, "balancers")
  BY <1>1, <1>9, ProceedStart DEF Proceed
<1>10. CASE Proceed("balancers", cfg.services, "chains")
  BY <1>1, <1>10, ProceedStart DEF Proceed
<1>11. CASE Proceed("chains", cfg.routes, "serving")
  BY <1>1, <1>11, ProceedStart DEF Proceed
<1>12. QED
  BY <1>1, <1>2, <1>3, <1>4, <1>5, <1>6, <1>7, <1>8, <1>9, <1>10, <1>11 DEF StartupNext

-----------------------------------------------------------------------------
(* The chains buildRouteHandlers leaves, and the requests that run through them. *)

\* buildRouteHandlers has done with route i.
ChainBuilt(i) == (stage = "chains" /\ i < at) \/ stage = "serving"

\* A route has its own plugins as its chain, or none: no other route has its ID.
HandlersInv ==
    /\ stage \in {"global", "services", "routes", "balancers"} => handlers = <<>>
    /\ stage \in {"chains", "serving"} =>
        \A i \in DOMAIN cfg.routes :
            IF ChainBuilt(i) /\ Buildable(cfg.routes[i])
            THEN /\ cfg.routes[i].id \in DOMAIN handlers
                 /\ handlers[cfg.routes[i].id] = cfg.routes[i].plugins
            ELSE cfg.routes[i].id \notin DOMAIN handlers

\* The plugins a request of route i runs through.
PluginsOf(i) == IF Buildable(cfg.routes[i]) THEN cfg.routes[i].plugins ELSE <<>>

\* The content of route i for a request that is at plugin k with a path.
ContentAt(i, k, path) ==
    <<cfg.routes[i].service, Through(Rest(PluginsOf(i), k), path)>>

\* No request has an empty path on route i.
Kept(i) == NeverEmpty(cfg.routes[i])

RequestIds == Text \cup Request \cup {Nil}
SlotType == [route : Nat, pos : Nat, key : Seq(Text) \X Seq(Text)]
ContentType == Text \X Seq(Text)
EntryType == [slot : SlotType, content : ContentType, ids : Seq(RequestIds)]
CallType ==
    [pc : {"idle", "chain", "unwind"}, sent : QueryType \cup {Nil}, path : Seq(Text),
     id : RequestIds, route : Nat, pos : Nat \ {0}, writers : Seq(Seq(RequestIds)),
     fills : Seq(SlotType), ran : Seq(PluginType),
     status : {"none", "not found", "rejected", "unconfigured"} \cup Answers,
     content : ContentType \cup {Nil}]

\* The types of what requests carry and leave in the caches.
CallTypeOK == call \in [Request -> CallType] /\ cache \in SUBSET EntryType

\* A request that has been sent was routed by the configuration in force, and
\* has no answer while it is on its way in.
PhaseInv(c) ==
    /\ c.pc = "idle" => c = Idle
    /\ c.pc # "idle" => /\ stage = "serving"
                        /\ c.sent \in QueryType
                        /\ c.route = Matched(c.sent)
    /\ c.pc = "chain" => c.route # 0 /\ c.content = Nil /\ c.status = "none"
    /\ c.route # 0 => c.route \in DOMAIN cfg.routes
    /\ c.route = 0 => c.fills = <<>> /\ c.content = Nil

\* The plugins it has passed are those before its position.
OrderInv(c) ==
    c.route # 0 =>
        /\ c.pos \in 1..(Len(PluginsOf(c.route)) + 1)
        /\ c.ran = SubSeq(PluginsOf(c.route), 1, c.pos - 1)
        /\ c.content # Nil => \/ c.pos = Len(PluginsOf(c.route)) + 1
                              \/ PluginsOf(c.route)[c.pos].name = "caching"

\* Where a request is, its path leads to the content it was sent for, and if no
\* path is empty so do the slots it will fill and the caches it hits.
PathInv(c) ==
    c.route # 0 =>
        LET own == ContentAt(c.route, 1, c.sent.path) IN
        /\ ContentAt(c.route, c.pos, c.path) = own
        /\ c.status = "ok" => c.content \in ContentType
        /\ \A i \in DOMAIN c.fills : c.fills[i].route = c.route
        /\ Kept(c.route) =>
            /\ c.path # <<>>
            /\ c.content # Nil \/ c.status = "ok" => c.content = own
            /\ \A i \in DOMAIN c.fills :
                  ContentAt(c.route, c.fills[i].pos, c.fills[i].key[2]) = own

\* request-id comes before all caching plugins at position i of a list.
IDFirst(plugins, i) ==
    /\ plugins[i].name = "request-id"
    /\ \A j \in 1..i : plugins[j].name # "caching"

\* The writers are the client's and one for each slot to fill; the client's shows
\* the ID that a request-id outside all caches has set.
WriterInv(c) ==
    /\ Len(c.writers) = Len(c.fills) + 1
    /\ c.fills # <<>> => \E j \in DOMAIN c.ran : c.ran[j].name = "caching"
    /\ (\E i \in DOMAIN c.ran : IDFirst(c.ran, i)) =>
          ~Missing(c.id) /\ c.writers[1] # <<>> /\ c.writers[1][1] = c.id

\* Nothing is unconfigured in strict mode.
StrictInv(c) == cfg.strict => c.status # "unconfigured"

RequestInv(c) == PhaseInv(c) /\ OrderInv(c) /\ PathInv(c) /\ WriterInv(c) /\ StrictInv(c)

\* A cache holds for a slot what a request that reaches it was sent for.
Keyed(e) ==
    Kept(e.slot.route) => e.content = ContentAt(e.slot.route, e.slot.pos, e.slot.key[2])
CacheInv ==
    /\ stage # "serving" => cache = {}
    /\ \A e \in cache : Keyed(e)

\* The inductive invariant of the gateway.
RouterInv ==
    /\ StartInv /\ HandlersInv /\ CallTypeOK /\ CacheInv
    /\ \A r \in Request : RequestInv(call[r])

\* The lists of a configuration.
LEMMA ConfigLists ==
    ASSUME StartInv
    PROVE  /\ cfg.routes \in Seq(RouteType) /\ cfg.services \in Seq(ServiceType)
           /\ \A i \in DOMAIN cfg.routes : /\ cfg.routes[i].plugins \in Seq(PluginType)
                                           /\ PluginsOf(i) \in Seq(PluginType)
                                           /\ cfg.routes[i].service \in Text
<1>1. cfg.routes \in Seq(RouteType) /\ cfg.services \in Seq(ServiceType)
  BY DEF StartInv, StartTypeOK, ConfigType
<1>2. ASSUME NEW i \in DOMAIN cfg.routes
      PROVE  cfg.routes[i].plugins \in Seq(PluginType) /\ cfg.routes[i].service \in Text
  <2>1. cfg.routes[i] \in RouteType
    BY <1>1
  <2>2. QED
    BY <2>1 DEF RouteType
<1>3. <<>> \in Seq(PluginType)
  OBVIOUS
<1>4. \A i \in DOMAIN cfg.routes : PluginsOf(i) \in Seq(PluginType)
  BY <1>2, <1>3 DEF PluginsOf
<1>5. QED
  BY <1>1, <1>2, <1>4

\* buildRouteHandlers adds the chain of a route under an ID no other route has.
LEMMA BuildHandlers ==
    ASSUME StartInv, HandlersInv, BuildRouteHandler
    PROVE  HandlersInv'
<1>1. /\ stage = "chains" /\ stage' = stage /\ at' = at + 1 /\ cfg' = cfg
      /\ at <= Len(cfg.routes)
  BY DEF BuildRouteHandler, Step
<1>2. at \in Nat \ {0}
  BY DEF StartInv, StartTypeOK
<1>3. at \in DOMAIN cfg.routes
  BY <1>1, <1>2, ConfigLists
<1>4. PICK n \in DOMAIN cfg.routes : n = at
  BY <1>3
<1>5. ChainPlugins(cfg.routes[n].plugins) = cfg.routes[n].plugins
  BY ConfigLists, ChainIsList
<1>6. handlers' = IF Buildable(cfg.routes[n])
                  THEN With(handlers, cfg.routes[n].id, cfg.routes[n].plugins)
                  ELSE handlers
  BY <1>4, <1>5 DEF BuildRouteHandler
<1>7. \A i \in DOMAIN cfg.routes : i # n => cfg.routes[i].id # cfg.routes[n].id
  <2>1. SUFFICES ASSUME NEW i \in DOMAIN cfg.routes, i # n
                 PROVE  cfg.routes[i].id # cfg.routes[n].id
    OBVIOUS
  <2>2. RouteChecked(i) /\ RouteChecked(n)
    BY <1>1 DEF RouteChecked, Loaded
  <2>3. i < n \/ n < i
    BY <2>1, ConfigLists
  <2>4. QED
    BY <2>2, <2>3 DEF StartInv, ConfigInv
<1>8. ASSUME NEW i \in DOMAIN cfg.routes
      PROVE  IF i < at + 1 /\ Buildable(cfg.routes[i])
             THEN /\ cfg.routes[i].id \in DOMAIN handlers'
                  /\ handlers'[cfg.routes[i].id] = cfg.routes[i].plugins
             ELSE cfg.routes[i].id \notin DOMAIN handlers'
  <2>1. IF i < at /\ Buildable(cfg.routes[i])
        THEN /\ cfg.routes[i].id \in DOMAIN handlers
             /\ handlers[cfg.routes[i].id] = cfg.routes[i].plugins
        ELSE cfg.routes[i].id \notin DOMAIN handlers
    BY <1>1 DEF HandlersInv, ChainBuilt
  <2>2. i \in Nat
    BY ConfigLists
  <2>3. CASE i = n
    BY <1>2, <1>4, <1>6, <2>1, <2>3 DEF With
  <2>4. CASE i # n
    <3>1. cfg.routes[i].id # cfg.routes[n].id
      BY <1>7, <2>4
    <3>2. i < at + 1 <=> i < at
      BY <1>2, <1>4, <2>2, <2>4
    <3>3. QED
      BY <1>6, <2>1, <3>1, <3>2 DEF With
  <2>5. QED
    BY <2>3, <2>4
<1>9. \A i \in DOMAIN cfg.routes : Buildable(cfg.routes[i])' <=> Buildable(cfg.routes[i])
  BY <1>1 DEF Buildable, Available
<1>10. QED
  BY <1>1, <1>8, <1>9 DEF HandlersInv, ChainBuilt

\* No other step of main() touches the handlers.
LEMMA NextHandlers == StartInv /\ HandlersInv /\ StartupNext => HandlersInv'
<1>1. SUFFICES ASSUME StartInv, HandlersInv, StartupNext PROVE HandlersInv'
  OBVIOUS
<1>2. CASE BuildRouteHandler
  BY <1>1, <1>2, BuildHandlers
<1>3. CASE \/ LoadGlobal \/ LoadService \/ LoadRoute \/ LoadFails
           \/ NewBalancer \/ NewProxyFails
  <2>1. /\ stage \in {"global", "services", "routes", "balancers"}
        /\ stage' \in {"global", "services", "routes", "balancers", "exited"}
        /\ handlers' = handlers
    BY <1>3 DEF LoadGlobal, LoadService, LoadRoute, LoadFails, NewBalancer, NewProxyFails,
                Step, Fatal
  <2>2. QED
    BY <1>1, <2>1 DEF HandlersInv
<1>4. CASE \/ Proceed("services", cfg.services, "routes")
           \/ Proceed("routes", cfg.routes, "balancers")
  BY <1>1, <1>4 DEF Proceed, HandlersInv
<1>5. CASE Proceed("balancers", cfg.services, "chains")
  <2>1. /\ stage = "balancers" /\ stage' = "chains" /\ at' = 1 /\ cfg' = cfg
        /\ handlers' = <<>>
    BY <1>1, <1>5 DEF Proceed, HandlersInv
  <2>2. \A i \in DOMAIN cfg.routes : ~ChainBuilt(i)'
    BY <1>1, <2>1, ConfigLists DEF ChainBuilt
  <2>3. QED
    BY <2>1, <2>2 DEF HandlersInv
<1>6. CASE Proceed("chains", cfg.routes, "serving")
  <2>1. /\ stage = "chains" /\ stage' = "serving" /\ at > Len(cfg.routes) /\ cfg' = cfg
        /\ handlers' = handlers
    BY <1>6 DEF Proceed
  <2>2. at \in Nat
    BY <1>1 DEF StartInv, StartTypeOK
  <2>3. \A i \in DOMAIN cfg.routes : ChainBuilt(i) /\ ChainBuilt(i)'
    BY <1>1, <2>1, <2>2, ConfigLists DEF ChainBuilt
  <2>4. \A i \in DOMAIN cfg.routes : Buildable(cfg.routes[i])' <=> Buildable(cfg.routes[i])
    BY <2>1 DEF Buildable, Available
  <2>5. QED
    BY <1>1, <2>1, <2>3, <2>4 DEF HandlersInv
<1>7. QED
  BY <1>1, <1>2, <1>3, <1>4, <1>5, <1>6 DEF StartupNext

\* A request before it is sent.
LEMMA IdleCall == Idle \in CallType /\ RequestInv(Idle)
<1>1. /\ Idle.pc = "idle" /\ Idle.route = 0 /\ Idle.status = "none"
      /\ Idle.fills = <<>> /\ Idle.ran = <<>> /\ Idle.writers = <<<<>>>>
      /\ Idle.content = Nil
  BY DEF Idle
<1>2. /\ <<>> \in Seq(Text) /\ <<>> \in Seq(SlotType) /\ <<>> \in Seq(PluginType)
  OBVIOUS
<1>3. <<<<>>>> \in Seq(Seq(RequestIds))
  <2>1. PICK S : S = Seq(RequestIds)
    OBVIOUS
  <2>2. <<>> \in Seq(RequestIds)
    OBVIOUS
  <2>3. PICK e : e = <<>>
    OBVIOUS
  <2>4. e \in S
    BY <2>1, <2>2, <2>3
  <2>5. <<e>> \in Seq(S)
    BY <2>4
  <2>6. QED
    BY <2>1, <2>3, <2>5
<1>4. Nil \in RequestIds
  BY DEF RequestIds
<1>5. Idle \in CallType
  BY <1>2, <1>3, <1>4 DEF Idle, CallType
<1>6. PhaseInv(Idle) /\ OrderInv(Idle) /\ PathInv(Idle) /\ StrictInv(Idle)
  BY <1>1 DEF PhaseInv, OrderInv, PathInv, StrictInv
<1>7. WriterInv(Idle)
  BY <1>1 DEF WriterInv
<1>8. QED
  BY <1>5, <1>6, <1>7 DEF RequestInv

\* The chain a request runs through is that of its route.
LEMMA ChainOfRoute ==
    ASSUME StartInv, HandlersInv, stage = "serving", NEW r \in Request,
           call[r].route \in DOMAIN cfg.routes
    PROVE  Chain(r) = PluginsOf(call[r].route) /\ Chain(r) \in Seq(PluginType)
<1>1. Chain(r) = PluginsOf(call[r].route)
  BY DEF HandlersInv, ChainBuilt, Chain, RouteOf, PluginsOf
<1>2. QED
  BY <1>1, ConfigLists

\* What the loop over the routes finds: the first that matches.
LEMMA MatchedFirst ==
    ASSUME StartInv, NEW q
    PROVE  /\ Matched(q) \in 0..Len(cfg.routes)
           /\ Matched(q) # 0 => /\ Matched(q) \in DOMAIN cfg.routes
                                /\ Matches(cfg.routes[Matched(q)], q)
                                /\ cfg.routes[Matched(q)].service \in Names(cfg.services)
           /\ \A i \in DOMAIN cfg.routes :
                Matches(cfg.routes[i], q) /\ cfg.routes[i].service \in Names(cfg.services)
                => Matched(q) \in 1..i
<1>1. PICK n \in Nat : n = Len(cfg.routes) /\ DOMAIN cfg.routes = 1..n
  BY ConfigLists
<1>2. PICK I : I = {i \in 1..n : /\ Matches(cfg.routes[i], q)
                                 /\ cfg.routes[i].service \in Names(cfg.services)}
  OBVIOUS
<1>3. Matched(q) = IF I # {} THEN Min(I) ELSE 0
  BY <1>1, <1>2 DEF Matched, SelectInSeq
<1>4. I \in SUBSET (1..n)
  BY <1>2
<1>5. CASE I = {}
  BY <1>1, <1>2, <1>3, <1>5
<1>6. CASE I # {}
  <2>1. Min(I) \in I /\ \A y \in I : Min(I) <= y
    BY <1>4, <1>6, MinOf
  <2>2. PICK m : m = Min(I)
    OBVIOUS
  <2>3. m \in 1..n /\ m \in I /\ Matched(q) = m /\ \A y \in I : m <= y
    BY <1>3, <1>4, <1>6, <2>1, <2>2
  <2>4. /\ Matches(cfg.routes[m], q)
        /\ cfg.routes[m].service \in Names(cfg.services)
    BY <1>2, <2>3
  <2>5. \A i \in 1..n :
          Matches(cfg.routes[i], q) /\ cfg.routes[i].service \in Names(cfg.services)
          => m \in 1..i
    BY <1>2, <2>3
  <2>6. QED
    BY <1>1, <2>3, <2>4, <2>5
<1>7. QED
  BY <1>5, <1>6

-----------------------------------------------------------------------------
(* What the steps of a request do to it. *)

\* A plugin p lets c pass, as d; a caching plugin that has no answer first puts a
\* recorder in place, for slot.
Passed(c, d, p, slot) ==
    /\ c.pc = "chain" /\ d.pc = "chain"
    /\ d.sent = c.sent /\ d.route = c.route /\ d.status = c.status /\ d.content = c.content
    /\ d.pos = c.pos + 1 /\ d.ran = Append(c.ran, p) /\ d.path = StepPath(c.path, p)
    /\ \/ /\ p.name = "request-id"
          /\ ~Missing(d.id) /\ (~Missing(c.id) => d.id = c.id)
          /\ d.fills = c.fills
          /\ d.writers = [c.writers EXCEPT ![Len(c.writers)] = <<d.id>>]
       \/ /\ p.name = "caching"
          /\ d.id = c.id
          /\ d.fills = Append(c.fills, slot)
          /\ d.writers = Append(c.writers, <<>>)
       \/ /\ p.name # "request-id"
          /\ d.id = c.id /\ d.fills = c.fills /\ d.writers = c.writers

\* Somebody has answered c, which is now d.
Settled(c, d, ids) ==
    /\ c.pc = "chain" /\ d.pc = "unwind"
    /\ d.sent = c.sent /\ d.route = c.route /\ d.pos = c.pos /\ d.ran = c.ran
    /\ d.path = c.path /\ d.id = c.id /\ d.fills = c.fills
    /\ d.writers = [c.writers EXCEPT ![Len(c.writers)] = c.writers[Len(c.writers)] \o ids]

\* The step of one request r, whose record becomes d.
Becomes(r, d) == call' = [call EXCEPT ![r] = d] /\ UNCHANGED startVars

\* The fields of a request.
LEMMA CallFields ==
    ASSUME NEW c \in CallType
    PROVE  /\ c.pc \in {"idle", "chain", "unwind"} /\ c.sent \in QueryType \cup {Nil}
           /\ c.path \in Seq(Text) /\ c.id \in RequestIds /\ c.route \in Nat
           /\ c.pos \in Nat \ {0} /\ c.writers \in Seq(Seq(RequestIds))
           /\ c.fills \in Seq(SlotType) /\ c.ran \in Seq(PluginType)
           /\ c.content \in ContentType \cup {Nil}
  BY DEF CallType

\* b is c with some fields set, d is b one plugin further.
Set(c, b, path, id, writers, fills) ==
    /\ b \in CallType
    /\ b.pc = c.pc /\ b.sent = c.sent /\ b.route = c.route /\ b.status = c.status
    /\ b.content = c.content /\ b.pos = c.pos /\ b.ran = c.ran
    /\ b.path = path /\ b.id = id /\ b.writers = writers /\ b.fills = fills
Moved(b, d, p) ==
    /\ d \in CallType
    /\ d.pc = b.pc /\ d.sent = b.sent /\ d.route = b.route /\ d.status = b.status
    /\ d.content = b.content /\ d.pos = b.pos + 1 /\ d.ran = Append(b.ran, p)
    /\ d.path = b.path /\ d.id = b.id /\ d.writers = b.writers /\ d.fills = b.fills

LEMMA SetFields ==
    ASSUME NEW c \in CallType, NEW path \in Seq(Text), NEW id \in RequestIds,
           NEW writers \in Seq(Seq(RequestIds)), NEW fills \in Seq(SlotType)
    PROVE  Set(c, [c EXCEPT !.path = path, !.id = id, !.writers = writers, !.fills = fills],
               path, id, writers, fills)
  BY DEF CallType, Set

LEMMA MovedFields ==
    ASSUME NEW b \in CallType, NEW p \in PluginType
    PROVE  Moved(b, [b EXCEPT !.pos = @ + 1, !.ran = Append(@, p)], p)
<1>1. b.pos \in Nat \ {0} /\ b.ran \in Seq(PluginType)
  BY CallFields
<1>2. PICK pos, ran : /\ pos = b.pos + 1 /\ ran = Append(b.ran, p)
                      /\ pos \in Nat \ {0} /\ ran \in Seq(PluginType)
  <2>1. b.pos + 1 \in Nat \ {0} /\ Append(b.ran, p) \in Seq(PluginType)
    BY <1>1
  <2>2. QED
    BY <2>1
<1>3. PICK d : d = [b EXCEPT !.pos = pos, !.ran = ran]
  OBVIOUS
<1>4. [b EXCEPT !.pos = @ + 1, !.ran = Append(@, p)] = d
  BY <1>2, <1>3 DEF CallType
<1>5. /\ d \in CallType
      /\ d.pc = b.pc /\ d.sent = b.sent /\ d.route = b.route /\ d.status = b.status
      /\ d.content = b.content /\ d.pos = pos /\ d.ran = ran
      /\ d.path = b.path /\ d.id = b.id /\ d.writers = b.writers /\ d.fills = b.fills
  BY <1>2, <1>3 DEF CallType
<1>6. QED
  BY <1>2, <1>4, <1>5 DEF Moved

\* The innermost writer of a request.
LEMMA TopType ==
    ASSUME NEW S, NEW w \in Seq(Seq(S)), NEW ids \in Seq(S)
    PROVE  Top(w, ids) \in Seq(Seq(S)) /\ Len(Top(w, ids)) = Len(w)
<1>1. PICK T : T = Seq(S)
  OBVIOUS
<1>2. w \in Seq(T) /\ ids \in T
  BY <1>1
<1>3. PICK n \in Nat : n = Len(w) /\ DOMAIN w = 1..n
  BY <1>2
<1>4. \A i \in 1..n : w[i] \in T
  BY <1>2, <1>3
<1>5. [w EXCEPT ![n] = ids] \in [1..n -> T]
  BY <1>2, <1>3, <1>4
<1>6. PICK v \in [1..n -> T] : v = [w EXCEPT ![n] = ids]
  BY <1>5
<1>7. v \in Seq(T) /\ Len(v) = n
  OBVIOUS
<1>8. QED
  BY <1>1, <1>3, <1>6, <1>7 DEF Top

\* A request at a plugin of its chain.
LEMMA ReachesFacts ==
    ASSUME RouterInv, NEW r \in Request, NEW name, Reaches(r, name)
    PROVE  /\ call[r] \in CallType /\ call[r].pc = "chain" /\ stage = "serving"
           /\ call[r].sent \in QueryType
           /\ call[r].route \in DOMAIN cfg.routes
           /\ Chain(r) = PluginsOf(call[r].route)
           /\ Chain(r) \in Seq(PluginType)
           /\ call[r].pos \in 1..Len(Chain(r))
           /\ Chain(r)[call[r].pos] \in PluginType
           /\ Chain(r)[call[r].pos].name = name
<1>1. call[r] \in CallType /\ RequestInv(call[r])
  BY DEF RouterInv, CallTypeOK
<1>2. /\ call[r].pc = "chain" /\ call[r].pos <= Len(Chain(r))
      /\ Chain(r)[call[r].pos].name = name
  BY DEF Reaches
<1>3. /\ stage = "serving" /\ call[r].sent \in QueryType
      /\ call[r].route \in DOMAIN cfg.routes
  BY <1>1, <1>2 DEF RequestInv, PhaseInv
<1>4. Chain(r) = PluginsOf(call[r].route) /\ Chain(r) \in Seq(PluginType)
  BY <1>3, ChainOfRoute DEF RouterInv
<1>5. call[r].pos \in 1..Len(Chain(r))
  BY <1>1, <1>2, <1>4, CallFields
<1>6. Chain(r)[call[r].pos] \in PluginType
  BY <1>4, <1>5
<1>7. QED
  BY <1>1, <1>2, <1>3, <1>4, <1>5, <1>6

\* Request r goes on to the next plugin as d, with some fields set.
GoesOn(r, d, path, id, writers, fills) ==
    /\ Becomes(r, d)
    /\ d.pc = "chain" /\ d.sent = call[r].sent /\ d.route = call[r].route
    /\ d.status = call[r].status /\ d.content = call[r].content
    /\ d.pos = call[r].pos + 1
    /\ d.ran = Append(call[r].ran, Chain(r)[call[r].pos])
    /\ d.path = path /\ d.id = id /\ d.writers = writers /\ d.fills = fills

\* Pass with the fields of a request set.
LEMMA PassSet ==
    ASSUME RouterInv, NEW r \in Request, NEW name, Reaches(r, name),
           NEW path \in Seq(Text), NEW id \in RequestIds,
           NEW writers \in Seq(Seq(RequestIds)), NEW fills \in Seq(SlotType),
           NEW b, Set(call[r], b, path, id, writers, fills),
           Pass(r, b), UNCHANGED startVars
    PROVE  \E d \in CallType : GoesOn(r, d, path, id, writers, fills)
<1>1. PICK p \in PluginType : p = Chain(r)[call[r].pos]
  BY ReachesFacts
<1>2. b \in CallType /\ b.pos = call[r].pos /\ b.ran = call[r].ran
  BY DEF Set
<1>3. PICK d : d = [b EXCEPT !.pos = @ + 1, !.ran = Append(@, p)]
  OBVIOUS
<1>4. Moved(b, d, p)
  BY <1>2, <1>3, MovedFields
<1>5. call' = [call EXCEPT ![r] = d]
  BY <1>1, <1>2, <1>3 DEF Pass
<1>6. call[r].pc = "chain"
  BY ReachesFacts
<1>7. Becomes(r, d)
  BY <1>5 DEF Becomes
<1>8. QED
  BY <1>1, <1>4, <1>6, <1>7 DEF Moved, Set, GoesOn

\* Every way to let a request pass.
LEMMA PassEffect ==
    ASSUME RouterInv, NEW r \in Request,
           RequestID(r) \/ PathRewrite(r) \/ CacheBypass(r) \/ CacheMiss(r) \/ Judge(r, TRUE)
    PROVE  /\ cache' = cache
           /\ call[r].pos \in 1..Len(PluginsOf(call[r].route))
           /\ \E d \in CallType :
                /\ Becomes(r, d)
                /\ Passed(call[r], d, PluginsOf(call[r].route)[call[r].pos], Slot(r))
<1>1. PICK c : c = call[r]
  OBVIOUS
<1>2. c \in CallType
  BY <1>1 DEF RouterInv, CallTypeOK
<1>3. /\ c.path \in Seq(Text) /\ c.id \in RequestIds
      /\ c.writers \in Seq(Seq(RequestIds)) /\ c.fills \in Seq(SlotType)
  BY <1>2, CallFields
<1>4. /\ \A path \in Seq(Text) : Set(c, [c EXCEPT !.path = path],
                                     path, c.id, c.writers, c.fills)
      /\ Set(c, c, c.path, c.id, c.writers, c.fills)
  BY <1>2, <1>3 DEF Set, CallType
<1>5. \A id \in RequestIds, writers \in Seq(Seq(RequestIds)) :
          Set(c, [c EXCEPT !.id = id, !.writers = writers], c.path, id, writers, c.fills)
  BY <1>2, <1>3 DEF Set, CallType
<1>6. \A writers \in Seq(Seq(RequestIds)), fills \in Seq(SlotType) :
          Set(c, [c EXCEPT !.writers = writers, !.fills = fills], c.path, c.id, writers, fills)
  BY <1>2, <1>3 DEF Set, CallType
<1>7. CASE RequestID(r)
  <2>1. PICK id : id = IF Missing(c.id) THEN r ELSE c.id
    OBVIOUS
  <2>2. id \in RequestIds /\ ~Missing(id) /\ (~Missing(c.id) => id = c.id)
    BY <1>3, <2>1, RequestAssumption DEF RequestIds, Missing
  <2>3. PICK w : w = Top(c.writers, <<id>>)
    OBVIOUS
  <2>4. <<id>> \in Seq(RequestIds)
    BY <2>2
  <2>5. w \in Seq(Seq(RequestIds))
    BY <1>3, <2>3, <2>4, TopType
  <2>6. /\ Reaches(r, "request-id") /\ UNCHANGED startVars /\ cache' = cache
        /\ Pass(r, [c EXCEPT !.id = id, !.writers = w])
    BY <1>1, <1>2, <1>7, <2>1, <2>3 DEF RequestID, CallType
  <2>7. PICK b : b = [c EXCEPT !.id = id, !.writers = w]
    OBVIOUS
  <2>8. PICK d \in CallType :
              /\ Becomes(r, d)
              /\ d.pc = "chain" /\ d.sent = c.sent /\ d.route = c.route
              /\ d.status = c.status /\ d.content = c.content
              /\ d.pos = c.pos + 1
              /\ d.ran = Append(c.ran, Chain(r)[c.pos])
              /\ d.path = c.path /\ d.id = id /\ d.writers = w /\ d.fills = c.fills
    <3>1. Set(call[r], b, c.path, id, w, c.fills)
      BY <1>1, <1>5, <2>2, <2>5, <2>7
    <3>2. Pass(r, b) /\ UNCHANGED startVars /\ Reaches(r, "request-id")
      BY <2>6, <2>7
    <3>3. \E d \in CallType : GoesOn(r, d, c.path, id, w, c.fills)
      BY <1>3, <2>2, <2>5, <3>1, <3>2, PassSet
    <3>4. QED
      BY <1>1, <3>3 DEF GoesOn
  <2>9. Chain(r)[c.pos].name = "request-id" /\ c.pc = "chain"
    BY <1>1, <2>6, ReachesFacts
  <2>10. Passed(c, d, Chain(r)[c.pos], Slot(r))
    BY <2>2, <2>3, <2>8, <2>9 DEF Passed, StepPath, Top
  <2>11. QED
    BY <1>1, <2>6, <2>8, <2>10, ReachesFacts
<1>8. CASE PathRewrite(r)
  <2>1. /\ Reaches(r, "path-rewrite") /\ UNCHANGED startVars /\ cache' = cache
        /\ Pass(r, [c EXCEPT !.path = Rewritten(@, Chain(r)[c.pos])])
    BY <1>1, <1>8 DEF PathRewrite
  <2>2. PICK p \in PluginType : p = Chain(r)[c.pos]
    BY <1>1, <2>1, ReachesFacts
  <2>3. p.name = "path-rewrite" /\ c.pc = "chain"
    BY <1>1, <2>1, <2>2, ReachesFacts
  <2>4. PICK path \in Seq(Text) : path = StepPath(c.path, p)
    BY <1>3, StepPathType
  <2>5. path = Rewritten(c.path, p)
    BY <2>3, <2>4 DEF StepPath
  <2>6. PICK b : b = [c EXCEPT !.path = path]
    OBVIOUS
  <2>7. Pass(r, b)
    BY <1>2, <2>1, <2>2, <2>5, <2>6 DEF CallType
  <2>8. PICK d \in CallType :
              /\ Becomes(r, d)
              /\ d.pc = "chain" /\ d.sent = c.sent /\ d.route = c.route
              /\ d.status = c.status /\ d.content = c.content
              /\ d.pos = c.pos + 1
              /\ d.ran = Append(c.ran, Chain(r)[c.pos])
              /\ d.path = path /\ d.id = c.id /\ d.writers = c.writers /\ d.fills = c.fills
    <3>1. Set(call[r], b, path, c.id, c.writers, c.fills)
      BY <1>1, <1>4, <2>6
    <3>2. Pass(r, b) /\ UNCHANGED startVars /\ Reaches(r, "path-rewrite")
      BY <2>1, <2>7
    <3>3. \E d \in CallType : GoesOn(r, d, path, c.id, c.writers, c.fills)
      BY <1>3, <3>1, <3>2, PassSet
    <3>4. QED
      BY <1>1, <3>3 DEF GoesOn
  <2>9. Passed(c, d, Chain(r)[c.pos], Slot(r))
    BY <2>2, <2>3, <2>4, <2>8 DEF Passed
  <2>10. QED
    BY <1>1, <2>1, <2>8, <2>9, ReachesFacts
<1>9. CASE CacheBypass(r) \/ Judge(r, TRUE)
  <2>1. PICK name : /\ name \in {"caching", "authentication", "rate-limiting"}
                    /\ Reaches(r, name)
    BY <1>9 DEF CacheBypass, Judge
  <2>2. Pass(r, c) /\ UNCHANGED startVars /\ cache' = cache
    BY <1>1, <1>9 DEF CacheBypass, Judge
  <2>3. PICK d \in CallType :
              /\ Becomes(r, d)
              /\ d.pc = "chain" /\ d.sent = c.sent /\ d.route = c.route
              /\ d.status = c.status /\ d.content = c.content
              /\ d.pos = c.pos + 1
              /\ d.ran = Append(c.ran, Chain(r)[c.pos])
              /\ d.path = c.path /\ d.id = c.id /\ d.writers = c.writers /\ d.fills = c.fills
    <3>1. \E d \in CallType : GoesOn(r, d, c.path, c.id, c.writers, c.fills)
      BY <1>1, <1>3, <1>4, <2>1, <2>2, PassSet
    <3>2. QED
      BY <1>1, <3>1 DEF GoesOn
  <2>4. Chain(r)[c.pos].name = name /\ c.pc = "chain"
    BY <1>1, <2>1, ReachesFacts
  <2>5. Passed(c, d, Chain(r)[c.pos], Slot(r))
    BY <2>1, <2>3, <2>4 DEF Passed, StepPath
  <2>6. QED
    BY <1>1, <2>1, <2>2, <2>3, <2>5, ReachesFacts
<1>10. CASE CacheMiss(r)
  <2>1. /\ Reaches(r, "caching") /\ UNCHANGED startVars /\ cache' = cache
        /\ Pass(r, [c EXCEPT !.writers = Recording(@), !.fills = Append(@, Slot(r))])
    BY <1>1, <1>10 DEF CacheMiss
  <2>2. PICK slot : slot = Slot(r)
    OBVIOUS
  <2>3. slot \in SlotType
    <3>1. c.sent.host \in Seq(Text)
      BY <1>1, <2>1, ReachesFacts DEF QueryType
    <3>2. c.route \in Nat /\ c.pos \in Nat
      BY <1>2, CallFields
    <3>3. PICK uri : uri = RequestURI(c.path)
      OBVIOUS
    <3>4. uri \in Seq(Text)
      <4>1. PICK slash \in Text : slash = "/"
        BY ScenarioAssumption
      <4>2. <<slash>> \in Seq(Text)
        OBVIOUS
      <4>3. QED
        BY <1>3, <3>3, <4>1, <4>2 DEF RequestURI
    <3>5. QED
      BY <1>1, <2>2, <3>1, <3>2, <3>3, <3>4 DEF Slot, SlotType
  <2>4. PICK w, f : w = Append(c.writers, <<>>) /\ f = Append(c.fills, slot)
    OBVIOUS
  <2>5. w \in Seq(Seq(RequestIds)) /\ f \in Seq(SlotType)
    <3>1. PICK S, e : S = Seq(RequestIds) /\ e = <<>>
      OBVIOUS
    <3>2. e \in S
      <4>1. <<>> \in Seq(RequestIds)
        OBVIOUS
      <4>2. QED
        BY <3>1, <4>1
    <3>3. c.writers \in Seq(S)
      BY <1>3, <3>1
    <3>4. Append(c.writers, e) \in Seq(S)
      BY <3>2, <3>3
    <3>5. f \in Seq(SlotType)
      BY <1>3, <2>3, <2>4
    <3>6. QED
      BY <2>4, <3>1, <3>4, <3>5
  <2>6. PICK b : b = [c EXCEPT !.writers = w, !.fills = f]
    OBVIOUS
  <2>7. Pass(r, b)
    BY <1>2, <2>1, <2>2, <2>4, <2>6 DEF CallType, Recording
  <2>8. PICK d \in CallType :
              /\ Becomes(r, d)
              /\ d.pc = "chain" /\ d.sent = c.sent /\ d.route = c.route
              /\ d.status = c.status /\ d.content = c.content
              /\ d.pos = c.pos + 1
              /\ d.ran = Append(c.ran, Chain(r)[c.pos])
              /\ d.path = c.path /\ d.id = c.id /\ d.writers = w /\ d.fills = f
    <3>1. Set(call[r], b, c.path, c.id, w, f)
      BY <1>1, <1>6, <2>5, <2>6
    <3>2. Pass(r, b) /\ UNCHANGED startVars /\ Reaches(r, "caching")
      BY <2>1, <2>7
    <3>3. \E d \in CallType : GoesOn(r, d, c.path, c.id, w, f)
      BY <1>3, <2>5, <3>1, <3>2, PassSet
    <3>4. QED
      BY <1>1, <3>3 DEF GoesOn
  <2>9. Chain(r)[c.pos].name = "caching" /\ c.pc = "chain"
    BY <1>1, <2>1, ReachesFacts
  <2>10. Passed(c, d, Chain(r)[c.pos], Slot(r))
    BY <2>2, <2>4, <2>8, <2>9 DEF Passed, StepPath
  <2>11. QED
    BY <1>1, <2>1, <2>8, <2>10, ReachesFacts
<1>11. QED
  BY <1>7, <1>8, <1>9, <1>10

\* What an answer may be: none of the content, or the content of the position,
\* if paths are not empty.
Right(c, d) ==
    \/ /\ d.content = Nil /\ d.status # "ok"
       /\ d.status = "unconfigured" => cfg.routes[c.route].service \notin DOMAIN balancers
    \/ /\ d.content \in ContentType
       /\ Kept(c.route) => d.content = ContentAt(c.route, c.pos, c.path)
       /\ d.status # "unconfigured"
       /\ \/ c.pos = Len(PluginsOf(c.route)) + 1
          \/ PluginsOf(c.route)[c.pos].name = "caching"

\* d is c with this answer.
AnsweredAs(c, d, status, content, ids) ==
    /\ d \in CallType /\ Settled(c, d, ids)
    /\ d.status = status /\ d.content = content

\* What Answered makes of a request, typed and in full.
LEMMA AnsweredFields ==
    ASSUME NEW c \in CallType, c.pc = "chain", WriterInv(c),
           NEW status \in {"rejected", "unconfigured"} \cup Answers,
           NEW content \in ContentType \cup {Nil}, NEW ids \in Seq(RequestIds)
    PROVE  AnsweredAs(c, Answered(c, status, content, ids), status, content, ids)
<1>1. c.writers \in Seq(Seq(RequestIds)) /\ c.fills \in Seq(SlotType)
  BY CallFields
<1>2. Len(c.writers) \in 1..Len(c.writers)
  BY <1>1 DEF WriterInv
<1>3. c.writers[Len(c.writers)] \in Seq(RequestIds)
  BY <1>1, <1>2
<1>4. PICK new : new = c.writers[Len(c.writers)] \o ids
  OBVIOUS
<1>5. new \in Seq(RequestIds)
  BY <1>3, <1>4
<1>6. PICK w : w = Top(c.writers, new)
  OBVIOUS
<1>7. w \in Seq(Seq(RequestIds))
  BY <1>1, <1>5, <1>6, TopType
<1>8. PICK d : d = [c EXCEPT !.pc = "unwind", !.status = status, !.content = content,
                             !.writers = w]
  OBVIOUS
<1>9. Answered(c, status, content, ids) = d
  BY <1>4, <1>6, <1>8 DEF Answered, Replayed, Last, CallType
<1>10. /\ d \in CallType
       /\ d.pc = "unwind" /\ d.sent = c.sent /\ d.route = c.route /\ d.pos = c.pos
       /\ d.ran = c.ran /\ d.path = c.path /\ d.id = c.id /\ d.fills = c.fills
       /\ d.writers = w /\ d.status = status /\ d.content = content
  BY <1>7, <1>8 DEF CallType
<1>11. Settled(c, d, ids)
  BY <1>4, <1>6, <1>10 DEF Settled, Top
<1>12. QED
  BY <1>9, <1>10, <1>11 DEF AnsweredAs

\* A request whose chain is at its end.
LEMMA EndFacts ==
    ASSUME RouterInv, NEW r \in Request, call[r].pc = "chain", call[r].pos > Len(Chain(r))
    PROVE  /\ stage = "serving" /\ call[r].route \in DOMAIN cfg.routes
           /\ call[r].pos = Len(PluginsOf(call[r].route)) + 1
           /\ ContentAt(call[r].route, call[r].pos, call[r].path)
                = <<RouteOf(r).service, call[r].path>>
<1>1. PICK c : c = call[r]
  OBVIOUS
<1>2. c \in CallType /\ RequestInv(c)
  BY <1>1 DEF RouterInv, CallTypeOK
<1>3. stage = "serving" /\ c.route \in DOMAIN cfg.routes /\ c.route # 0
  BY <1>1, <1>2 DEF RequestInv, PhaseInv
<1>4. Chain(r) = PluginsOf(c.route) /\ PluginsOf(c.route) \in Seq(PluginType)
  BY <1>1, <1>3, ChainOfRoute DEF RouterInv
<1>5. c.pos \in 1..(Len(PluginsOf(c.route)) + 1)
  BY <1>2, <1>3 DEF RequestInv, OrderInv
<1>6. c.pos = Len(PluginsOf(c.route)) + 1 /\ c.pos \in Nat
  BY <1>1, <1>4, <1>5
<1>7. Through(Rest(PluginsOf(c.route), c.pos), c.path) = c.path
  BY <1>2, <1>4, <1>6, CallFields, ThroughEnd
<1>8. QED
  BY <1>1, <1>3, <1>6, <1>7 DEF ContentAt, RouteOf

\* Every way to answer a request.
LEMMA AnswerEffect ==
    ASSUME RouterInv, NEW r \in Request,
           \/ Judge(r, FALSE)
           \/ \E e \in cache : CacheHit(r, e)
           \/ Unconfigured(r)
           \/ \E answer \in Answers, echo \in BOOLEAN : Forward(r, answer, echo)
    PROVE  /\ cache' = cache
           /\ call[r].route \in DOMAIN cfg.routes
           /\ \E d \in CallType, ids \in Seq(RequestIds) :
                Becomes(r, d) /\ Settled(call[r], d, ids) /\ Right(call[r], d)
<1>1. PICK c : c = call[r]
  OBVIOUS
<1>2. c \in CallType /\ WriterInv(c)
  BY <1>1 DEF RouterInv, CallTypeOK, RequestInv
<1>3. PICK none : none = <<>> /\ none \in Seq(RequestIds)
  <2>1. <<>> \in Seq(RequestIds)
    OBVIOUS
  <2>2. QED
    BY <2>1
<1>4. CASE Judge(r, FALSE)
  <2>1. PICK name : Reaches(r, name)
    BY <1>4 DEF Judge
  <2>2. c.pc = "chain" /\ c.route \in DOMAIN cfg.routes
    BY <1>1, <2>1, ReachesFacts
  <2>3. PICK d : /\ d = Answered(c, "rejected", Nil, none)
                 /\ AnsweredAs(c, d, "rejected", Nil, none)
    <3>1. "rejected" \in {"rejected", "unconfigured"} \cup Answers
      BY DEF Answers
    <3>2. Nil \in ContentType \cup {Nil}
      OBVIOUS
    <3>3. AnsweredAs(c, Answered(c, "rejected", Nil, none), "rejected", Nil, none)
      BY <3>1, <3>2, <1>2, <1>3, <2>2, AnsweredFields
    <3>4. QED
      BY <3>3
  <2>4. Becomes(r, d) /\ cache' = cache
    BY <1>1, <1>3, <1>4, <2>3 DEF Judge, Becomes
  <2>5. Right(c, d)
    BY <2>3 DEF Right, AnsweredAs
  <2>6. QED
    BY <1>1, <1>3, <2>2, <2>3, <2>4, <2>5 DEF AnsweredAs
<1>5. CASE \E e \in cache : CacheHit(r, e)
  <2>1. PICK e \in cache : CacheHit(r, e)
    BY <1>5
  <2>2. /\ Reaches(r, "caching") /\ e.slot = Slot(r) /\ UNCHANGED startVars /\ cache' = cache
        /\ call' = [call EXCEPT ![r] = Answered(c, "ok", e.content, e.ids)]
    BY <1>1, <2>1 DEF CacheHit
  <2>3. /\ c.pc = "chain" /\ c.route \in DOMAIN cfg.routes
        /\ PluginsOf(c.route)[c.pos].name = "caching"
    BY <1>1, <2>2, ReachesFacts
  <2>4. e \in EntryType /\ Keyed(e)
    BY DEF RouterInv, CallTypeOK, CacheInv
  <2>5. e.content \in ContentType /\ e.ids \in Seq(RequestIds)
    BY <2>4 DEF EntryType
  <2>6. Kept(c.route) => e.content = ContentAt(c.route, c.pos, c.path)
    <3>1. SUFFICES ASSUME Kept(c.route) PROVE e.content = ContentAt(c.route, c.pos, c.path)
      OBVIOUS
    <3>2. c.path # <<>>
      <4>1. PathInv(c) /\ c.route # 0
        BY <1>1, <2>3 DEF RouterInv, RequestInv, PhaseInv
      <4>2. QED
        BY <3>1, <4>1 DEF PathInv
    <3>3. e.slot.route = c.route /\ e.slot.pos = c.pos /\ e.slot.key[2] = c.path
      BY <1>1, <2>2, <3>2 DEF Slot, RequestURI
    <3>4. QED
      BY <2>4, <3>1, <3>3 DEF Keyed
  <2>7. PICK d : /\ d = Answered(c, "ok", e.content, e.ids)
                 /\ AnsweredAs(c, d, "ok", e.content, e.ids)
    <3>1. "ok" \in {"rejected", "unconfigured"} \cup Answers
      BY DEF Answers
    <3>2. e.content \in ContentType \cup {Nil}
      BY <2>5
    <3>3. AnsweredAs(c, Answered(c, "ok", e.content, e.ids), "ok", e.content, e.ids)
      BY <3>1, <3>2, <1>2, <2>3, <2>5, AnsweredFields
    <3>4. QED
      BY <3>3
  <2>8. Becomes(r, d)
    BY <2>2, <2>7 DEF Becomes
  <2>9. Right(c, d)
    BY <2>3, <2>5, <2>6, <2>7 DEF Right, AnsweredAs
  <2>10. QED
    BY <1>1, <2>2, <2>3, <2>5, <2>7, <2>8, <2>9 DEF AnsweredAs
<1>6. CASE Unconfigured(r)
  <2>1. /\ c.pc = "chain" /\ c.pos > Len(Chain(r)) /\ UNCHANGED startVars /\ cache' = cache
        /\ RouteOf(r).service \notin DOMAIN balancers
        /\ call' = [call EXCEPT ![r] = Answered(c, "unconfigured", Nil, none)]
    BY <1>1, <1>3, <1>6 DEF Unconfigured
  <2>2. c.route \in DOMAIN cfg.routes
    BY <1>1, <2>1, EndFacts
  <2>3. PICK d : /\ d = Answered(c, "unconfigured", Nil, none)
                 /\ AnsweredAs(c, d, "unconfigured", Nil, none)
    <3>1. "unconfigured" \in {"rejected", "unconfigured"} \cup Answers
      BY DEF Answers
    <3>2. Nil \in ContentType \cup {Nil}
      OBVIOUS
    <3>3. AnsweredAs(c, Answered(c, "unconfigured", Nil, none), "unconfigured", Nil, none)
      BY <3>1, <3>2, <1>2, <1>3, <2>1, AnsweredFields
    <3>4. QED
      BY <3>3
  <2>4. Becomes(r, d)
    BY <2>1, <2>3 DEF Becomes
  <2>5. Right(c, d)
    BY <1>1, <2>1, <2>3 DEF Right, RouteOf, AnsweredAs
  <2>6. QED
    BY <1>1, <1>3, <2>1, <2>2, <2>3, <2>4, <2>5 DEF AnsweredAs
<1>7. CASE \E answer \in Answers, echo \in BOOLEAN : Forward(r, answer, echo)
  <2>1. PICK answer \in Answers, echo \in BOOLEAN : Forward(r, answer, echo)
    BY <1>7
  <2>2. PICK content, ids :
            /\ content = IF answer = "error" THEN Nil ELSE <<RouteOf(r).service, c.path>>
            /\ ids = IF echo /\ c.id # Nil THEN <<c.id>> ELSE <<>>
    OBVIOUS
  <2>3. /\ c.pc = "chain" /\ c.pos > Len(Chain(r)) /\ UNCHANGED startVars /\ cache' = cache
        /\ call' = [call EXCEPT ![r] = Answered(c, answer, content, ids)]
    BY <1>1, <2>1, <2>2 DEF Forward
  <2>4. /\ c.route \in DOMAIN cfg.routes
        /\ c.pos = Len(PluginsOf(c.route)) + 1
        /\ ContentAt(c.route, c.pos, c.path) = <<RouteOf(r).service, c.path>>
    BY <1>1, <2>3, EndFacts
  <2>5. content \in ContentType \cup {Nil}
    <3>1. RouteOf(r).service \in Text
      BY <1>1, <2>4, ConfigLists DEF RouteOf, RouterInv
    <3>2. c.path \in Seq(Text)
      BY <1>2, CallFields
    <3>3. QED
      BY <2>2, <3>1, <3>2 DEF ContentType
  <2>6. ids \in Seq(RequestIds)
    <3>1. c.id \in RequestIds
      BY <1>2, CallFields
    <3>2. PICK i \in RequestIds : i = c.id
      BY <3>1
    <3>3. <<i>> \in Seq(RequestIds)
      OBVIOUS
    <3>4. QED
      BY <1>3, <2>2, <3>2, <3>3
  <2>7. PICK d : /\ d = Answered(c, answer, content, ids)
                 /\ AnsweredAs(c, d, answer, content, ids)
    <3>1. answer \in {"rejected", "unconfigured"} \cup Answers
      BY <2>1 DEF Answers
    <3>2. content \in ContentType \cup {Nil}
      BY <2>5
    <3>3. AnsweredAs(c, Answered(c, answer, content, ids), answer, content, ids)
      BY <3>1, <3>2, <1>2, <2>1, <2>3, <2>5, <2>6, AnsweredFields
    <3>4. QED
      BY <3>3
  <2>8. Becomes(r, d)
    BY <2>3, <2>7 DEF Becomes
  <2>9. Right(c, d)
    <3>1. CASE answer = "error"
      BY <2>2, <2>7, <3>1 DEF Right, AnsweredAs
    <3>2. CASE answer # "error"
      <4>1. content = <<RouteOf(r).service, c.path>> /\ content \in ContentType
        <5>1. RouteOf(r).service \in Text
          BY <1>1, <2>4, ConfigLists DEF RouteOf, RouterInv
        <5>2. c.path \in Seq(Text)
          BY <1>2, CallFields
        <5>3. QED
          BY <2>2, <3>2, <5>1, <5>2 DEF ContentType
      <4>2. answer # "unconfigured"
        BY <2>1 DEF Answers
      <4>3. QED
        BY <2>4, <2>7, <4>1, <4>2 DEF Right, AnsweredAs
    <3>3. QED
      BY <3>1, <3>2
  <2>10. QED
    BY <1>1, <2>3, <2>4, <2>6, <2>7, <2>8, <2>9 DEF AnsweredAs
<1>8. QED
  BY <1>4, <1>5, <1>6, <1>7

-----------------------------------------------------------------------------
(* Matching: what the code computes is what the patterns promise. *)

\* Sequences are equal if they are element by element.
LEMMA SameSeq ==
    ASSUME NEW S, NEW s \in Seq(S), NEW t \in Seq(S), Len(s) = Len(t),
           \A i \in 1..Len(s) : s[i] = t[i]
    PROVE  s = t
  OBVIOUS

\* t is a prefix of s.
LEMMA PrefixForm ==
    ASSUME NEW S, NEW s \in Seq(S), NEW t \in Seq(S)
    PROVE  HasPrefix(s, t) <=> Len(t) <= Len(s) /\ \A i \in 1..Len(t) : s[i] = t[i]
<1>1. PICK n \in Nat : n = Len(t)
  OBVIOUS
<1>2. SubSeq(t, 1, n) = t
  BY <1>1
<1>3. HasPrefix(s, t) <=> n <= Len(s) /\ t = SubSeq(s, 1, n)
  BY <1>1, <1>2 DEF HasPrefix, IsPrefix
<1>4. ASSUME n <= Len(s) PROVE t = SubSeq(s, 1, n) <=> \A i \in 1..n : s[i] = t[i]
  <2>1. PICK u : u = SubSeq(s, 1, n)
    OBVIOUS
  <2>2. u \in Seq(S) /\ Len(u) = n /\ \A i \in 1..n : u[i] = s[i]
    BY <1>1, <1>4, <2>1
  <2>3. (\A i \in 1..n : u[i] = t[i]) => u = t
    BY <1>1, <2>2, SameSeq
  <2>4. QED
    BY <2>1, <2>2, <2>3
<1>5. QED
  BY <1>1, <1>3, <1>4

\* t is a suffix of s.
LEMMA SuffixForm ==
    ASSUME NEW S, NEW s \in Seq(S), NEW t \in Seq(S)
    PROVE  HasSuffix(s, t) <=>
             /\ Len(t) <= Len(s)
             /\ \A i \in 1..Len(t) : s[Len(s) - Len(t) + i] = t[i]
<1>1. PICK m \in Nat, n \in Nat : m = Len(s) /\ n = Len(t)
  OBVIOUS
<1>2. HasSuffix(s, t) <=> n <= m /\ SubSeq(s, m - n + 1, m) = t
  BY <1>1 DEF HasSuffix
<1>3. ASSUME n <= m
      PROVE  SubSeq(s, m - n + 1, m) = t <=> \A i \in 1..n : s[m - n + i] = t[i]
  <2>1. PICK u : u = SubSeq(s, m - n + 1, m)
    OBVIOUS
  <2>2. u \in Seq(S) /\ Len(u) = n /\ \A i \in 1..n : u[i] = s[m - n + i]
    BY <1>1, <1>3, <2>1
  <2>3. (\A i \in 1..n : u[i] = t[i]) => u = t
    BY <1>1, <2>2, SameSeq
  <2>4. QED
    BY <2>1, <2>2, <2>3
<1>4. QED
  BY <1>1, <1>2, <1>3

\* The characters patterns end in, behind a prefix.
LEMMA EndsIn ==
    ASSUME NEW S, NEW s \in Seq(S), NEW a \in S
    PROVE  HasSuffix(s, <<a>>) <=> Len(s) >= 1 /\ s[Len(s)] = a
<1>1. PICK t : t = <<a>>
  OBVIOUS
<1>2. t \in Seq(S) /\ Len(t) = 1 /\ t[1] = a
  BY <1>1
<1>3. HasSuffix(s, t) <=>
         Len(t) <= Len(s) /\ \A i \in 1..Len(t) : s[Len(s) - Len(t) + i] = t[i]
  <2>1. t \in Seq(S)
    BY <1>2
  <2>2. QED
    BY <2>1, SuffixForm
<1>4. PICK m \in Nat : m = Len(s)
  OBVIOUS
<1>5. HasSuffix(s, t) <=> m >= 1 /\ s[m] = a
  BY <1>2, <1>3, <1>4
<1>6. QED
  BY <1>1, <1>4, <1>5

LEMMA EndsInTwo ==
    ASSUME NEW S, NEW s \in Seq(S), NEW a \in S, NEW b \in S
    PROVE  HasSuffix(s, <<a, b>>) <=>
             Len(s) >= 2 /\ s[Len(s) - 1] = a /\ s[Len(s)] = b
<1>1. PICK t : t = <<a, b>>
  OBVIOUS
<1>2. t \in Seq(S) /\ Len(t) = 2 /\ t[1] = a /\ t[2] = b
  BY <1>1
<1>3. HasSuffix(s, t) <=>
         Len(t) <= Len(s) /\ \A i \in 1..Len(t) : s[Len(s) - Len(t) + i] = t[i]
  <2>1. t \in Seq(S)
    BY <1>2
  <2>2. QED
    BY <2>1, SuffixForm
<1>4. PICK m \in Nat : m = Len(s)
  OBVIOUS
<1>5. HasSuffix(s, t) <=> m >= 2 /\ \A i \in 1..2 : s[m - 2 + i] = t[i]
  BY <1>2, <1>3, <1>4
<1>6. HasSuffix(s, t) <=> m >= 2 /\ s[m - 1] = a /\ s[m] = b
  <2>1. PICK j \in Int : j = m - 2
    BY <1>4
  <2>2. j + 1 = m - 1 /\ j + 2 = m
    BY <1>4, <2>1
  <2>3. (\A i \in 1..2 : s[j + i] = t[i]) <=> s[j + 1] = t[1] /\ s[j + 2] = t[2]
    <3>1. \A i \in 1..2 : i = 1 \/ i = 2
      OBVIOUS
    <3>2. 1 \in 1..2 /\ 2 \in 1..2
      OBVIOUS
    <3>3. QED
      BY <3>1, <3>2
  <2>4. HasSuffix(s, t) <=> m >= 2 /\ \A i \in 1..2 : s[j + i] = t[i]
    BY <1>5, <2>1
  <2>5. QED
    BY <1>2, <2>2, <2>3, <2>4
<1>7. QED
  BY <1>1, <1>4, <1>6

\* A sequence with one or two elements behind it.
LEMMA AndOne ==
    ASSUME NEW S, NEW p \in Seq(S), NEW a \in S
    PROVE  /\ p \o <<a>> \in Seq(S) /\ Len(p \o <<a>>) = Len(p) + 1
           /\ \A i \in 1..Len(p) : (p \o <<a>>)[i] = p[i]
           /\ (p \o <<a>>)[Len(p) + 1] = a
<1>1. <<a>> \in Seq(S) /\ Len(<<a>>) = 1 /\ <<a>>[1] = a
  OBVIOUS
<1>2. QED
  BY <1>1

LEMMA AndTwo ==
    ASSUME NEW S, NEW p \in Seq(S), NEW a \in S, NEW b \in S
    PROVE  /\ p \o <<a, b>> \in Seq(S) /\ Len(p \o <<a, b>>) = Len(p) + 2
           /\ \A i \in 1..Len(p) : (p \o <<a, b>>)[i] = p[i]
           /\ (p \o <<a, b>>)[Len(p) + 1] = a /\ (p \o <<a, b>>)[Len(p) + 2] = b
<1>1. /\ <<a, b>> \in Seq(S) /\ Len(<<a, b>>) = 2
      /\ <<a, b>>[1] = a /\ <<a, b>>[2] = b
  OBVIOUS
<1>2. QED
  BY <1>1

\* s is p with these elements behind it.
LEMMA IsAndOne ==
    ASSUME NEW S, NEW s \in Seq(S), NEW p \in Seq(S), NEW a \in S
    PROVE  s = p \o <<a>> <=> /\ Len(s) = Len(p) + 1
                              /\ \A i \in 1..Len(p) : s[i] = p[i]
                              /\ s[Len(p) + 1] = a
<1>1. PICK n \in Nat : n = Len(p)
  OBVIOUS
<1>2. PICK t : t = p \o <<a>>
  OBVIOUS
<1>3. t \in Seq(S) /\ Len(t) = n + 1 /\ (\A i \in 1..n : t[i] = p[i]) /\ t[n + 1] = a
  BY <1>1, <1>2, AndOne
<1>4. ASSUME Len(s) = n + 1, \A i \in 1..n : s[i] = p[i], s[n + 1] = a PROVE s = t
  <2>1. \A i \in 1..(n + 1) : i \in 1..n \/ i = n + 1
    OBVIOUS
  <2>2. \A i \in 1..(n + 1) : s[i] = t[i]
    BY <1>3, <1>4, <2>1
  <2>3. QED
    BY <1>3, <1>4, <2>2, SameSeq
<1>5. QED
  BY <1>1, <1>2, <1>3, <1>4

LEMMA IsAndTwo ==
    ASSUME NEW S, NEW s \in Seq(S), NEW p \in Seq(S), NEW a \in S, NEW b \in S
    PROVE  s = p \o <<a, b>> <=> /\ Len(s) = Len(p) + 2
                                 /\ \A i \in 1..Len(p) : s[i] = p[i]
                                 /\ s[Len(p) + 1] = a /\ s[Len(p) + 2] = b
<1>1. PICK n \in Nat : n = Len(p)
  OBVIOUS
<1>2. PICK t : t = p \o <<a, b>>
  OBVIOUS
<1>3. /\ t \in Seq(S) /\ Len(t) = n + 2 /\ (\A i \in 1..n : t[i] = p[i])
      /\ t[n + 1] = a /\ t[n + 2] = b
  BY <1>1, <1>2, AndTwo
<1>4. ASSUME Len(s) = n + 2, \A i \in 1..n : s[i] = p[i], s[n + 1] = a, s[n + 2] = b
      PROVE  s = t
  <2>1. \A i \in 1..(n + 2) : i \in 1..n \/ i = n + 1 \/ i = n + 2
    OBVIOUS
  <2>2. \A i \in 1..(n + 2) : s[i] = t[i]
    BY <1>3, <1>4, <2>1
  <2>3. QED
    BY <1>3, <1>4, <2>2, SameSeq
<1>5. QED
  BY <1>1, <1>2, <1>3, <1>4

\* What remains when the end is cut off.
LEMMA DropForm ==
    ASSUME NEW S, NEW s \in Seq(S), NEW k \in 0..Len(s)
    PROVE  /\ Drop(s, k) \in Seq(S) /\ Len(Drop(s, k)) = Len(s) - k
           /\ \A i \in 1..(Len(s) - k) : Drop(s, k)[i] = s[i]
  BY DEF Drop

\* A pattern that ends in a slash and a star.
LEMMA UnderPath ==
    ASSUME NEW S, {"/", "*"} \subseteq S, NEW path \in Seq(S), NEW pattern \in Seq(S)
    PROVE  (/\ HasSuffix(pattern, <<"/", "*">>)
            /\ path = Drop(pattern, 2) \/ HasPrefix(path, Drop(pattern, 2) \o <<"/">>))
           <=> \E p \in Ancestors(path) : pattern = p \o <<"/", "*">>
<1>1. PICK n \in Nat, m \in Nat : n = Len(path) /\ m = Len(pattern)
  OBVIOUS
<1>2. HasSuffix(pattern, <<"/", "*">>) <=>
         m >= 2 /\ pattern[m - 1] = "/" /\ pattern[m] = "*"
  <2>1. "/" \in S /\ "*" \in S
    OBVIOUS
  <2>2. QED
    BY <1>1, <2>1, EndsInTwo
<1>3. ASSUME NEW p \in Seq(S)
      PROVE  pattern = p \o <<"/", "*">> <=>
                /\ m = Len(p) + 2 /\ (\A i \in 1..Len(p) : pattern[i] = p[i])
                /\ pattern[Len(p) + 1] = "/" /\ pattern[Len(p) + 2] = "*"
  <2>1. PICK a \in S, b \in S : a = "/" /\ b = "*"
    OBVIOUS
  <2>2. pattern = p \o <<a, b>> <=>
                /\ Len(pattern) = Len(p) + 2 /\ (\A i \in 1..Len(p) : pattern[i] = p[i])
                /\ pattern[Len(p) + 1] = a /\ pattern[Len(p) + 2] = b
    BY IsAndTwo, SMTT(30)
  <2>3. QED
    BY <1>1, <2>1, <2>2
<1>0. ASSUME m >= 2
      PROVE  /\ Drop(pattern, 2) \in Seq(S) /\ Len(Drop(pattern, 2)) = m - 2
             /\ \A i \in 1..(m - 2) : Drop(pattern, 2)[i] = pattern[i]
  <2>1. 2 \in 0..Len(pattern)
    BY <1>0, <1>1
  <2>2. QED
    BY <1>1, <2>1, DropForm
<1>4. ASSUME HasSuffix(pattern, <<"/", "*">>), path = Drop(pattern, 2)
      PROVE  \E p \in Ancestors(path) : pattern = p \o <<"/", "*">>
  <2>1. m >= 2 /\ pattern[m - 1] = "/" /\ pattern[m] = "*"
    BY <1>2, <1>4
  <2>2. n = m - 2 /\ \A i \in 1..n : pattern[i] = path[i]
    BY <1>0, <1>1, <1>4, <2>1
  <2>3. m = n + 2 /\ n + 1 = m - 1 /\ n + 2 = m
    BY <1>1, <2>1, <2>2
  <2>4. pattern = path \o <<"/", "*">>
    BY <1>1, <1>3, <2>1, <2>2, <2>3
  <2>5. path \in Ancestors(path)
    BY DEF Ancestors
  <2>6. QED
    BY <2>4, <2>5
<1>5. ASSUME HasSuffix(pattern, <<"/", "*">>), HasPrefix(path, Drop(pattern, 2) \o <<"/">>)
      PROVE  \E p \in Ancestors(path) : pattern = p \o <<"/", "*">>
  <2>1. m >= 2 /\ pattern[m - 1] = "/" /\ pattern[m] = "*"
    BY <1>2, <1>5
  <2>2. PICK base : base = Drop(pattern, 2)
    OBVIOUS
  <2>3. base \in Seq(S) /\ Len(base) = m - 2 /\ \A i \in 1..(m - 2) : base[i] = pattern[i]
    BY <1>0, <2>1, <2>2
  <2>4. PICK t : t = base \o <<"/">>
    OBVIOUS
  <2>5. /\ t \in Seq(S) /\ Len(t) = m - 1 /\ (\A i \in 1..(m - 2) : t[i] = base[i])
        /\ t[m - 1] = "/"
    <3>1. "/" \in S /\ (m - 2) + 1 = m - 1
      BY <1>1
    <3>2. QED
      BY <2>3, <2>4, <3>1, AndOne
  <2>6. HasPrefix(path, t)
    BY <1>5, <2>2, <2>4
  <2>7. m - 1 <= n /\ (\A i \in 1..(m - 2) : path[i] = pattern[i]) /\ path[m - 1] = "/"
    <3>1. Len(t) <= Len(path) /\ \A i \in 1..Len(t) : path[i] = t[i]
      BY <2>5, <2>6, PrefixForm
    <3>2. m - 1 \in 1..(m - 1) /\ \A i \in 1..(m - 2) : i \in 1..(m - 1)
      BY <1>1, <2>1
    <3>3. QED
      BY <1>1, <2>3, <2>5, <3>1, <3>2
  <2>8. PICK p : p = SubSeq(path, 1, m - 1 - 1)
    OBVIOUS
  <2>9. p \in Seq(S) /\ Len(p) = m - 2 /\ \A i \in 1..(m - 2) : p[i] = path[i]
    BY <1>1, <2>1, <2>7, <2>8
  <2>10. p \in Ancestors(path)
    <3>1. m - 1 \in DOMAIN path
      BY <1>1, <2>1, <2>7
    <3>2. QED
      BY <2>7, <2>8, <3>1 DEF Ancestors
  <2>11. m = (m - 2) + 2 /\ (m - 2) + 1 = m - 1 /\ (m - 2) + 2 = m
    BY <1>1
  <2>12. pattern = p \o <<"/", "*">>
    BY <1>3, <2>1, <2>7, <2>9, <2>11
  <2>13. QED
    BY <2>10, <2>12
<1>6. ASSUME NEW p \in Ancestors(path), pattern = p \o <<"/", "*">>
      PROVE  /\ HasSuffix(pattern, <<"/", "*">>)
             /\ path = Drop(pattern, 2) \/ HasPrefix(path, Drop(pattern, 2) \o <<"/">>)
  <2>1. p = path \/ \E j \in 1..n : path[j] = "/" /\ p = SubSeq(path, 1, j - 1)
    BY <1>1, <1>6 DEF Ancestors
  <2>2. p \in Seq(S)
    BY <1>1, <2>1
  <2>3. PICK k \in Nat : k = Len(p)
    BY <2>2
  <2>4. /\ m = k + 2 /\ (\A i \in 1..k : pattern[i] = p[i])
        /\ pattern[k + 1] = "/" /\ pattern[k + 2] = "*"
    BY <1>3, <1>6, <2>2, <2>3
  <2>5. m - 1 = k + 1 /\ m >= 2 /\ m - 2 = k
    BY <2>3, <2>4
  <2>6. HasSuffix(pattern, <<"/", "*">>)
    BY <1>2, <2>4, <2>5
  <2>7. Drop(pattern, 2) = p
    <3>1. PICK base : base = Drop(pattern, 2)
      OBVIOUS
    <3>2. base \in Seq(S) /\ Len(base) = m - 2 /\ \A i \in 1..(m - 2) : base[i] = pattern[i]
      BY <1>0, <2>5, <3>1
    <3>3. \A i \in 1..k : base[i] = p[i]
      BY <2>4, <2>5, <3>2
    <3>4. base = p
      BY <2>2, <2>3, <2>5, <3>2, <3>3, SameSeq
    <3>5. QED
      BY <3>1, <3>4
  <2>8. ASSUME NEW j \in 1..n, path[j] = "/", p = SubSeq(path, 1, j - 1)
        PROVE  HasPrefix(path, p \o <<"/">>)
    <3>1. k = j - 1 /\ \A i \in 1..k : p[i] = path[i]
      BY <1>1, <2>3, <2>8
    <3>2. PICK t : t = p \o <<"/">>
      OBVIOUS
    <3>3. t \in Seq(S) /\ Len(t) = j /\ (\A i \in 1..k : t[i] = p[i]) /\ t[j] = "/"
      <4>1. "/" \in S /\ k + 1 = j
        BY <3>1
      <4>2. QED
        BY <2>2, <2>3, <3>2, <4>1, AndOne
    <3>4. \A i \in 1..j : i \in 1..k \/ i = j
      BY <3>1
    <3>5. \A i \in 1..j : path[i] = t[i]
      BY <2>8, <3>1, <3>3, <3>4
    <3>6. HasPrefix(path, t)
      BY <1>1, <3>3, <3>5, PrefixForm
    <3>7. QED
      BY <3>2, <3>6
  <2>9. QED
    BY <2>1, <2>6, <2>7, <2>8
<1>7. QED
  BY <1>4, <1>5, <1>6

\* A pattern that ends in a star, but not after a slash.
LEMMA StarPath ==
    ASSUME NEW S, {"/", "*"} \subseteq S, NEW path \in Seq(S), NEW pattern \in Seq(S)
    PROVE  (/\ HasSuffix(pattern, <<"*">>)
            /\ ~HasSuffix(pattern, <<"/", "*">>)
            /\ HasPrefix(path, Drop(pattern, 1)))
           <=> \E n \in 0..Len(path) : /\ pattern = SubSeq(path, 1, n) \o <<"*">>
                                       /\ n > 0 => path[n] # "/"
<1>1. PICK l \in Nat : l = Len(path)
  OBVIOUS
<1>2. PICK m \in Nat : m = Len(pattern)
  OBVIOUS
<1>3. PICK a \in S, b \in S : a = "/" /\ b = "*"
  OBVIOUS
<1>4. HasSuffix(pattern, <<a, b>>) <=> m >= 2 /\ pattern[m - 1] = a /\ pattern[m] = b
  BY <1>2, EndsInTwo
<1>5. HasSuffix(pattern, <<b>>) <=> m >= 1 /\ pattern[m] = b
  BY <1>2, EndsIn
<1>6. ASSUME NEW n \in 0..l
      PROVE  pattern = SubSeq(path, 1, n) \o <<b>> <=>
                m = n + 1 /\ (\A i \in 1..n : pattern[i] = path[i]) /\ pattern[n + 1] = b
  <2>1. PICK p : p = SubSeq(path, 1, n)
    OBVIOUS
  <2>2. p \in Seq(S) /\ Len(p) = n /\ \A i \in 1..n : p[i] = path[i]
    BY <1>1, <2>1
  <2>3. pattern = p \o <<b>> <=> /\ Len(pattern) = Len(p) + 1
                                 /\ \A i \in 1..Len(p) : pattern[i] = p[i]
                                 /\ pattern[Len(p) + 1] = b
    <3>1. p \in Seq(S)
      BY <2>2
    <3>2. QED
      BY <3>1, IsAndOne
  <2>4. QED
    BY <1>2, <2>1, <2>2, <2>3
<1>7. ASSUME m >= 1
      PROVE  HasPrefix(path, Drop(pattern, 1)) <=>
                m - 1 <= l /\ \A i \in 1..(m - 1) : path[i] = pattern[i]
  <2>1. 1 \in 0..Len(pattern)
    BY <1>2, <1>7
  <2>2. PICK base : base = Drop(pattern, 1)
    OBVIOUS
  <2>3. base \in Seq(S) /\ Len(base) = m - 1 /\ \A i \in 1..(m - 1) : base[i] = pattern[i]
    BY <1>2, <2>1, <2>2, DropForm
  <2>4. HasPrefix(path, base) <=>
           Len(base) <= Len(path) /\ \A i \in 1..Len(base) : path[i] = base[i]
    BY <2>3, PrefixForm
  <2>5. QED
    BY <1>1, <2>2, <2>3, <2>4
<1>8. ASSUME HasSuffix(pattern, <<b>>), ~HasSuffix(pattern, <<a, b>>),
             HasPrefix(path, Drop(pattern, 1))
      PROVE  \E n \in 0..l : /\ pattern = SubSeq(path, 1, n) \o <<b>>
                             /\ n > 0 => path[n] # a
  <2>1. PICK n \in Int : n = m - 1
    BY <1>2
  <2>2. n \in 0..l /\ m = n + 1 /\ pattern[n + 1] = b /\ \A i \in 1..n : path[i] = pattern[i]
    BY <1>1, <1>2, <1>5, <1>7, <1>8, <2>1
  <2>3. n > 0 => n \in 1..n /\ pattern[n] # a
    BY <1>4, <1>8, <2>1, <2>2
  <2>4. pattern = SubSeq(path, 1, n) \o <<b>>
    BY <1>6, <2>2
  <2>5. QED
    BY <2>2, <2>3, <2>4
<1>9. ASSUME NEW n \in 0..l, pattern = SubSeq(path, 1, n) \o <<b>>, n > 0 => path[n] # a
      PROVE  /\ HasSuffix(pattern, <<b>>) /\ ~HasSuffix(pattern, <<a, b>>)
             /\ HasPrefix(path, Drop(pattern, 1))
  <2>1. m = n + 1 /\ (\A i \in 1..n : pattern[i] = path[i]) /\ pattern[n + 1] = b
    BY <1>6, <1>9
  <2>2. m - 1 = n /\ m >= 1 /\ n <= l
    BY <1>1, <2>1
  <2>3. m >= 2 => n \in 1..n /\ n > 0
    BY <2>1
  <2>4. QED
    BY <1>4, <1>5, <1>7, <1>9, <2>1, <2>2, <2>3
<1>10. QED
  BY <1>1, <1>3, <1>8, <1>9

\* matchPath does what the patterns promise.
LEMMA PathMatch ==
    ASSUME NEW S, {"/", "*"} \subseteq S, NEW path \in Seq(S), NEW pattern \in Seq(S)
    PROVE  MatchPath(path, pattern) <=>
             \/ pattern = path
             \/ \E p \in Ancestors(path) : pattern = p \o <<"/", "*">>
             \/ \E n \in 0..Len(path) : /\ pattern = SubSeq(path, 1, n) \o <<"*">>
                                        /\ n > 0 => path[n] # "/"
  BY UnderPath, StarPath, ZenonT(60) DEF MatchPath

\* What stands before the first colon of a host.
LEMMA HostnameForm ==
    ASSUME NEW S, NEW h \in Seq(S)
    PROVE  \E n \in 0..Len(h) : /\ Hostname(h) = SubSeq(h, 1, n)
                                /\ \A i \in 1..n : h[i] # ":"
                                /\ n < Len(h) => h[n + 1] = ":"
<1>1. PICK l \in Nat : l = Len(h)
  OBVIOUS
<1>2. PICK I : I = {i \in 1..l : h[i] = ":"}
  OBVIOUS
<1>3. PICK colon : colon = IF I # {} THEN Min(I) ELSE 0
  OBVIOUS
<1>4. Hostname(h) = IF colon = 0 THEN h ELSE SubSeq(h, 1, colon - 1)
  BY <1>1, <1>2, <1>3 DEF Hostname, SelectInSeq
<1>5. I \in SUBSET (1..l)
  BY <1>2
<1>6. CASE I = {}
  <2>1. Hostname(h) = SubSeq(h, 1, l)
    BY <1>1, <1>3, <1>4, <1>6
  <2>2. \A i \in 1..l : h[i] # ":"
    BY <1>2, <1>6
  <2>3. QED
    BY <1>1, <2>1, <2>2
<1>7. CASE I # {}
  <2>1. Min(I) \in I /\ \A y \in I : Min(I) <= y
    BY <1>1, <1>5, <1>7, MinOf
  <2>2. colon \in I /\ \A y \in I : colon <= y
    BY <1>3, <1>7, <2>1
  <2>3. colon \in 1..l /\ h[colon] = ":"
    BY <1>2, <2>2
  <2>4. PICK n \in 0..l : n = colon - 1
    BY <1>1, <2>3
  <2>5. n < l /\ n + 1 = colon /\ colon # 0
    BY <1>1, <2>3, <2>4
  <2>6. \A i \in 1..n : h[i] # ":"
    BY <1>1, <1>2, <2>2, <2>4, <2>5
  <2>7. Hostname(h) = SubSeq(h, 1, n)
    BY <1>4, <2>4, <2>5
  <2>8. QED
    BY <1>1, <2>3, <2>5, <2>6, <2>7
<1>8. QED
  BY <1>6, <1>7

\* A prefix of a host is what stands before its first colon if it has no colon
\* and is all of it or followed by one.
LEMMA HostCut ==
    ASSUME NEW S, ":" \in S, NEW h \in Seq(S), NEW k \in 0..Len(h)
    PROVE  SubSeq(h, 1, k) = Hostname(h) <=>
             /\ h = SubSeq(h, 1, k) \/ HasPrefix(h, SubSeq(h, 1, k) \o <<":">>)
             /\ \A i \in DOMAIN SubSeq(h, 1, k) : SubSeq(h, 1, k)[i] # ":"
<1>1. PICK l \in Nat : l = Len(h)
  OBVIOUS
<1>2. PICK n \in 0..l : /\ Hostname(h) = SubSeq(h, 1, n)
                        /\ \A i \in 1..n : h[i] # ":"
                        /\ n < l => h[n + 1] = ":"
  BY <1>1, HostnameForm
<1>3. PICK p, b : p = SubSeq(h, 1, k) /\ b = SubSeq(h, 1, n)
  OBVIOUS
<1>4. /\ p \in Seq(S) /\ Len(p) = k /\ DOMAIN p = 1..k /\ \A i \in 1..k : p[i] = h[i]
      /\ k \in 0..l
  BY <1>1, <1>3
<1>5. Len(b) = n
  BY <1>1, <1>2, <1>3
<1>6. PICK t : t = p \o <<":">>
  OBVIOUS
<1>7. t \in Seq(S) /\ Len(t) = k + 1 /\ (\A i \in 1..k : t[i] = p[i]) /\ t[k + 1] = ":"
  <2>1. p \in Seq(S) /\ Len(p) = k
    BY <1>4
  <2>2. QED
    BY <1>6, <2>1, AndOne
<1>8. HasPrefix(h, t) <=> k + 1 <= l /\ h[k + 1] = ":"
  <2>1. t \in Seq(S)
    BY <1>7
  <2>2. HasPrefix(h, t) <=> Len(t) <= Len(h) /\ \A i \in 1..Len(t) : h[i] = t[i]
    BY <2>1, PrefixForm
  <2>3. \A i \in 1..(k + 1) : i \in 1..k \/ i = k + 1
    BY <1>4
  <2>4. k + 1 \in 1..(k + 1)
    BY <1>4
  <2>5. (\A i \in 1..(k + 1) : h[i] = t[i]) <=> h[k + 1] = ":"
    BY <1>4, <1>7, <2>3, <2>4
  <2>6. QED
    BY <1>1, <1>7, <2>2, <2>5
<1>9. h = p <=> k = l
  <2>1. k = l => h = p
    BY <1>1, <1>3
  <2>2. QED
    BY <1>1, <1>4, <2>1
<1>10. p = b <=> k = n
  BY <1>3, <1>4, <1>5
<1>11. ASSUME k = n
       PROVE  (h = p \/ HasPrefix(h, t)) /\ \A i \in 1..k : h[i] # ":"
  BY <1>1, <1>2, <1>4, <1>8, <1>9, <1>11
<1>12. ASSUME h = p \/ HasPrefix(h, t), \A i \in 1..k : h[i] # ":"
       PROVE  k = n
  <2>1. k = l \/ (k + 1 <= l /\ h[k + 1] = ":")
    BY <1>8, <1>9, <1>12
  <2>2. ~(n < k)
    <3>1. SUFFICES ASSUME n < k PROVE FALSE
      OBVIOUS
    <3>2. n + 1 \in 1..k /\ n < l
      BY <1>1, <1>2, <1>4, <3>1
    <3>3. QED
      BY <1>2, <1>12, <3>2
  <2>3. ~(k < n)
    <3>1. SUFFICES ASSUME k < n PROVE FALSE
      OBVIOUS
    <3>2. k + 1 \in 1..n /\ k # l
      BY <1>1, <1>2, <1>4, <3>1
    <3>3. QED
      BY <1>2, <2>1, <3>2
  <2>4. QED
    BY <1>1, <1>2, <1>4, <2>2, <2>3
<1>13. (\A i \in DOMAIN p : p[i] # ":") <=> \A i \in 1..k : h[i] # ":"
  BY <1>4
<1>14. p = b <=> (h = p \/ HasPrefix(h, t)) /\ \A i \in DOMAIN p : p[i] # ":"
  BY <1>10, <1>11, <1>12, <1>13
<1>15. QED
  BY <1>2, <1>3, <1>6, <1>14

\* Elements before a sequence.
LEMMA OneAnd ==
    ASSUME NEW S, NEW d \in Seq(S), NEW a \in S
    PROVE  /\ <<a>> \o d \in Seq(S) /\ Len(<<a>> \o d) = Len(d) + 1
           /\ (<<a>> \o d)[1] = a /\ \A i \in 1..Len(d) : (<<a>> \o d)[i + 1] = d[i]
<1>1. <<a>> \in Seq(S) /\ Len(<<a>>) = 1 /\ <<a>>[1] = a
  OBVIOUS
<1>2. QED
  BY <1>1

LEMMA TwoAnd ==
    ASSUME NEW S, NEW d \in Seq(S), NEW a \in S, NEW b \in S
    PROVE  /\ <<a, b>> \o d \in Seq(S) /\ Len(<<a, b>> \o d) = Len(d) + 2
           /\ (<<a, b>> \o d)[1] = a /\ (<<a, b>> \o d)[2] = b
           /\ \A i \in 1..Len(d) : (<<a, b>> \o d)[i + 2] = d[i]
<1>1. /\ <<a, b>> \in Seq(S) /\ Len(<<a, b>>) = 2
      /\ <<a, b>>[1] = a /\ <<a, b>>[2] = b
  OBVIOUS
<1>2. QED
  BY <1>1

\* p begins with these two elements.
LEMMA StartsWith ==
    ASSUME NEW S, NEW p \in Seq(S), NEW a \in S, NEW b \in S
    PROVE  HasPrefix(p, <<a, b>>) <=>
             /\ Len(p) >= 2 /\ p[1] = a /\ p[2] = b
<1>1. PICK t : t = <<a, b>>
  OBVIOUS
<1>2. t \in Seq(S) /\ Len(t) = 2 /\ t[1] = a /\ t[2] = b
  BY <1>1
<1>3. HasPrefix(p, t) <=> Len(t) <= Len(p) /\ \A i \in 1..Len(t) : p[i] = t[i]
  <2>1. t \in Seq(S)
    BY <1>2
  <2>2. QED
    BY <2>1, PrefixForm
<1>4. \A i \in 1..2 : i = 1 \/ i = 2
  OBVIOUS
<1>5. 1 \in 1..2 /\ 2 \in 1..2
  OBVIOUS
<1>6. QED
  BY <1>1, <1>2, <1>3, <1>4, <1>5

\* A host under a domain: what MatchHost computes for a pattern with a star.
LEMMA UnderHost ==
    ASSUME NEW S, {"*", "."} \subseteq S, NEW p \in Seq(S), NEW host \in Seq(S),
           HasPrefix(p, <<"*", ".">>)
    PROVE  MatchHost(p, host) <=>
             p = host \/ \E d \in Parents(host) : p = <<"*", ".">> \o d
<1>1. PICK k \in Nat : k = Len(p)
  OBVIOUS
<1>2. PICK l \in Nat : l = Len(host)
  OBVIOUS
<1>3. PICK a \in S, b \in S : a = "*" /\ b = "."
  OBVIOUS
<1>4. k >= 2 /\ p[1] = a /\ p[2] = b
  <2>1. HasPrefix(p, <<a, b>>)
    BY <1>3
  <2>2. QED
    BY <1>1, <2>1, StartsWith
<1>5. PICK base : base = SubSeq(p, 3, k)
  OBVIOUS
<1>6. base \in Seq(S) /\ Len(base) = k - 2 /\ \A i \in 1..(k - 2) : base[i] = p[i + 2]
  BY <1>1, <1>4, <1>5
<1>7. PICK t : t = <<b>> \o base
  OBVIOUS
<1>8. t \in Seq(S) /\ Len(t) = k - 1 /\ t[1] = b /\ \A i \in 1..(k - 2) : t[i + 1] = base[i]
  <2>1. base \in Seq(S) /\ Len(base) = k - 2 /\ (k - 2) + 1 = k - 1
    BY <1>1, <1>6
  <2>2. QED
    BY <1>7, <2>1, OneAnd
<1>9. MatchHost(p, host) <=> host # base /\ HasSuffix(host, t)
  BY <1>1, <1>3, <1>5, <1>7 DEF MatchHost
<1>10. \A i \in 1..(k - 1) : t[i] = p[i + 1]
  <2>1. SUFFICES ASSUME NEW i \in 1..(k - 1) PROVE t[i] = p[i + 1]
    OBVIOUS
  <2>2. CASE i = 1
    <3>1. i + 1 = 2
      BY <2>2
    <3>2. QED
      BY <1>4, <1>8, <2>2, <3>1
  <2>3. CASE i # 1
    <3>1. PICK j \in 1..(k - 2) : j = i - 1
      BY <1>1, <1>4, <2>3
    <3>2. j + 1 = i /\ j + 2 = i + 1
      BY <1>1, <3>1
    <3>3. QED
      BY <1>6, <1>8, <3>2
  <2>4. QED
    BY <2>2, <2>3
<1>11. HasSuffix(host, t) <=>
          k - 1 <= l /\ \A i \in 1..(k - 1) : host[l - (k - 1) + i] = p[i + 1]
  <2>1. t \in Seq(S) /\ Len(t) = k - 1
    BY <1>8
  <2>2. HasSuffix(host, t) <=>
           Len(t) <= Len(host) /\ \A i \in 1..Len(t) : host[Len(host) - Len(t) + i] = t[i]
    <3>1. t \in Seq(S)
      BY <2>1
    <3>2. QED
      BY <3>1, SuffixForm
  <2>3. HasSuffix(host, t) <=>
           k - 1 <= l /\ \A i \in 1..(k - 1) : host[l - (k - 1) + i] = t[i]
    BY <1>2, <2>1, <2>2
  <2>4. QED
    BY <1>10, <2>3
<1>12. ASSUME HasSuffix(host, t) PROVE \E d \in Parents(host) : p = <<a, b>> \o d
  <2>1. PICK j \in Int : j = l - (k - 1) + 1
    <3>1. l - (k - 1) + 1 \in Int
      BY <1>1, <1>2
    <3>2. QED
      BY <3>1
  <2>2. j \in 1..l /\ j + (k - 2) = l
    BY <1>1, <1>2, <1>4, <1>11, <1>12, <2>1
  <2>3. host[j] = b
    <3>1. 1 \in 1..(k - 1) /\ 1 + 1 = 2
      BY <1>1, <1>4
    <3>2. host[l - (k - 1) + 1] = p[1 + 1]
      BY <1>11, <1>12, <3>1
    <3>3. QED
      BY <1>4, <2>1, <3>1, <3>2
  <2>4. PICK d : d = SubSeq(host, j + 1, l)
    OBVIOUS
  <2>5. d \in Seq(S) /\ Len(d) = k - 2 /\ \A i \in 1..(k - 2) : d[i] = host[j + i]
    BY <1>1, <1>2, <1>4, <2>2, <2>4
  <2>6. \A i \in 1..(k - 2) : host[j + i] = p[i + 2]
    <3>1. SUFFICES ASSUME NEW i \in 1..(k - 2) PROVE host[j + i] = p[i + 2]
      OBVIOUS
    <3>2. PICK x \in 1..(k - 1) : x = i + 1
      BY <1>1, <1>4
    <3>3. l - (k - 1) + x = j + i /\ x + 1 = i + 2
      BY <1>1, <1>2, <2>1, <3>2
    <3>4. host[l - (k - 1) + x] = p[x + 1]
      BY <1>11, <1>12
    <3>5. QED
      BY <3>3, <3>4
  <2>7. PICK u : u = <<a, b>> \o d
    OBVIOUS
  <2>8. /\ u \in Seq(S) /\ Len(u) = k /\ u[1] = a /\ u[2] = b
        /\ \A i \in 1..(k - 2) : u[i + 2] = d[i]
    <3>1. d \in Seq(S) /\ Len(d) = k - 2 /\ (k - 2) + 2 = k
      BY <1>1, <2>5
    <3>2. QED
      BY <2>7, <3>1, TwoAnd
  <2>9. \A i \in 1..k : u[i] = p[i]
    <3>1. SUFFICES ASSUME NEW i \in 1..k PROVE u[i] = p[i]
      OBVIOUS
    <3>2. CASE i = 1 \/ i = 2
      BY <1>4, <2>8, <3>2
    <3>3. CASE i # 1 /\ i # 2
      <4>1. PICK x \in 1..(k - 2) : x = i - 2
        BY <1>1, <3>3
      <4>2. x + 2 = i
        BY <1>1, <4>1
      <4>3. u[x + 2] = p[x + 2]
        BY <2>5, <2>6, <2>8
      <4>4. QED
        BY <4>2, <4>3
    <3>4. QED
      BY <3>2, <3>3
  <2>10. u = p
    BY <1>1, <2>8, <2>9, SameSeq
  <2>11. d \in Parents(host)
    <3>1. j \in DOMAIN host
      BY <1>2, <2>2
    <3>2. QED
      BY <1>2, <1>3, <2>3, <2>4, <3>1 DEF Parents
  <2>12. QED
    BY <2>7, <2>10, <2>11
<1>13. ASSUME p = host PROVE host # base /\ HasSuffix(host, t)
  <2>1. l = k
    BY <1>1, <1>2, <1>13
  <2>2. host # base
    <3>1. Len(base) = k - 2 /\ Len(host) = k /\ k \in Nat
      BY <1>1, <1>2, <1>6, <2>1
    <3>2. k - 2 # k
      BY <3>1
    <3>3. QED
      BY <3>1, <3>2
  <2>3. \A i \in 1..(k - 1) : l - (k - 1) + i = i + 1
    BY <1>1, <2>1
  <2>4. QED
    BY <1>1, <1>11, <1>13, <2>1, <2>2, <2>3
<1>14. ASSUME NEW d \in Parents(host), p = <<a, b>> \o d
       PROVE  host # base /\ HasSuffix(host, t)
  <2>1. PICK j \in 1..l : host[j] = b /\ d = SubSeq(host, j + 1, l)
    BY <1>2, <1>3 DEF Parents
  <2>2. d \in Seq(S) /\ Len(d) = l - j /\ \A i \in 1..(l - j) : d[i] = host[j + i]
    BY <1>2, <2>1
  <2>3. k = (l - j) + 2 /\ \A i \in 1..(l - j) : p[i + 2] = d[i]
    <3>1. d \in Seq(S) /\ Len(d) = l - j
      BY <2>2
    <3>2. PICK u : u = <<a, b>> \o d
      OBVIOUS
    <3>3. Len(u) = (l - j) + 2 /\ \A i \in 1..(l - j) : u[i + 2] = d[i]
      BY <3>1, <3>2, TwoAnd
    <3>4. u = p
      BY <1>14, <3>2
    <3>5. QED
      BY <1>1, <3>3, <3>4
  <2>4. host # base
    BY <1>1, <1>2, <1>6, <2>1, <2>3
  <2>5. k - 1 <= l
    BY <1>1, <1>2, <2>1, <2>3
  <2>6. ASSUME NEW i \in 1..(k - 1) PROVE host[l - (k - 1) + i] = p[i + 1]
    <3>1. PICK x \in Int : x = l - (k - 1) + i
      <4>1. l - (k - 1) + i \in Int
        BY <1>1, <1>2
      <4>2. QED
        BY <4>1
    <3>2. x = j - 1 + i
      BY <1>1, <1>2, <2>1, <2>3, <3>1
    <3>3. CASE i = 1
      <4>1. x = j /\ i + 1 = 2
        BY <2>1, <3>2, <3>3
      <4>2. QED
        BY <1>4, <2>1, <3>1, <4>1
    <3>4. CASE i # 1
      <4>1. PICK y \in 1..(l - j) : y = i - 1
        BY <1>1, <1>2, <2>1, <2>3, <3>4
      <4>2. y + 2 = i + 1 /\ j + y = x
        BY <1>1, <1>2, <2>1, <3>2, <4>1
      <4>3. p[y + 2] = host[j + y]
        BY <2>2, <2>3
      <4>4. QED
        BY <3>1, <4>2, <4>3
    <3>5. QED
      BY <3>3, <3>4
  <2>7. QED
    BY <1>11, <2>4, <2>5, <2>6
<1>15. QED
  BY <1>3, <1>9, <1>12, <1>13, <1>14

\* matchHost does what the patterns promise.
LEMMA HostMatch ==
    ASSUME NEW S, {"*", "."} \subseteq S, NEW p \in Seq(S), NEW host \in Seq(S)
    PROVE  MatchHost(p, host) <=>
             p = host \/ \E d \in Parents(host) : p = <<"*", ".">> \o d
<1>1. CASE HasPrefix(p, <<"*", ".">>)
  BY <1>1, UnderHost
<1>2. CASE ~HasPrefix(p, <<"*", ".">>)
  <2>1. MatchHost(p, host) <=> p = host
    BY <1>2 DEF MatchHost
  <2>2. ASSUME NEW d \in Parents(host), p = <<"*", ".">> \o d PROVE FALSE
    <3>1. PICK a \in S, b \in S : a = "*" /\ b = "."
      OBVIOUS
    <3>2. d \in Seq(S)
      <4>1. PICK j \in DOMAIN host : d = SubSeq(host, j + 1, Len(host))
        BY DEF Parents
      <4>2. QED
        BY <4>1
    <3>3. PICK n \in Nat : n = Len(d)
      BY <3>2
    <3>4. Len(p) = n + 2 /\ p[1] = a /\ p[2] = b
      BY <2>2, <3>1, <3>2, <3>3, TwoAnd
    <3>5. Len(p) >= 2
      BY <3>3, <3>4
    <3>6. HasPrefix(p, <<a, b>>)
      BY <3>4, <3>5, StartsWith
    <3>7. QED
      BY <1>2, <3>1, <3>6
  <2>3. QED
    BY <2>1, <2>2
<1>3. QED
  BY <1>1, <1>2

\* What Covers asks of the host of a request and the host of a route.
HostCovers(h, p) ==
    \E host \in {SubSeq(h, 1, i) : i \in 0..Len(h)} :
        /\ h = host \/ HasPrefix(h, host \o <<":">>)
        /\ \A i \in DOMAIN host : host[i] # ":"
        /\ \/ p = host
           \/ \E d \in Parents(host) : p = <<"*", ".">> \o d

LEMMA HostCovered ==
    ASSUME NEW S, {"*", ".", ":"} \subseteq S, NEW h \in Seq(S), NEW p \in Seq(S)
    PROVE  MatchHost(p, Hostname(h)) <=> HostCovers(h, p)
<1>1. PICK l \in Nat : l = Len(h)
  OBVIOUS
<1>2. PICK n \in 0..l : Hostname(h) = SubSeq(h, 1, n)
  BY <1>1, HostnameForm
<1>3. ASSUME NEW k \in 0..l
      PROVE  SubSeq(h, 1, k) = Hostname(h) <=>
                /\ h = SubSeq(h, 1, k) \/ HasPrefix(h, SubSeq(h, 1, k) \o <<":">>)
                /\ \A i \in DOMAIN SubSeq(h, 1, k) : SubSeq(h, 1, k)[i] # ":"
  <2>1. ":" \in S /\ k \in 0..Len(h)
    BY <1>1
  <2>2. QED
    BY <2>1, HostCut
<1>4. Hostname(h) \in Seq(S)
  BY <1>1, <1>2
<1>5. MatchHost(p, Hostname(h)) <=>
        p = Hostname(h) \/ \E d \in Parents(Hostname(h)) : p = <<"*", ".">> \o d
  BY <1>4, HostMatch
<1>6. \A host \in {SubSeq(h, 1, i) : i \in 0..l} :
        host = Hostname(h) <=> /\ h = host \/ HasPrefix(h, host \o <<":">>)
                               /\ \A i \in DOMAIN host : host[i] # ":"
  <2>1. SUFFICES ASSUME NEW host \in {SubSeq(h, 1, i) : i \in 0..l}
                 PROVE  host = Hostname(h) <=>
                           /\ h = host \/ HasPrefix(h, host \o <<":">>)
                           /\ \A i \in DOMAIN host : host[i] # ":"
    OBVIOUS
  <2>2. PICK k \in 0..l : host = SubSeq(h, 1, k)
    OBVIOUS
  <2>3. QED
    BY <1>3, <2>2
<1>7. Hostname(h) \in {SubSeq(h, 1, i) : i \in 0..l}
  BY <1>2
<1>8. QED
  BY <1>1, <1>5, <1>6, <1>7 DEF HostCovers

\* Comparing letter by letter is comparing the lower-case forms.
LEMMA FoldsAlike ==
    ASSUME NEW s \in Seq(Text), NEW t \in Seq(Text)
    PROVE  EqualFold(s, t) <=> Lower(s) = Lower(t)
<1> DEFINE Low(x) == IF x \in DOMAIN LowerOf THEN LowerOf[x] ELSE x
           Alike(x, y) == \/ x = y
                          \/ x \in DOMAIN LowerOf /\ y = LowerOf[x]
                          \/ y \in DOMAIN LowerOf /\ x = LowerOf[y]
<1>1. \A x, y : Alike(x, y) <=> Low(x) = Low(y)
  BY LetterAssumption
<1>2. PICK m, n \in Nat : m = Len(s) /\ n = Len(t)
  OBVIOUS
<1>3. DOMAIN s = 1..m /\ DOMAIN t = 1..n
  BY <1>2
<1>4. Lower(s) = [i \in 1..m |-> Low(s[i])] /\ Lower(t) = [i \in 1..n |-> Low(t[i])]
  BY <1>3 DEF Lower
<1>5. EqualFold(s, t) <=> m = n /\ \A i \in 1..m : Alike(s[i], t[i])
  BY <1>2, <1>3 DEF EqualFold
<1>6. 1..m = 1..n <=> m = n
  BY <1>2
<1> HIDE DEF Low, Alike
<1>7. Lower(s) = Lower(t) <=> m = n /\ \A i \in 1..m : Low(s[i]) = Low(t[i])
  <2>1. PICK a, b : a = Lower(s) /\ b = Lower(t)
    OBVIOUS
  <2>2. /\ a = [i \in 1..m |-> Low(s[i])] /\ DOMAIN a = 1..m
        /\ b = [i \in 1..n |-> Low(t[i])] /\ DOMAIN b = 1..n
    BY <1>4, <2>1
  <2>3. ASSUME a = b PROVE m = n /\ \A i \in 1..m : Low(s[i]) = Low(t[i])
    <3>1. m = n
      BY <1>6, <2>2, <2>3
    <3>2. \A i \in 1..m : a[i] = Low(s[i]) /\ b[i] = Low(t[i])
      BY <2>2, <3>1
    <3>3. QED
      BY <2>3, <3>1, <3>2
  <2>4. ASSUME m = n, \A i \in 1..m : Low(s[i]) = Low(t[i]) PROVE a = b
    BY <2>2, <2>4
  <2>5. QED
    BY <2>1, <2>3, <2>4
<1>8. QED
  BY <1>1, <1>5, <1>7

\* A route matches exactly the requests it covers.
LEMMA MatchesCovers ==
    ASSUME NEW route \in RouteType, NEW q \in QueryType
    PROVE  Matches(route, q) <=> Covers(route, q)
<1>1. PICK S : S = Text \cup {"/", "*", ".", ":"}
  OBVIOUS
<1>2. \A s \in Seq(Text) : s \in Seq(S)
  BY <1>1
<1>3. /\ q.host \in Seq(Text) /\ q.path \in Seq(Text)
      /\ route.host \in Seq(Text) /\ route.paths \in Seq(Seq(Text))
  BY DEF QueryType, RouteType
<1>4. MatchHost(route.host, Hostname(q.host)) <=> HostCovers(q.host, route.host)
  <2>1. {"*", ".", ":"} \subseteq S
    BY <1>1
  <2>2. q.host \in Seq(S) /\ route.host \in Seq(S)
    BY <1>2, <1>3
  <2>3. QED
    BY <2>1, <2>2, HostCovered
<1>5. MatchMethod(route.methods, q.method) <=>
         route.methods = {} \/ Lower(q.method) \in {Lower(m) : m \in route.methods}
  <2>1. q.method \in Seq(Text) /\ \A m \in route.methods : m \in Seq(Text)
    BY DEF QueryType, RouteType
  <2>2. \A m \in route.methods : EqualFold(m, q.method) <=> Lower(m) = Lower(q.method)
    BY <2>1, FoldsAlike
  <2>3. QED
    BY <2>2 DEF MatchMethod
<1>6. ASSUME NEW i \in DOMAIN route.paths
      PROVE  MatchPath(q.path, route.paths[i]) <=>
                \/ route.paths[i] = q.path
                \/ \E p \in Ancestors(q.path) : route.paths[i] = p \o <<"/", "*">>
                \/ \E n \in 0..Len(q.path) :
                    /\ route.paths[i] = SubSeq(q.path, 1, n) \o <<"*">>
                    /\ n > 0 => q.path[n] # "/"
  <2>1. {"/", "*"} \subseteq S
    BY <1>1
  <2>2. PICK T : T = Seq(Text)
    OBVIOUS
  <2>3. route.paths[i] \in T
    BY <1>3, <1>6, <2>2
  <2>4. PICK pattern, path : pattern = route.paths[i] /\ path = q.path
    OBVIOUS
  <2>5. pattern \in Seq(S) /\ path \in Seq(S)
    BY <1>2, <1>3, <2>2, <2>3, <2>4
  <2>6. MatchPath(path, pattern) <=>
           \/ pattern = path
           \/ \E p \in Ancestors(path) : pattern = p \o <<"/", "*">>
           \/ \E n \in 0..Len(path) : /\ pattern = SubSeq(path, 1, n) \o <<"*">>
                                      /\ n > 0 => path[n] # "/"
    BY <2>1, <2>5, PathMatch
  <2>7. QED
    BY <2>4, <2>6
<1>7. QED
  BY <1>4, <1>5, <1>6 DEF Matches, Covers, HostCovers

-----------------------------------------------------------------------------
(* These steps keep what is true of a request. *)

\* The list so far and one element more.
LEMMA OneMore ==
    ASSUME NEW S, NEW s \in Seq(S), NEW k \in 1..Len(s)
    PROVE  Append(SubSeq(s, 1, k - 1), s[k]) = SubSeq(s, 1, k)
<1>0. PICK x : x = SubSeq(s, 1, k - 1)
  OBVIOUS
<1>1. PICK a, b : a = Append(x, s[k]) /\ b = SubSeq(s, 1, k)
  OBVIOUS
<1>2. /\ a \in Seq(S) /\ Len(a) = k
      /\ \A i \in 1..k : a[i] = IF i < k THEN s[i] ELSE s[k]
  <2>1. /\ x \in Seq(S) /\ Len(x) = k - 1 /\ s[k] \in S
        /\ \A i \in 1..(k - 1) : x[i] = s[i]
    BY <1>0
  <2>2. QED
    BY <1>1, <2>1
<1>3. b \in Seq(S) /\ Len(b) = k /\ \A i \in 1..k : b[i] = s[i]
  BY <1>1
<1>4. QED
  BY <1>0, <1>1, <1>2, <1>3

\* A request that has been sent.
LEMMA SentFacts ==
    ASSUME StartInv, NEW c \in CallType, RequestInv(c), c.route # 0
    PROVE  /\ c.route \in DOMAIN cfg.routes
           /\ PluginsOf(c.route) \in Seq(PluginType)
           /\ c.pos \in 1..(Len(PluginsOf(c.route)) + 1)
           /\ c.ran = SubSeq(PluginsOf(c.route), 1, c.pos - 1)
           /\ ContentAt(c.route, c.pos, c.path) = ContentAt(c.route, 1, c.sent.path)
<1>1. c.route \in DOMAIN cfg.routes
  BY DEF RequestInv, PhaseInv
<1>2. PluginsOf(c.route) \in Seq(PluginType)
  BY <1>1, ConfigLists
<1>3. QED
  BY <1>1, <1>2 DEF RequestInv, OrderInv, PathInv

\* A plugin lets it pass.
LEMMA PassedWriters ==
    ASSUME NEW c \in CallType, NEW d \in CallType, NEW p, NEW slot,
           WriterInv(c), Passed(c, d, p, slot)
    PROVE  WriterInv(d)
<1>1. PICK n \in Nat : n = Len(c.ran)
  BY CallFields
<1>2. /\ c.ran \in Seq(PluginType) /\ d.ran = Append(c.ran, p)
      /\ c.writers \in Seq(Seq(RequestIds)) /\ c.fills \in Seq(SlotType)
      /\ d.ran \in Seq(PluginType)
  BY CallFields DEF Passed
<1>3. /\ DOMAIN c.ran = 1..n /\ DOMAIN d.ran = 1..(n + 1) /\ d.ran[n + 1] = p
      /\ \A i \in 1..n : d.ran[i] = c.ran[i]
  BY <1>1, <1>2
<1>4. \A i \in 1..n : IDFirst(d.ran, i) => IDFirst(c.ran, i)
  BY <1>3 DEF IDFirst
<1>5. /\ Len(c.writers) = Len(c.fills) + 1
      /\ c.fills # <<>> => \E j \in 1..n : c.ran[j].name = "caching"
      /\ (\E i \in 1..n : IDFirst(c.ran, i)) =>
            ~Missing(c.id) /\ c.writers[1] # <<>> /\ c.writers[1][1] = c.id
  BY <1>3 DEF WriterInv
<1>6. PICK m \in Nat \ {0} : m = Len(c.writers)
  BY <1>2, <1>5
<1>7. CASE /\ p.name = "request-id"
           /\ ~Missing(d.id) /\ (~Missing(c.id) => d.id = c.id)
           /\ d.fills = c.fills
           /\ d.writers = [c.writers EXCEPT ![Len(c.writers)] = <<d.id>>]
  <2>1. Len(d.writers) = m
    BY <1>2, <1>6, <1>7, CallFields
  <2>2. IF m = 1 THEN d.writers[1] = <<d.id>> ELSE d.writers[1] = c.writers[1]
    BY <1>2, <1>6, <1>7
  <2>3. d.fills # <<>> => \E j \in 1..(n + 1) : d.ran[j].name = "caching"
    BY <1>3, <1>5, <1>7
  <2>4. ASSUME NEW i \in 1..(n + 1), IDFirst(d.ran, i)
        PROVE  ~Missing(d.id) /\ d.writers[1] # <<>> /\ d.writers[1][1] = d.id
    <3>1. CASE m = 1
      <4>1. <<d.id>> # <<>> /\ <<d.id>>[1] = d.id
        OBVIOUS
      <4>2. QED
        BY <1>7, <2>2, <3>1, <4>1
    <3>2. CASE m # 1
      <4>1. c.fills # <<>>
        BY <1>2, <1>5, <1>6, <3>2
      <4>2. PICK j \in 1..n : c.ran[j].name = "caching"
        BY <1>5, <4>1
      <4>3. i \in 1..n
        BY <1>3, <2>4, <4>2 DEF IDFirst
      <4>4. ~Missing(c.id) /\ c.writers[1] # <<>> /\ c.writers[1][1] = c.id
        BY <1>4, <1>5, <2>4, <4>3
      <4>5. QED
        BY <1>7, <2>2, <3>2, <4>4
    <3>3. QED
      BY <3>1, <3>2
  <2>5. QED
    BY <1>3, <1>5, <1>6, <1>7, <2>1, <2>3, <2>4 DEF WriterInv
<1>8. CASE /\ p.name = "caching"
           /\ d.id = c.id
           /\ d.fills = Append(c.fills, slot)
           /\ d.writers = Append(c.writers, <<>>)
  <2>1. Len(d.fills) = Len(c.fills) + 1
    BY <1>2, <1>8
  <2>2. Len(d.writers) = m + 1 /\ d.writers[1] = c.writers[1]
    BY <1>2, <1>6, <1>8
  <2>3. \A i \in 1..(n + 1) : IDFirst(d.ran, i) => i \in 1..n
    BY <1>3, <1>8 DEF IDFirst
  <2>4. \E j \in 1..(n + 1) : d.ran[j].name = "caching"
    BY <1>3, <1>8
  <2>5. QED
    BY <1>3, <1>4, <1>5, <1>6, <1>8, <2>1, <2>2, <2>3, <2>4 DEF WriterInv
<1>9. CASE /\ p.name # "request-id"
           /\ d.id = c.id /\ d.fills = c.fills /\ d.writers = c.writers
  <2>1. \A i \in 1..(n + 1) : IDFirst(d.ran, i) => i \in 1..n
    BY <1>3, <1>9 DEF IDFirst
  <2>2. QED
    BY <1>3, <1>4, <1>5, <1>9, <2>1 DEF WriterInv
<1>10. QED
  BY <1>7, <1>8, <1>9 DEF Passed

\* c is at plugin p, which uses slot if it is a caching plugin.
AtPlugin(c, p, slot) ==
    /\ c.pos \in 1..Len(PluginsOf(c.route)) /\ p = PluginsOf(c.route)[c.pos]
    /\ slot.route = c.route /\ slot.pos = c.pos /\ slot.key[2] = RequestURI(c.path)

LEMMA PassedInv ==
    ASSUME StartInv, NEW c \in CallType, NEW d \in CallType, NEW slot, NEW p,
           RequestInv(c), AtPlugin(c, p, slot), Passed(c, d, p, slot)
    PROVE  RequestInv(d)
<1>1. PICK P : P = PluginsOf(c.route)
  OBVIOUS
<1>2. /\ c.pc = "chain" /\ c.route # 0 /\ c.content = Nil /\ c.status = "none"
      /\ stage = "serving" /\ c.sent \in QueryType /\ c.route = Matched(c.sent)
      /\ c.route \in DOMAIN cfg.routes
  BY DEF Passed, RequestInv, PhaseInv
<1>3. /\ d.pc = "chain" /\ d.route = c.route /\ d.sent = c.sent
      /\ d.content = Nil /\ d.status = "none"
      /\ d.pos = c.pos + 1 /\ d.ran = Append(c.ran, p) /\ d.path = StepPath(c.path, p)
      /\ (d.fills = c.fills \/ d.fills = Append(c.fills, slot))
  BY <1>2 DEF Passed
<1>4. /\ P \in Seq(PluginType) /\ c.pos \in 1..Len(P) /\ p = P[c.pos]
      /\ c.ran = SubSeq(P, 1, c.pos - 1)
      /\ ContentAt(c.route, c.pos, c.path) = ContentAt(c.route, 1, c.sent.path)
  BY <1>1, <1>2, SentFacts DEF AtPlugin
<1>5. PhaseInv(d)
  BY <1>2, <1>3 DEF PhaseInv
<1>6. OrderInv(d)
  <2>1. d.ran = SubSeq(P, 1, c.pos)
    BY <1>3, <1>4, OneMore
  <2>2. d.pos \in 1..(Len(P) + 1) /\ d.pos - 1 = c.pos
    <3>1. PICK n \in Nat : n = Len(P)
      BY <1>4
    <3>2. d.pos = c.pos + 1 /\ c.pos \in 1..n
      BY <1>3, <1>4, <3>1
    <3>3. d.pos \in 1..(n + 1) /\ d.pos - 1 = c.pos
      BY <3>2
    <3>4. QED
      BY <3>1, <3>3
  <2>3. QED
    BY <1>1, <1>3, <2>1, <2>2 DEF OrderInv
<1>7. PathInv(d)
  <2>1. PICK own : own = ContentAt(c.route, 1, c.sent.path)
    OBVIOUS
  <2>2. ContentAt(d.route, d.pos, d.path) = own
    <3>1. Through(Rest(P, c.pos), c.path) = Through(Rest(P, c.pos + 1), StepPath(c.path, p))
      BY <1>4, CallFields, ThroughStep
    <3>2. QED
      BY <1>1, <1>3, <1>4, <2>1, <3>1 DEF ContentAt
  <2>3. Kept(c.route) => c.path # <<>>
    BY <1>2 DEF RequestInv, PathInv
  <2>4. ASSUME Kept(c.route) PROVE d.path # <<>>
    <3>1. P = cfg.routes[c.route].plugins
      BY <1>1, <1>4 DEF PluginsOf
    <3>2. p.name = "path-rewrite" => p.to # <<>>
      BY <1>4, <2>4, <3>1, SMTT(30) DEF Kept, NeverEmpty
    <3>3. p \in PluginType /\ c.path \in Seq(Text)
      BY <1>4, CallFields
    <3>4. QED
      BY <1>3, <2>3, <2>4, <3>2, <3>3, StepPathStays
  <2>5. ASSUME NEW i \in DOMAIN d.fills
        PROVE  /\ d.fills[i].route = c.route
               /\ Kept(c.route) =>
                     ContentAt(c.route, d.fills[i].pos, d.fills[i].key[2]) = own
    <3>1. \/ i \in DOMAIN c.fills /\ d.fills[i] = c.fills[i]
          \/ d.fills[i] = slot
      <4>1. c.fills \in Seq(SlotType)
        BY CallFields
      <4>2. d.fills = c.fills \/ d.fills = Append(c.fills, slot)
        BY <1>3
      <4>3. PICK f, g : f = c.fills /\ g = d.fills
        OBVIOUS
      <4>4. f \in Seq(SlotType) /\ (g = f \/ g = Append(f, slot)) /\ i \in DOMAIN g
        BY <2>5, <4>1, <4>2, <4>3
      <4>5. (i \in DOMAIN f /\ g[i] = f[i]) \/ g[i] = slot
        BY <4>4
      <4>6. QED
        BY <4>3, <4>5
    <3>2. CASE i \in DOMAIN c.fills /\ d.fills[i] = c.fills[i]
      BY <1>2, <2>1, <3>2 DEF RequestInv, PathInv
    <3>3. CASE d.fills[i] = slot
      BY <1>4, <2>1, <2>3, <3>3 DEF AtPlugin, RequestURI
    <3>4. QED
      BY <3>1, <3>2, <3>3
  <2>6. QED
    BY <1>3, <2>1, <2>2, <2>4, <2>5 DEF PathInv
<1>8. WriterInv(d)
  BY PassedWriters DEF RequestInv
<1>9. StrictInv(d)
  BY <1>3 DEF StrictInv
<1>10. QED
  BY <1>5, <1>6, <1>7, <1>8, <1>9 DEF RequestInv

\* Values come behind those already there.
LEMMA FirstStays ==
    ASSUME NEW S, NEW s \in Seq(S), NEW t \in Seq(S), s # <<>>
    PROVE  s \o t # <<>> /\ (s \o t)[1] = s[1]
<1>1. Len(s) \in Nat \ {0} /\ Len(t) \in Nat
  OBVIOUS
<1>2. Len(s \o t) = Len(s) + Len(t)
  OBVIOUS
<1>3. QED
  BY <1>1, <1>2

\* Somebody answers it.
LEMMA SettledWriters ==
    ASSUME NEW c \in CallType, NEW d \in CallType, NEW ids \in Seq(RequestIds),
           WriterInv(c), Settled(c, d, ids)
    PROVE  WriterInv(d)
<1>1. /\ c.writers \in Seq(Seq(RequestIds)) /\ c.fills \in Seq(SlotType)
      /\ d.fills = c.fills /\ d.ran = c.ran /\ d.id = c.id
      /\ d.writers = [c.writers EXCEPT ![Len(c.writers)] = c.writers[Len(c.writers)] \o ids]
  BY CallFields DEF Settled
<1>2. PICK m \in Nat \ {0} : m = Len(c.writers)
  BY <1>1 DEF WriterInv
<1>3. PICK T : T = Seq(RequestIds)
  OBVIOUS
<1>4. c.writers \in Seq(T) /\ \A i \in 1..m : c.writers[i] \in T
  BY <1>1, <1>2, <1>3
<1>5. d.writers = [c.writers EXCEPT ![m] = c.writers[m] \o ids]
  BY <1>1, <1>2
<1>6. Len(d.writers) = m
  <2>1. d.writers \in Seq(T)
    BY <1>3, CallFields
  <2>2. DOMAIN d.writers = 1..m
    BY <1>2, <1>4, <1>5
  <2>3. QED
    BY <2>1, <2>2
<1>7. IF m = 1 THEN d.writers[1] = c.writers[1] \o ids ELSE d.writers[1] = c.writers[1]
  <2>1. PICK w, x : w = c.writers /\ x = c.writers[m] \o ids
    OBVIOUS
  <2>2. DOMAIN w = 1..m /\ d.writers = [w EXCEPT ![m] = x]
    BY <1>2, <1>4, <1>5, <2>1
  <2>3. d.writers[1] = IF m = 1 THEN x ELSE w[1]
    BY <2>2
  <2>4. QED
    BY <2>1, <2>3
<1>8. c.writers[1] # <<>> => d.writers[1] # <<>> /\ d.writers[1][1] = c.writers[1][1]
  <2>1. PICK x : x = c.writers[1] /\ x \in Seq(RequestIds)
    BY <1>3, <1>4
  <2>2. x # <<>> => x \o ids # <<>> /\ (x \o ids)[1] = x[1]
    BY <2>1, FirstStays
  <2>3. QED
    BY <1>7, <2>1, <2>2
<1>9. QED
  BY <1>1, <1>2, <1>6, <1>8 DEF WriterInv

LEMMA SettledInv ==
    ASSUME StartInv, NEW c \in CallType, NEW d \in CallType, NEW ids \in Seq(RequestIds),
           RequestInv(c), Settled(c, d, ids), Right(c, d)
    PROVE  RequestInv(d)
<1>1. /\ c.pc = "chain" /\ c.route # 0
      /\ stage = "serving" /\ c.sent \in QueryType /\ c.route = Matched(c.sent)
      /\ c.route \in DOMAIN cfg.routes
  BY DEF Settled, RequestInv, PhaseInv
<1>2. /\ d.pc = "unwind" /\ d.route = c.route /\ d.sent = c.sent
      /\ d.pos = c.pos /\ d.ran = c.ran /\ d.path = c.path /\ d.fills = c.fills
  BY DEF Settled
<1>3. PhaseInv(d)
  BY <1>1, <1>2 DEF PhaseInv
<1>4. PICK own : own = ContentAt(c.route, 1, c.sent.path)
  OBVIOUS
<1>5. ContentAt(c.route, c.pos, c.path) = own
  BY <1>1, <1>4, SentFacts
<1>6. d.content # Nil => \/ c.pos = Len(PluginsOf(c.route)) + 1
                         \/ PluginsOf(c.route)[c.pos].name = "caching"
  BY DEF Right
<1>7. /\ d.status = "ok" => d.content \in ContentType
      /\ Kept(c.route) => (d.content # Nil \/ d.status = "ok" => d.content = own)
  BY <1>5 DEF Right
<1>8. OrderInv(d)
  BY <1>1, <1>2, <1>6 DEF RequestInv, OrderInv
<1>9. PathInv(d)
  <2>1. /\ \A i \in DOMAIN c.fills : c.fills[i].route = c.route
        /\ Kept(c.route) =>
            /\ c.path # <<>>
            /\ \A i \in DOMAIN c.fills :
                  ContentAt(c.route, c.fills[i].pos, c.fills[i].key[2]) = own
    BY <1>1, <1>4 DEF RequestInv, PathInv
  <2>2. QED
    BY <1>2, <1>4, <1>5, <1>7, <2>1 DEF PathInv
<1>10. WriterInv(d)
  BY SettledWriters DEF RequestInv
<1>11. StrictInv(d)
  <2>1. ASSUME cfg.strict, d.status = "unconfigured" PROVE FALSE
    <3>1. cfg.routes[c.route].service \notin DOMAIN balancers
      BY <2>1 DEF Right
    <3>2. cfg.routes[c.route].service \in Names(cfg.services)
      BY <1>1, MatchedFirst
    <3>3. \A i \in DOMAIN cfg.services : cfg.services[i].name \in DOMAIN balancers
      BY <1>1, <2>1 DEF StartInv, BalancersInv
    <3>4. QED
      BY <3>1, <3>2, <3>3 DEF Names
  <2>2. QED
    BY <2>1 DEF StrictInv
<1>12. QED
  BY <1>3, <1>8, <1>9, <1>10, <1>11 DEF RequestInv

\* A caching plugin copies from its recorder to the writer outside.
Returned(c, d) ==
    /\ c.pc = "unwind" /\ d.pc = "unwind" /\ c.fills # <<>>
    /\ d.sent = c.sent /\ d.route = c.route /\ d.pos = c.pos /\ d.ran = c.ran
    /\ d.path = c.path /\ d.id = c.id /\ d.status = c.status /\ d.content = c.content
    /\ d.fills = SubSeq(c.fills, 1, Len(c.fills) - 1)
    /\ Len(d.writers) = Len(c.writers) - 1
    /\ \/ d.writers[1] = c.writers[1]
       \/ d.writers[1] = c.writers[1] \o c.writers[2] /\ Len(c.writers) = 2

LEMMA ReturnedInv ==
    ASSUME NEW c \in CallType, NEW d \in CallType, RequestInv(c), Returned(c, d)
    PROVE  RequestInv(d)
<1>1. /\ c.pc = "unwind" /\ c.fills # <<>> /\ d.pc = "unwind"
      /\ d.sent = c.sent /\ d.route = c.route /\ d.pos = c.pos /\ d.ran = c.ran
      /\ d.path = c.path /\ d.id = c.id /\ d.status = c.status /\ d.content = c.content
  BY DEF Returned
<1>2. c.route # 0
  BY <1>1 DEF RequestInv, PhaseInv
<1>3. /\ c.fills \in Seq(SlotType) /\ c.writers \in Seq(Seq(RequestIds))
      /\ d.fills = SubSeq(c.fills, 1, Len(c.fills) - 1)
      /\ Len(c.writers) = Len(c.fills) + 1
      /\ Len(d.writers) = Len(c.writers) - 1
  BY CallFields DEF Returned, RequestInv, WriterInv
<1>4. PICK n \in Nat \ {0} : n = Len(c.fills)
  BY <1>1, <1>3
<1>5. /\ DOMAIN d.fills = 1..(n - 1) /\ Len(d.fills) = n - 1 /\ DOMAIN c.fills = 1..n
      /\ \A i \in 1..(n - 1) : d.fills[i] = c.fills[i]
  BY <1>3, <1>4
<1>6. Len(d.writers) = n
  BY <1>3, <1>4
<1>7. PhaseInv(d) /\ OrderInv(d) /\ StrictInv(d)
  BY <1>1, <1>2 DEF RequestInv, PhaseInv, OrderInv, StrictInv
<1>8. PathInv(d)
  <2>1. PICK own : own = ContentAt(c.route, 1, c.sent.path)
    OBVIOUS
  <2>2. /\ ContentAt(c.route, c.pos, c.path) = own
        /\ c.status = "ok" => c.content \in ContentType
        /\ \A i \in 1..n : c.fills[i].route = c.route
    BY <1>2, <1>5, <2>1 DEF RequestInv, PathInv
  <2>3. Kept(c.route) =>
          /\ c.path # <<>>
          /\ c.content # Nil \/ c.status = "ok" => c.content = own
          /\ \A i \in 1..n : ContentAt(c.route, c.fills[i].pos, c.fills[i].key[2]) = own
    BY <1>2, <1>5, <2>1 DEF RequestInv, PathInv
  <2>4. \A i \in 1..(n - 1) : i \in 1..n /\ d.fills[i] = c.fills[i]
    BY <1>5
  <2>5. \A i \in DOMAIN d.fills : d.fills[i].route = c.route
    BY <1>5, <2>2, <2>4
  <2>6. Kept(c.route) => \A i \in DOMAIN d.fills :
          ContentAt(c.route, d.fills[i].pos, d.fills[i].key[2]) = own
    BY <1>5, <2>3, <2>4
  <2>7. QED
    BY <1>1, <2>1, <2>2, <2>3, <2>5, <2>6 DEF PathInv
<1>9. WriterInv(d)
  <2>1. c.writers[1] # <<>> => d.writers[1] # <<>> /\ d.writers[1][1] = c.writers[1][1]
    <3>1. CASE d.writers[1] = c.writers[1]
      BY <3>1
    <3>2. CASE d.writers[1] = c.writers[1] \o c.writers[2] /\ Len(c.writers) = 2
      <4>1. PICK T : T = Seq(RequestIds)
        OBVIOUS
      <4>2. c.writers \in Seq(T)
        BY <1>3, <4>1
      <4>3. c.writers[1] \in T /\ c.writers[2] \in T
        BY <3>2, <4>2
      <4>4. PICK x, y : x = c.writers[1] /\ y = c.writers[2]
        OBVIOUS
      <4>5. x \in Seq(RequestIds) /\ y \in Seq(RequestIds)
        BY <4>1, <4>3, <4>4
      <4>6. x # <<>> => x \o y # <<>> /\ (x \o y)[1] = x[1]
        BY <4>5, FirstStays
      <4>7. QED
        BY <3>2, <4>4, <4>6
    <3>3. QED
      BY <3>1, <3>2 DEF Returned
  <2>2. QED
    BY <1>1, <1>5, <1>6, <2>1 DEF RequestInv, WriterInv
<1>10. QED
  BY <1>7, <1>8, <1>9 DEF RequestInv

\* Store as a whole: the request and the entry it leaves.
LEMMA StoreEffect ==
    ASSUME RouterInv, NEW r \in Request, Store(r)
    PROVE  /\ \E d \in CallType : Becomes(r, d) /\ Returned(call[r], d)
           /\ \A e \in cache' :
                 \/ e \in cache
                 \/ /\ call[r].status = "ok"
                    /\ e = [slot |-> Last(call[r].fills), content |-> call[r].content,
                            ids |-> Last(call[r].writers)]
<1>1. PICK c : c = call[r]
  OBVIOUS
<1>2. c \in CallType /\ WriterInv(c)
  BY <1>1 DEF RouterInv, CallTypeOK, RequestInv
<1>3. c.pc = "unwind" /\ c.fills # <<>>
  BY <1>1 DEF Store
<1>4. PICK T : T = Seq(RequestIds)
  OBVIOUS
<1>5. c.writers \in Seq(T) /\ c.fills \in Seq(SlotType) /\ Len(c.writers) = Len(c.fills) + 1
  BY <1>2, <1>4, CallFields DEF WriterInv
<1>6. PICK n \in Nat \ {0} : n = Len(c.fills) /\ n + 1 = Len(c.writers)
  BY <1>3, <1>5
<1>7. PICK outer : outer = Front(c.writers)
  OBVIOUS
<1>8. /\ outer \in Seq(T) /\ Len(outer) = n /\ DOMAIN outer = 1..n
      /\ \A i \in 1..n : outer[i] = c.writers[i] /\ c.writers[i] \in T
      /\ c.writers[n + 1] \in T
  BY <1>5, <1>6, <1>7 DEF Front
<1>9. PICK x : x = c.writers[n] \o c.writers[n + 1] /\ x \in Seq(RequestIds)
  <2>1. PICK a, b : a = c.writers[n] /\ b = c.writers[n + 1]
    OBVIOUS
  <2>2. a \in Seq(RequestIds) /\ b \in Seq(RequestIds)
    BY <1>4, <1>8, <2>1
  <2>3. a \o b \in Seq(RequestIds)
    BY <2>2
  <2>4. QED
    BY <2>1, <2>3
<1>10. PICK w : w = [outer EXCEPT ![n] = x]
  OBVIOUS
<1>11. Last(outer) \o Last(c.writers) = x
  <2>1. Last(outer) = outer[n] /\ Last(c.writers) = c.writers[n + 1]
    BY <1>6, <1>8 DEF Last
  <2>2. outer[n] = c.writers[n]
    BY <1>8
  <2>3. QED
    BY <1>9, <2>1, <2>2
<1>12. Top(outer, Last(outer) \o Last(c.writers)) = w
  BY <1>8, <1>10, <1>11 DEF Top
<1>13. w \in Seq(Seq(RequestIds)) /\ Len(w) = n
  <2>1. outer \in Seq(Seq(RequestIds)) /\ x \in Seq(RequestIds)
    BY <1>4, <1>8, <1>9
  <2>2. Top(outer, x) \in Seq(Seq(RequestIds)) /\ Len(Top(outer, x)) = Len(outer)
    BY <2>1, TopType
  <2>3. QED
    BY <1>8, <1>11, <1>12, <2>2
<1>14. w[1] = IF n = 1 THEN x ELSE c.writers[1]
  BY <1>8, <1>10
<1>15. PICK f : f = SubSeq(c.fills, 1, Len(c.fills) - 1)
  OBVIOUS
<1>16. f \in Seq(SlotType)
  BY <1>5, <1>6, <1>15
<1>17. PICK d : d = [c EXCEPT !.fills = f, !.writers = w]
  OBVIOUS
<1>18. /\ d \in CallType
       /\ d.pc = c.pc /\ d.sent = c.sent /\ d.route = c.route /\ d.pos = c.pos
       /\ d.ran = c.ran /\ d.path = c.path /\ d.id = c.id
       /\ d.status = c.status /\ d.content = c.content
       /\ d.fills = f /\ d.writers = w
  BY <1>2, <1>13, <1>16, <1>17 DEF CallType
<1>19. Becomes(r, d)
  <2>1. call \in [Request -> CallType]
    BY DEF RouterInv, CallTypeOK
  <2>2. /\ call' = [call EXCEPT ![r].fills = Front(@),
                                ![r].writers = Top(outer, Last(outer) \o Last(c.writers))]
        /\ UNCHANGED startVars
    BY <1>1, <1>7 DEF Store
  <2>3. Front(c.fills) = f
    BY <1>15 DEF Front
  <2>4. call' = [call EXCEPT ![r] = d]
    BY <1>1, <1>2, <1>12, <1>17, <2>1, <2>2, <2>3 DEF CallType
  <2>5. QED
    BY <2>2, <2>4 DEF Becomes
<1>20. Returned(c, d)
  <2>1. d.fills = SubSeq(c.fills, 1, Len(c.fills) - 1)
    BY <1>15, <1>18
  <2>2. Len(d.writers) = Len(c.writers) - 1
    BY <1>6, <1>13, <1>18
  <2>3. \/ d.writers[1] = c.writers[1]
        \/ d.writers[1] = c.writers[1] \o c.writers[2] /\ Len(c.writers) = 2
    <3>1. CASE n = 1
      <4>1. n + 1 = 2 /\ Len(c.writers) = 2
        BY <1>6, <3>1
      <4>2. x = c.writers[1] \o c.writers[2]
        BY <1>9, <3>1, <4>1
      <4>3. d.writers[1] = x
        BY <1>14, <1>18, <3>1
      <4>4. QED
        BY <4>1, <4>2, <4>3
    <3>2. CASE n # 1
      BY <1>14, <1>18, <3>2
    <3>3. QED
      BY <3>1, <3>2
  <2>4. QED
    BY <1>3, <1>18, <2>1, <2>2, <2>3 DEF Returned
<1>21. \A e \in cache' :
          \/ e \in cache
          \/ /\ c.status = "ok"
             /\ e = [slot |-> Last(c.fills), content |-> c.content, ids |-> Last(c.writers)]
  BY <1>1 DEF Store
<1>22. QED
  BY <1>1, <1>18, <1>19, <1>20, <1>21

\* A request that has only the client's writer yet.
LEMMA NewWriters ==
    \A c : c.writers = <<<<>>>> /\ c.fills = <<>> /\ c.ran = <<>> => WriterInv(c)
<1>1. PICK w, f, n : w = <<<<>>>> /\ f = <<>> /\ n = <<>>
  OBVIOUS
<1>2. Len(w) = 1 /\ Len(f) = 0 /\ DOMAIN n = {}
  BY <1>1
<1>3. QED
  BY <1>1, <1>2 DEF WriterInv

\* ServeHTTP up to the chain of the route it has found.
LEMMA ServeEffect ==
    ASSUME RouterInv, NEW r \in Request, NEW q \in scenario.sends[r], ServeHTTP(r, q)
    PROVE  cache' = cache /\ \E d \in CallType : Becomes(r, d) /\ RequestInv(d)
<1>1. stage = "serving" /\ call[r] = Idle /\ UNCHANGED startVars /\ cache' = cache
  BY DEF ServeHTTP, RouterInv, RequestInv, PhaseInv
<1>2. q \in QueryType
  BY RequestAssumption DEF RouterInv, StartInv, StartTypeOK
<1>3. q.path \in Seq(Text) /\ q.id \in RequestIds
  BY <1>2 DEF QueryType, RequestIds
<1>4. PICK m : m = Matched(q)
  OBVIOUS
<1>5. m \in Nat /\ (m # 0 => m \in DOMAIN cfg.routes)
  BY <1>4, MatchedFirst DEF RouterInv
<1>6. Idle \in CallType
  BY IdleCall
<1>7. /\ Idle.pos = 1 /\ Idle.ran = <<>> /\ Idle.fills = <<>> /\ Idle.writers = <<<<>>>>
      /\ Idle.content = Nil /\ Idle.status = "none" /\ Idle.route = 0
  BY DEF Idle
<1>8. CASE m = 0
  <2>1. PICK d : d = [Idle EXCEPT !.pc = "unwind", !.sent = q, !.status = "not found"]
    OBVIOUS
  <2>2. Becomes(r, d)
    BY <1>1, <1>4, <1>8, <2>1 DEF ServeHTTP, Becomes
  <2>3. /\ d \in CallType /\ d.pc = "unwind" /\ d.sent = q /\ d.status = "not found"
        /\ d.ran = <<>> /\ d.fills = <<>> /\ d.writers = <<<<>>>>
        /\ d.content = Nil /\ d.route = 0
    BY <1>2, <1>6, <1>7, <2>1 DEF CallType
  <2>4. PhaseInv(d) /\ OrderInv(d) /\ PathInv(d) /\ StrictInv(d)
    BY <1>1, <1>2, <1>4, <1>8, <2>3 DEF PhaseInv, OrderInv, PathInv, StrictInv
  <2>5. WriterInv(d)
    BY <2>3, NewWriters
  <2>6. QED
    BY <1>1, <2>2, <2>3, <2>4, <2>5 DEF RequestInv
<1>9. CASE m # 0
  <2>1. PICK d : d = [Idle EXCEPT !.pc = "chain", !.sent = q, !.path = q.path,
                                  !.id = q.id, !.route = m]
    OBVIOUS
  <2>2. Becomes(r, d)
    BY <1>1, <1>4, <1>9, <2>1 DEF ServeHTTP, Becomes
  <2>3. /\ d \in CallType /\ d.pc = "chain" /\ d.sent = q /\ d.status = "none"
        /\ d.ran = <<>> /\ d.fills = <<>> /\ d.writers = <<<<>>>>
        /\ d.content = Nil /\ d.route = m /\ d.pos = 1 /\ d.path = q.path
    BY <1>2, <1>3, <1>5, <1>6, <1>7, <2>1 DEF CallType
  <2>4. PhaseInv(d) /\ StrictInv(d)
    BY <1>1, <1>2, <1>4, <1>5, <1>9, <2>3 DEF PhaseInv, StrictInv
  <2>5. PathInv(d)
    <3>1. Kept(m) => q.path # <<>>
      BY DEF Kept, NeverEmpty
    <3>2. d.status # "ok" /\ DOMAIN d.fills = {}
      BY <2>3
    <3>3. QED
      BY <2>3, <3>1, <3>2 DEF PathInv
  <2>6. OrderInv(d)
    <3>1. PICK P \in Seq(PluginType) : P = PluginsOf(m)
      BY <1>5, <1>9, ConfigLists DEF RouterInv
    <3>2. SubSeq(P, 1, 0) = <<>> /\ 1 \in 1..(Len(P) + 1)
      OBVIOUS
    <3>3. QED
      BY <2>3, <3>1, <3>2 DEF OrderInv
  <2>7. WriterInv(d)
    BY <2>3, NewWriters
  <2>8. QED
    BY <1>1, <2>2, <2>3, <2>4, <2>5, <2>6, <2>7 DEF RequestInv
<1>10. QED
  BY <1>8, <1>9

\* A step that leaves the gateway alone leaves what it says of requests alone.
LEMMA MatchedKept ==
    ASSUME UNCHANGED startVars, NEW q
    PROVE  Matched(q)' = Matched(q)
  BY DEF startVars, Matched, SelectInSeq

LEMMA ContentKept ==
    ASSUME UNCHANGED startVars, NEW i, NEW k, NEW path
    PROVE  /\ PluginsOf(i)' = PluginsOf(i)
           /\ ContentAt(i, k, path)' = ContentAt(i, k, path)
  BY DEF startVars, PluginsOf, ContentAt

LEMMA KeptKept ==
    ASSUME UNCHANGED startVars, NEW i
    PROVE  Kept(i)' <=> Kept(i)
  BY DEF startVars, Kept, NeverEmpty

LEMMA KeyedKept ==
    ASSUME UNCHANGED startVars, NEW e, Keyed(e)
    PROVE  Keyed(e)'
<1>1. Kept(e.slot.route)' <=> Kept(e.slot.route)
  BY KeptKept
<1>2. ContentAt(e.slot.route, e.slot.pos, e.slot.key[2])'
         = ContentAt(e.slot.route, e.slot.pos, e.slot.key[2])
  BY ContentKept
<1>3. QED
  BY <1>1, <1>2 DEF Keyed

LEMMA Steady ==
    ASSUME UNCHANGED startVars, NEW c, RequestInv(c)
    PROVE  RequestInv(c)'
<1>1. Matched(c.sent)' = Matched(c.sent)
  BY MatchedKept
<1>2. PhaseInv(c)'
  BY <1>1 DEF RequestInv, PhaseInv, startVars
<1>3. OrderInv(c)'
  BY DEF RequestInv, OrderInv, PluginsOf, startVars
<1>4. PathInv(c)'
  <2>1. Kept(c.route)' <=> Kept(c.route)
    BY KeptKept
  <2>2. \A k, path : ContentAt(c.route, k, path)' = ContentAt(c.route, k, path)
    BY ContentKept
  <2>3. QED
    BY <2>1, <2>2 DEF RequestInv, PathInv
<1>5. WriterInv(c)' /\ StrictInv(c)'
  BY DEF RequestInv, WriterInv, StrictInv, startVars
<1>6. QED
  BY <1>2, <1>3, <1>4, <1>5 DEF RequestInv

LEMMA StartKept ==
    StartInv /\ HandlersInv /\ UNCHANGED startVars => StartInv' /\ HandlersInv'
<1>1. SUFFICES ASSUME StartInv, HandlersInv, UNCHANGED startVars
               PROVE  StartInv' /\ HandlersInv'
  OBVIOUS
<1>2. StartTypeOK' /\ BalancersInv'
  BY <1>1 DEF startVars, StartInv, StartTypeOK, BalancersInv, Loaded
<1>3. ConfigInv'
  BY <1>1, ZenonT(60) DEF startVars, StartInv, ConfigInv, ServiceChecked, RouteChecked,
         Loaded, SoundService, HasTargets
<1>4. HandlersInv'
  BY <1>1 DEF startVars, HandlersInv, ChainBuilt
<1>5. QED
  BY <1>2, <1>3, <1>4 DEF StartInv

LEMMA IdleNext == RequestInv(Idle)'
  BY IdleCall, PTL

\* One request takes a step.
LEMMA RequestStep ==
    ASSUME RouterInv, NEW r \in Request, NEW d \in CallType,
           Becomes(r, d), RequestInv(d), stage = "serving",
           \A e \in cache' : \/ e \in cache
                             \/ e \in EntryType /\ Keyed(e)
    PROVE  RouterInv'
<1>1. call' = [call EXCEPT ![r] = d] /\ UNCHANGED startVars
  BY DEF Becomes
<1>2. StartInv' /\ HandlersInv'
  BY <1>1, StartKept DEF RouterInv
<1>3. call \in [Request -> CallType]
  BY DEF RouterInv, CallTypeOK
<1>4. CallTypeOK'
  BY <1>1, <1>3 DEF RouterInv, CallTypeOK
<1>5. CacheInv'
  <2>1. stage' = "serving"
    BY <1>1 DEF startVars
  <2>2. ASSUME NEW e \in cache' PROVE Keyed(e)'
    <3>1. Keyed(e)
      BY <2>2 DEF RouterInv, CacheInv
    <3>2. QED
      BY <1>1, <3>1, KeyedKept
  <2>3. QED
    BY <2>1, <2>2 DEF CacheInv
<1>6. ASSUME NEW s \in Request PROVE RequestInv(call[s])'
  <2>1. PICK c : c = call'[s]
    OBVIOUS
  <2>2. RequestInv(c)
    BY <1>1, <1>3, <2>1 DEF RouterInv
  <2>3. RequestInv(c)'
    BY <1>1, <2>2, Steady
  <2>4. QED
    BY <2>1, <2>3
<1>7. QED
  BY <1>2, <1>4, <1>5, <1>6 DEF RouterInv

\* A request that is let pass.
LEMMA PassStep ==
    ASSUME RouterInv, NEW r \in Request,
           RequestID(r) \/ PathRewrite(r) \/ CacheBypass(r) \/ CacheMiss(r) \/ Judge(r, TRUE)
    PROVE  RouterInv'
<1>1. PICK c \in CallType : c = call[r] /\ RequestInv(c)
  BY DEF RouterInv, CallTypeOK
<1>2. PICK p, slot : p = PluginsOf(c.route)[c.pos] /\ slot = Slot(r)
  OBVIOUS
<1>3. PICK d \in CallType : Becomes(r, d) /\ Passed(c, d, p, slot)
  BY <1>1, <1>2, PassEffect
<1>4. cache' = cache /\ c.pos \in 1..Len(PluginsOf(c.route))
  BY <1>1, PassEffect
<1>5. slot.route = c.route /\ slot.pos = c.pos /\ slot.key[2] = RequestURI(c.path)
  BY <1>1, <1>2 DEF Slot
<1>6. AtPlugin(c, p, slot)
  BY <1>2, <1>4, <1>5 DEF AtPlugin
<1>7. RequestInv(d)
  BY <1>1, <1>3, <1>6, PassedInv DEF RouterInv
<1>8. stage = "serving"
  BY <1>1, <1>3 DEF Passed, RequestInv, PhaseInv
<1>9. QED
  BY <1>3, <1>4, <1>7, <1>8, RequestStep

\* A request that is answered.
LEMMA AnswerStep ==
    ASSUME RouterInv, NEW r \in Request,
           \/ Judge(r, FALSE)
           \/ \E e \in cache : CacheHit(r, e)
           \/ Unconfigured(r)
           \/ \E answer \in Answers, echo \in BOOLEAN : Forward(r, answer, echo)
    PROVE  RouterInv'
<1>1. PICK c \in CallType : c = call[r] /\ RequestInv(c)
  BY DEF RouterInv, CallTypeOK
<1>2. PICK d \in CallType, ids \in Seq(RequestIds) :
            Becomes(r, d) /\ Settled(c, d, ids) /\ Right(c, d)
  BY <1>1, AnswerEffect
<1>3. cache' = cache
  BY AnswerEffect
<1>4. RequestInv(d)
  BY <1>1, <1>2, SettledInv DEF RouterInv
<1>5. stage = "serving"
  BY <1>1, <1>2 DEF Settled, RequestInv, PhaseInv
<1>6. QED
  BY <1>2, <1>3, <1>4, <1>5, RequestStep

\* A recorder that is copied and perhaps stored.
LEMMA StoreStep ==
    ASSUME RouterInv, NEW r \in Request, Store(r)
    PROVE  RouterInv'
<1>1. PICK c \in CallType : c = call[r] /\ RequestInv(c)
  BY DEF RouterInv, CallTypeOK
<1>2. PICK d \in CallType : Becomes(r, d) /\ Returned(c, d)
  BY <1>1, StoreEffect
<1>3. RequestInv(d)
  BY <1>1, <1>2, ReturnedInv
<1>4. c.pc = "unwind" /\ c.fills # <<>>
  BY <1>2 DEF Returned
<1>5. /\ stage = "serving" /\ c.sent \in QueryType
      /\ c.route # 0 /\ c.route \in DOMAIN cfg.routes
  BY <1>1, <1>4 DEF RequestInv, PhaseInv
<1>6. /\ c.fills \in Seq(SlotType) /\ c.writers \in Seq(Seq(RequestIds))
      /\ Len(c.writers) = Len(c.fills) + 1
  BY <1>1, CallFields DEF RequestInv, WriterInv
<1>7. PICK n \in Nat \ {0} : n = Len(c.fills) /\ n + 1 = Len(c.writers)
  BY <1>4, <1>6
<1>8. /\ n \in DOMAIN c.fills /\ Last(c.fills) = c.fills[n]
      /\ Last(c.writers) = c.writers[n + 1]
  BY <1>6, <1>7 DEF Last
<1>9. PICK slot \in SlotType : slot = c.fills[n]
  BY <1>6, <1>8
<1>10. PICK ids \in Seq(RequestIds) : ids = c.writers[n + 1]
  <2>1. PICK T : T = Seq(RequestIds)
    OBVIOUS
  <2>2. c.writers[n + 1] \in T
    BY <1>6, <1>7, <2>1
  <2>3. QED
    BY <2>1, <2>2
<1>11. PICK own : own = ContentAt(c.route, 1, c.sent.path)
  OBVIOUS
<1>12. /\ slot.route = c.route
       /\ Kept(slot.route) => ContentAt(slot.route, slot.pos, slot.key[2]) = own
  BY <1>1, <1>5, <1>8, <1>9, <1>11 DEF RequestInv, PathInv
<1>13. c.status = "ok" => /\ c.content \in ContentType
                          /\ Kept(c.route) => c.content = own
  BY <1>1, <1>5, <1>11 DEF RequestInv, PathInv
<1>14. ASSUME NEW e \in cache', e \notin cache
       PROVE  e \in EntryType /\ Keyed(e)
  <2>1. c.status = "ok" /\ e = [slot |-> slot, content |-> c.content, ids |-> ids]
    BY <1>1, <1>8, <1>9, <1>10, <1>14, StoreEffect
  <2>2. e \in EntryType
    BY <1>9, <1>10, <1>13, <2>1 DEF EntryType
  <2>3. e.slot = slot /\ e.content = c.content
    BY <2>1
  <2>4. Keyed(e)
    BY <1>12, <1>13, <2>1, <2>3 DEF Keyed
  <2>5. QED
    BY <2>2, <2>4
<1>15. QED
  BY <1>2, <1>3, <1>5, <1>14, RequestStep

\* Everything a request may do.
LEMMA HandleStep ==
    ASSUME RouterInv, NEW r \in Request, Handle(r)
    PROVE  RouterInv'
<1>1. CASE \E q \in scenario.sends[r] : ServeHTTP(r, q)
  <2>1. PICK q \in scenario.sends[r] : ServeHTTP(r, q)
    BY <1>1
  <2>2. PICK d \in CallType : Becomes(r, d) /\ RequestInv(d)
    BY <2>1, ServeEffect
  <2>3. cache' = cache
    BY <2>1, ServeEffect
  <2>4. stage = "serving"
    BY <2>1 DEF ServeHTTP
  <2>5. QED
    BY <2>2, <2>3, <2>4, RequestStep
<1>2. CASE \E admit \in BOOLEAN : Judge(r, admit)
  <2>1. Judge(r, TRUE) \/ Judge(r, FALSE)
    BY <1>2
  <2>2. QED
    BY <2>1, PassStep, AnswerStep
<1>3. CASE Store(r)
  BY <1>3, StoreStep
<1>4. QED
  BY <1>1, <1>2, <1>3, PassStep, AnswerStep DEF Handle

-----------------------------------------------------------------------------
(* The inductive invariant. *)

LEMMA InitRouter == Init => RouterInv
<1>1. SUFFICES ASSUME Init PROVE RouterInv
  OBVIOUS
<1>2. StartupInit /\ call = [r \in Request |-> Idle] /\ cache = {}
  BY <1>1 DEF Init
<1>3. StartInv
  BY <1>2, InitStart
<1>4. HandlersInv
  BY <1>2 DEF StartupInit, HandlersInv
<1>5. CallTypeOK
  BY <1>2, IdleCall DEF CallTypeOK
<1>6. CacheInv
  BY <1>2 DEF CacheInv
<1>7. \A r \in Request : RequestInv(call[r])
  BY <1>2, IdleCall
<1>8. QED
  BY <1>3, <1>4, <1>5, <1>6, <1>7 DEF RouterInv

LEMMA NextRouter == RouterInv /\ [Next]_vars => RouterInv'
<1>1. SUFFICES ASSUME RouterInv, [Next]_vars PROVE RouterInv'
  OBVIOUS
<1>2. CASE StartupNext /\ UNCHANGED <<call, cache>>
  <2>1. StartInv' /\ stage # "serving" /\ HandlersInv'
    BY <1>1, <1>2, NextStart, NextHandlers DEF RouterInv
  <2>2. \A r \in Request : call[r] = Idle
    <3>1. ASSUME NEW r \in Request PROVE call[r] = Idle
      <4>1. PhaseInv(call[r])
        BY <1>1 DEF RouterInv, RequestInv
      <4>2. QED
        BY <2>1, <4>1 DEF PhaseInv
    <3>2. QED
      BY <3>1
  <2>3. cache = {}
    BY <1>1, <2>1 DEF RouterInv, CacheInv
  <2>4. CallTypeOK' /\ CacheInv'
    BY <1>1, <1>2, <2>3 DEF RouterInv, CallTypeOK, CacheInv
  <2>5. ASSUME NEW r \in Request PROVE RequestInv(call[r])'
    <3>1. call'[r] = Idle
      BY <1>2, <2>2
    <3>2. QED
      BY <3>1, IdleNext
  <2>6. QED
    BY <2>1, <2>4, <2>5 DEF RouterInv
<1>3. CASE \E r \in Request : Handle(r)
  BY <1>1, <1>3, HandleStep
<1>4. CASE (\E e \in cache : Expire(e)) \/ UNCHANGED vars
  <2>1. UNCHANGED <<startVars, call>> /\ cache' \subseteq cache
    BY <1>4 DEF Expire, vars
  <2>2. StartInv' /\ HandlersInv'
    BY <1>1, <2>1, StartKept DEF RouterInv
  <2>3. CallTypeOK'
    BY <1>1, <2>1 DEF RouterInv, CallTypeOK
  <2>4. CacheInv'
    <3>1. stage' = stage
      BY <2>1 DEF startVars
    <3>2. ASSUME NEW e \in cache' PROVE Keyed(e)'
      <4>1. Keyed(e)
        BY <1>1, <2>1, <3>2 DEF RouterInv, CacheInv
      <4>2. QED
        BY <2>1, <4>1, KeyedKept
    <3>3. stage' # "serving" => cache' = {}
      BY <1>1, <2>1, <3>1 DEF RouterInv, CacheInv
    <3>4. QED
      BY <3>2, <3>3 DEF CacheInv
  <2>5. ASSUME NEW r \in Request PROVE RequestInv(call[r])'
    <3>1. PICK c : c = call[r] /\ c = call'[r]
      BY <2>1
    <3>2. RequestInv(c)
      BY <1>1, <3>1 DEF RouterInv
    <3>3. RequestInv(c)'
      BY <2>1, <3>2, Steady
    <3>4. QED
      BY <3>1, <3>3
  <2>6. QED
    BY <2>2, <2>3, <2>4, <2>5 DEF RouterInv
<1>5. QED
  BY <1>1, <1>2, <1>3, <1>4 DEF Next

LEMMA AlwaysRouter == Spec => []RouterInv
  BY InitRouter, NextRouter, PTL DEF Spec

-----------------------------------------------------------------------------
(* The theorems. *)

\* What LoadConfig lets through is what the rest of the program takes for granted:
\* validateAndSetDefaults works on a copy of each service and writes it back, for
\* every configuration file.
THEOREM RouterConfigSound == Spec => []ConfigSound
<1>1. ASSUME StartInv PROVE ConfigSound
  <2>1. SUFFICES ASSUME stage \in Loaded
                 PROVE  /\ cfg.https => cfg.certificates # <<>>
                        /\ \A i \in DOMAIN cfg.services :
                            /\ SoundService(cfg.services[i])
                            /\ \A j \in DOMAIN cfg.services :
                                  cfg.services[j].name = cfg.services[i].name => i = j
                        /\ \A i, j \in DOMAIN cfg.routes :
                              cfg.routes[i].id = cfg.routes[j].id => i = j
    BY ZenonT(60) DEF ConfigSound, SoundService, Loaded
  <2>2. cfg.https => cfg.certificates # <<>>
    BY <1>1, <2>1 DEF StartInv, ConfigInv
  <2>3. /\ DOMAIN cfg.services \in SUBSET Nat /\ DOMAIN cfg.routes \in SUBSET Nat
    BY <1>1, ConfigLists
  <2>4. /\ \A i \in DOMAIN cfg.services :
              /\ SoundService(cfg.services[i])
              /\ \A j \in DOMAIN cfg.services :
                    j < i => cfg.services[j].name # cfg.services[i].name
        /\ \A i \in DOMAIN cfg.routes :
              \A j \in DOMAIN cfg.routes : j < i => cfg.routes[j].id # cfg.routes[i].id
    BY <1>1, <2>1 DEF StartInv, ConfigInv, ServiceChecked, RouteChecked
  <2>5. QED
    BY <2>2, <2>3, <2>4
<1>2. QED
  BY <1>1, AlwaysRouter, PTL DEF RouterInv

\* With fail_on_service_init_error NewProxy gives up at the first balancer that
\* cannot be made, so no client of a gateway that serves gets the 502 of an
\* unconfigured service.
THEOREM RouterStrictServes == Spec => []StrictServes
<1>1. RouterInv => StrictServes
  BY DEF RouterInv, StartInv, StartTypeOK, RequestInv, StrictInv, StrictServes
<1>2. QED
  BY <1>1, AlwaysRouter, PTL

\* ChainPlugins and the handlers it nests apply the plugins of a route in the
\* order of its list, for every list, and nothing but a caching plugin answers
\* with content before the end.
THEOREM RouterEnforcedInOrder == Spec => []EnforcedInOrder
<1>1. ASSUME RouterInv PROVE EnforcedInOrder
  <2>1. SUFFICES ASSUME NEW r \in Request, call[r].route # 0, Buildable(RouteOf(r))
                 PROVE  /\ IsPrefix(call[r].ran, RouteOf(r).plugins)
                        /\ call[r].content # Nil =>
                            \/ call[r].ran = RouteOf(r).plugins
                            \/ RouteOf(r).plugins[Len(call[r].ran) + 1].name = "caching"
    BY DEF EnforcedInOrder
  <2>2. PICK c \in CallType : c = call[r] /\ RequestInv(c)
    BY <1>1 DEF RouterInv, CallTypeOK
  <2>3. PICK P, k, ran : P = PluginsOf(c.route) /\ k = c.pos /\ ran = c.ran
    OBVIOUS
  <2>4. RouteOf(r).plugins = P
    BY <2>1, <2>2, <2>3 DEF RouteOf, PluginsOf
  <2>5. /\ P \in Seq(PluginType) /\ k \in 1..(Len(P) + 1) /\ ran = SubSeq(P, 1, k - 1)
    BY <1>1, <2>1, <2>2, <2>3, SentFacts DEF RouterInv
  <2>6. /\ ran \in Seq(PluginType) /\ Len(ran) = k - 1 /\ k - 1 <= Len(P)
        /\ \A i \in 1..(k - 1) : ran[i] = P[i]
    BY <2>5
  <2>7. IsPrefix(ran, P)
    <3>1. SubSeq(ran, 1, Len(ran)) = ran /\ SubSeq(P, 1, Len(ran)) = ran
      BY <2>5, <2>6
    <3>2. QED
      BY <2>5, <2>6, <3>1 DEF IsPrefix
  <2>8. c.content # Nil => k = Len(P) + 1 \/ P[k].name = "caching"
    BY <2>1, <2>2, <2>3 DEF RequestInv, OrderInv
  <2>9. k = Len(P) + 1 => ran = P
    BY <2>5, <2>6
  <2>10. Len(ran) + 1 = k
    BY <2>5, <2>6
  <2>11. c.content # Nil => ran = P \/ P[Len(ran) + 1].name = "caching"
    BY <2>8, <2>9, <2>10
  <2>12. QED
    BY <2>2, <2>3, <2>4, <2>7, <2>11
<1>2. QED
  BY <1>1, AlwaysRouter, PTL

\* Whatever requests have left in the caches of this and other routes, and
\* wherever a caching plugin stands among rewriting ones, a client gets the content
\* of its own route under its own path, as long as no client sends an empty path and
\* no plugin of the route makes one: then RequestURI() names the path.
THEOREM RouterAnswerIsOwn == Spec => []AnswerIsOwn
<1>1. ASSUME RouterInv PROVE AnswerIsOwn
  <2>1. SUFFICES ASSUME NEW r \in Request, call[r].content # Nil, NeverEmpty(RouteOf(r))
                 PROVE  call[r].content = <<RouteOf(r).service,
                                            UpstreamPath(RouteOf(r), call[r].sent.path)>>
    BY DEF AnswerIsOwn, Own
  <2>2. PICK c \in CallType : c = call[r] /\ RequestInv(c)
    BY <1>1 DEF RouterInv, CallTypeOK
  <2>3. c.route # 0
    BY <2>1, <2>2 DEF RequestInv, PhaseInv
  <2>4. c.content = ContentAt(c.route, 1, c.sent.path)
    <3>1. Kept(c.route)
      BY <2>1, <2>2 DEF Kept, RouteOf
    <3>2. QED
      BY <2>1, <2>2, <2>3, <3>1 DEF RequestInv, PathInv
  <2>5. c.sent.path \in Seq(Text)
    <3>1. c.pc # "idle"
      BY <2>2, <2>3 DEF RequestInv, PhaseInv, Idle
    <3>2. c.sent \in QueryType
      BY <2>2, <3>1 DEF RequestInv, PhaseInv
    <3>3. QED
      BY <3>2 DEF QueryType
  <2>6. PICK P \in Seq(PluginType) : P = PluginsOf(c.route)
    BY <1>1, <2>2, <2>3, SentFacts DEF RouterInv
  <2>7. PICK path \in Seq(Text) : path = c.sent.path
    BY <2>5
  <2>8. UpstreamPath(RouteOf(r), path) = Through(Rest(P, 1), path)
    <3>1. CASE Buildable(RouteOf(r))
      <4>1. Rest(P, 1) = P
        BY DEF Rest
      <4>2. RouteOf(r).plugins = P
        BY <2>2, <2>6, <3>1 DEF RouteOf, PluginsOf
      <4>3. UpstreamPath(RouteOf(r), path) = Through(RouteOf(r).plugins, path)
        BY <3>1 DEF UpstreamPath, Through
      <4>4. QED
        BY <4>1, <4>2, <4>3
    <3>2. CASE ~Buildable(RouteOf(r))
      <4>1. P = <<>> /\ Len(P) = 0
        BY <2>2, <2>6, <3>2 DEF RouteOf, PluginsOf
      <4>2. Through(Rest(P, 1), path) = path
        <5>1. 1 \in Nat /\ 1 > Len(P)
          BY <4>1
        <5>2. QED
          BY <5>1, ThroughEnd
      <4>3. QED
        BY <3>2, <4>2 DEF UpstreamPath
    <3>3. QED
      BY <3>1, <3>2
  <2>9. QED
    BY <2>2, <2>4, <2>6, <2>7, <2>8 DEF ContentAt, RouteOf
<1>2. QED
  BY <1>1, AlwaysRouter, PTL

\* However many caches record and replay headers, a client whose request passed
\* request-id outside all of them has an ID, also if it sent an empty one, and
\* finds it first.
THEOREM RouterOwnRequestID == Spec => []OwnRequestID
<1>1. ASSUME RouterInv PROVE OwnRequestID
  <2>1. SUFFICES ASSUME NEW r \in Request, call[r].fills = <<>>,
                        NEW i \in DOMAIN call[r].ran, IDFirst(call[r].ran, i)
                 PROVE  /\ ~Missing(call[r].id)
                        /\ Head(call[r].writers) # <<>>
                        /\ Head(Head(call[r].writers)) = call[r].id
    BY DEF OwnRequestID, IDFirst
  <2>2. PICK c \in CallType : c = call[r] /\ WriterInv(c)
    BY <1>1 DEF RouterInv, CallTypeOK, RequestInv
  <2>3. PICK w, T : w = c.writers /\ T = Seq(RequestIds)
    OBVIOUS
  <2>4. w \in Seq(T) /\ Len(w) = 1 /\ ~Missing(c.id) /\ w[1] # <<>> /\ w[1][1] = c.id
    <3>1. c.writers \in Seq(Seq(RequestIds)) /\ c.fills = <<>> /\ Len(<<>>) = 0
      BY <2>1, <2>2, CallFields
    <3>2. Len(c.writers) = 1
      BY <2>2, <3>1 DEF WriterInv
    <3>3. ~Missing(c.id) /\ c.writers[1] # <<>> /\ c.writers[1][1] = c.id
      BY <2>1, <2>2 DEF WriterInv
    <3>4. QED
      BY <2>3, <3>1, <3>2, <3>3
  <2>5. w[1] \in Seq(RequestIds) /\ Head(w) = w[1]
    BY <2>3, <2>4
  <2>6. PICK x \in Seq(RequestIds) : x = w[1]
    BY <2>5
  <2>7. Head(x) = x[1]
    OBVIOUS
  <2>8. QED
    BY <2>2, <2>3, <2>4, <2>5, <2>6, <2>7
<1>2. QED
  BY <1>1, AlwaysRouter, PTL

\* A request goes to the first route of the file that covers it, for every file
\* LoadConfig lets through, every host, method and path and every pairing of
\* letters: cutting off ports, stars and labels and comparing methods letter by
\* letter finds what the patterns promise, and no route is passed over because its
\* service is unknown.
THEOREM RouterRoutedRight == Spec => []RoutedRight
<1>1. ASSUME RouterInv PROVE RoutedRight
  <2>1. SUFFICES ASSUME NEW r \in Request, call[r].pc # "idle"
                 PROVE  /\ \A i \in DOMAIN cfg.routes :
                            Covers(cfg.routes[i], call[r].sent) => call[r].route \in 1..i
                        /\ call[r].route # 0 => Covers(RouteOf(r), call[r].sent)
    BY DEF RoutedRight
  <2>2. PICK c, q : c = call[r] /\ q = call[r].sent
    OBVIOUS
  <2>3. stage = "serving" /\ q \in QueryType /\ c.route = Matched(q)
    <3>1. PhaseInv(c)
      BY <1>1, <2>2 DEF RouterInv, RequestInv
    <3>2. QED
      BY <2>1, <2>2, <3>1 DEF PhaseInv
  <2>4. \A i \in DOMAIN cfg.routes : cfg.routes[i].service \in Names(cfg.services)
    BY <1>1, <2>3 DEF RouterInv, StartInv, ConfigInv, RouteChecked, Loaded
  <2>5. \A i \in DOMAIN cfg.routes : Matches(cfg.routes[i], q) <=> Covers(cfg.routes[i], q)
    <3>1. cfg.routes \in Seq(RouteType)
      BY <1>1, ConfigLists DEF RouterInv
    <3>2. \A i \in DOMAIN cfg.routes : cfg.routes[i] \in RouteType
      BY <3>1
    <3>3. QED
      BY <2>3, <3>2, MatchesCovers
  <2>6. /\ Matched(q) # 0 => /\ Matched(q) \in DOMAIN cfg.routes
                             /\ Matches(cfg.routes[Matched(q)], q)
        /\ \A i \in DOMAIN cfg.routes :
              Matches(cfg.routes[i], q) /\ cfg.routes[i].service \in Names(cfg.services)
              => Matched(q) \in 1..i
    BY <1>1, MatchedFirst DEF RouterInv
  <2>7. QED
    BY <2>2, <2>3, <2>4, <2>5, <2>6 DEF RouteOf
<1>2. QED
  BY <1>1, AlwaysRouter, PTL
=============================================================================
