----------------------------- MODULE MCBalancers -----------------------------
(* Small instances of Balancers for TLC. *)
EXTENDS Balancers, TLC

CONSTANTS t1, t2, t3

AllTargets == {t1, t2, t3}

\* Slices of every length from none to three.
Pools == {<<>>, <<t1>>, <<t2, t1>>, <<t1, t2, t3>>}
TwoTargets == {<<t1, t2>>}

\* The same with small weights.
UpTo(n, S) == UNION {[1..k -> S] : k \in 0..n}

Configs == UpTo(3, -1..3) \ {<<>>}
Slices == UpTo(2, [weight : -2..2, healthy : BOOLEAN])
          \cup [1..3 -> [weight : {0, 1, 2}, healthy : BOOLEAN]]
=============================================================================
