------------------------------- MODULE MCProxy -------------------------------
(* Small instances of Proxy for TLC. *)
EXTENDS Proxy, TLC

CONSTANTS t1, t2, t3

ThreeTargets == {t1, t2, t3}

\* All of the targets, some of them in another order, and none.
Pools == {<<t1, t2, t3>>, <<t3, t1>>, <<>>}

\* Requests are interchangeable.
RequestSymmetry == Permutations(Request)
=============================================================================
