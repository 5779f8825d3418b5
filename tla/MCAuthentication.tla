-------------------------- MODULE MCAuthentication --------------------------
(* Small instances of Authentication for TLC.                               *)
EXTENDS Authentication, TLC

CONSTANTS k1, k2, a, b

Doc(lookup, hash, client, form) ==
    [lookup |-> lookup, hash |-> hash, client |-> client, form |-> form]

\* A key's entry, one filed under the same lookup key with another hash, and a
\* damaged one.
ThreeDocuments == {Doc(k1, k1, a, "good"), Doc(k1, k2, b, "good"),
                   Doc(k2, k2, b, "damaged")}

\* No list, one with a key of its own, one with a damaged entry and a second
\* entry for the same key.
K2a == Doc(k2, k2, a, "good")
K2b == Doc(k2, k2, b, "good")
K1d == Doc(k1, k1, a, "damaged")
ThreeListed == {K2a, K2b, K1d}
ThreeYamls == {<<>>, <<K2a>>, <<K2a, K1d, K2b>>}
=============================================================================
