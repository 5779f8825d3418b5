------------------------------- MODULE MCRouter ------------------------------
(* Small instances of Router for TLC. *)
EXTENDS Router

CONSTANTS r1, r2

-----------------------------------------------------------------------------
(* Parts of configuration files. *)

Health(path, n) == [ready |-> path, live |-> "", interval |-> n, timeout |-> n,
                    unhealthy |-> n, healthy |-> n]
LB(strategy, targets, health) ==
    [strategy |-> strategy, targets |-> targets, health |-> health]
Service(name, url, urls, lb) ==
    [name |-> name, url |-> url, urls |-> urls, lb |-> lb]
At(name, url) == Service(name, url, <<>>, Nil)

Plain(name) == [name |-> name, valid |-> TRUE]
Invalid(name) == [name |-> name, valid |-> FALSE]
Rewrite(from, to) ==
    [name |-> "path-rewrite", valid |-> TRUE, from |-> from, to |-> to]

Route(id, host, methods, paths, service, plugins) ==
    [id |-> id, host |-> host, methods |-> methods, paths |-> paths,
     service |-> service, plugins |-> plugins]
Simple(id, path, service, plugins) ==
    Route(id, <<>>, {}, <<path>>, service, plugins)

Certificate(key) == [hostname |-> "h", certFile |-> "c", keyFile |-> key]
File(strict, services, routes) ==
    [strict |-> strict, https |-> FALSE, certificates |-> <<>>,
     services |-> services, routes |-> routes]
HTTPS(file, certificates) ==
    [file EXCEPT !.https = TRUE, !.certificates = certificates]

Silent == [r \in Request |-> {}]
Run(config, sends) == [config |-> config, sends |-> sends]

-----------------------------------------------------------------------------
(* Files that differ in what validateAndSetDefaults looks at. *)

RawLBs == {Nil} \cup {LB(s, t, h) : s \in {"", "weighted", "unheard-of"},
                                    t \in {<<>>, <<"u1">>, <<"u1", "u2">>},
                                    h \in {Nil, Health("/h", 0), Health("", 1),
                                           Health("/h", 3)}}
RawServices == {Service("s1", url, urls, lb) : url \in {"", "u1"},
                                               urls \in {<<>>, <<"u1", "u2">>},
                                               lb \in RawLBs}

AnyService == {Run(File(strict, <<At("s2", "u1"), s>>, <<>>), Silent) :
                   strict \in BOOLEAN, s \in RawServices}

Names2 == {"", "s1", "s2"}
AnyNames == {Run(File(FALSE, <<At(a, "u1"), At(b, "u2")>>,
                      <<Simple(i, p, a, <<>>), Simple(j, <<"/">>, s, <<>>)>>), Silent) :
                 a \in Names2, b \in Names2, i \in {"", "i"}, j \in {"i", "j"},
                 s \in Names2, p \in {<<"/">>}}
NoPaths == Run(File(FALSE, <<At("s1", "u1")>>,
                    <<Route("i", <<>>, {}, <<>>, "s1", <<>>)>>), Silent)
AnyHTTPS == {Run(HTTPS(File(FALSE, <<>>, <<>>), c), Silent) :
                 c \in {<<>>, <<Certificate("k")>>, <<Certificate("")>>}}

-----------------------------------------------------------------------------
(* Requests. *)

GET == <<"G", "E", "T">>
PUT == <<"P", "U", "T">>

Ask(host, method, path) ==
    [host |-> host, method |-> method, path |-> path, id |-> Nil]

Paths(n) == {<<"/">> \o p : p \in UNION {[1..k -> {"/", "a", "b"}] : k \in 0..n}}
Hosts == {<<>>, <<"b">>, <<"a", "b">>, <<"a", ".", "b">>, <<"a", ".", "b", ".", "b">>,
          <<".", "b">>, <<"b", ":", "8">>, <<"a", ".", "b", ":", "8">>}

\* Every request against patterns of all kinds.
Matching ==
    Run(File(FALSE, <<At("s1", "u1")>>,
             <<Route("any", <<"*", ".", "b">>, {<<"g", "E", "t">>},
                     <<<<"/", "a", "/", "*">>, <<"/", "b", "*">>>>, "s1", <<>>),
               Route("port", <<"b">>, {GET, <<"P", "O", "S", "T">>}, <<<<"/", "*">>>>, "s1", <<>>),
               Route("deep", <<>>, {}, <<<<"/", "b", "/", "*">>, <<"/", "a", "/">>>>,
                     "s1", <<>>),
               Simple("root", <<"/", "*">>, "s1", <<>>)>>),
        [Silent EXCEPT ![r1] = {Ask(h, m, p) : h \in Hosts, p \in Paths(3),
                                               m \in {GET, <<"G", "e", "t">>, PUT, <<"G", "E">>}}])

\* The two requests of a scenario, with or without an ID of their own.
Get(path) == [Ask(<<"b">>, GET, path) EXCEPT !.id = "x"]
Some == {Ask(<<"b">>, GET, <<"/", "a">>), Get(<<"/", "a">>), Get(<<"/", "b">>),
         [Get(<<"/", "b">>) EXCEPT !.id = ""], Ask(<<"b">>, PUT, <<"/", "a">>)}
Busy == [r \in Request |-> Some]

RewriteAtoB == Rewrite(<<"/", "a">>, <<"/", "b">>)

\* Two routes that meet in one path, each with a cache.
Caches ==
    Run(File(FALSE, <<At("s1", "u1"), At("s2", "u2")>>,
             <<Simple("a", <<"/", "a", "*">>, "s1",
                      <<Plain("request-id"), RewriteAtoB, Plain("caching")>>),
               Simple("b", <<"/", "b">>, "s2",
                      <<Plain("caching"), Plain("authentication")>>)>>),
        Busy)

\* A cache inside a cache, and IDs given inside of it.
Nested ==
    Run(File(TRUE, <<At("s1", "u1")>>,
             <<Simple("a", <<"/", "*">>, "s1",
                      <<Plain("rate-limiting"), Plain("request-id"),
                        Plain("caching"), Plain("request-id"), RewriteAtoB,
                        Plain("caching")>>)>>),
        Busy)

\* A route whose chain cannot be built, one whose service has no balancer.
Partial(strict) ==
    Run(File(strict, <<At("s1", "bad"), At("s2", "u1")>>,
             <<Simple("a", <<"/", "a">>, "s2",
                      <<Plain("authentication"), Plain("logging")>>),
               Simple("b", <<"/", "b">>, "s1", <<Invalid("authentication")>>),
               Simple("c", <<"/", "*">>, "s1", <<Plain("rate-limiting")>>)>>),
        Busy)

\* An upstream at http://u/api that is reached by a prefix taken away: the paths /a
\* and /a/ become the empty one and "/".
Stripping ==
    Run(File(FALSE, <<At("s1", "http://u/api")>>,
             <<Simple("a", <<"/", "a", "*">>, "s1",
                      <<Rewrite(<<"/", "a">>, <<>>), Plain("caching")>>)>>),
        [r \in Request |-> {Get(<<"/", "a">>), Get(<<"/", "a", "/">>)}])

Strings == STRING
ASCII == [G |-> "g", E |-> "e", T |-> "t", P |-> "p", U |-> "u", O |-> "o", S |-> "s"]
Parse == {"bad"}
Every == AnyService \cup AnyNames \cup AnyHTTPS \cup
         {NoPaths, Matching, Caches, Nested, Partial(TRUE), Partial(FALSE),
          Stripping}
Skipping == {Partial(FALSE)}
=============================================================================
