------------------------------- MODULE Router -------------------------------
(***************************************************************************)
(* Requests in the gateway that Startup has built: Router.ServeHTTP        *)
(* (app/router/router.go) picks the first route whose host, method and     *)
(* path match, and the request runs through the plugins of that route      *)
(* (app/plugins) to the proxy.  A caching plugin hands its inner handlers  *)
(* a recorder instead of the client's writer and copies from it when they  *)
(* have returned, so a request unwinds through the plugins it has passed.  *)
(*                                                                         *)
(* Paths and hosts are sequences of characters: patterns cut them in the   *)
(* middle.  Authentication and rate limiting appear as their verdict, and  *)
(* a cache entry's lifetime as Expire; these have modules of their own.    *)
(***************************************************************************)
EXTENDS Startup

CONSTANTS
    Request,    \* request goroutines
    LowerOf     \* the lower-case letter of each upper-case one

\* What the router and the plugins look at in a request of a client; Nil is a
\* missing X-Request-ID.
QueryType == [host : Seq(Text), method : Seq(Text), path : Seq(Text),
              id : Text \cup {Nil}]

ASSUME RequestAssumption ==
    /\ Nil \notin Request /\ "" \notin Request
    /\ \A s \in Scenarios : s.sends \in [Request -> SUBSET QueryType]

\* Letters come in pairs.
ASSUME LetterAssumption ==
    /\ LowerOf = [u \in DOMAIN LowerOf |-> LowerOf[u]]
    /\ \A u, v \in DOMAIN LowerOf : LowerOf[u] # v /\ (LowerOf[u] = LowerOf[v] => u = v)

VARIABLES
    call,     \* per request: where it is and what it carries
    cache     \* the entries of all caching plugin instances

vars == <<startVars, call, cache>>

\* How the proxy may answer: a 200 whose body fits a cache, a 200 whose body is
\* larger, an error.
Answers == {"ok", "large", "error"}

\* A request before it is sent.  writers are the values of X-Request-ID in the
\* headers of the client's writer and of the recorders in place; fills are the
\* cache slots these recorders will be stored in; ran are the plugins that have
\* let the request pass (history).
Idle == [pc |-> "idle", sent |-> Nil, path |-> <<>>, id |-> Nil, route |-> 0,
         pos |-> 1, writers |-> <<<<>>>>, fills |-> <<>>, ran |-> <<>>,
         status |-> "none", content |-> Nil]

-----------------------------------------------------------------------------
(* Matching. *)

HasPrefix(s, prefix) == IsPrefix(prefix, s)

HasSuffix(s, suffix) ==
    /\ Len(suffix) <= Len(s)
    /\ SubSeq(s, Len(s) - Len(suffix) + 1, Len(s)) = suffix

Drop(s, n) == SubSeq(s, 1, Len(s) - n)

\* Without the port.
Hostname(host) ==
    LET colon == SelectInSeq(host, LAMBDA c : c = ":")
    IN  IF colon = 0 THEN host ELSE SubSeq(host, 1, colon - 1)

MatchHost(pattern, host) ==
    IF HasPrefix(pattern, <<"*", ".">>)
    THEN LET base == SubSeq(pattern, 3, Len(pattern))
         IN  host # base /\ HasSuffix(host, <<".">> \o base)
    ELSE host = pattern

\* strings.EqualFold: the same characters, or both forms of the same letter.
EqualFold(s, t) ==
    /\ Len(s) = Len(t)
    /\ \A i \in DOMAIN s :
        \/ s[i] = t[i]
        \/ s[i] \in DOMAIN LowerOf /\ t[i] = LowerOf[s[i]]
        \/ t[i] \in DOMAIN LowerOf /\ s[i] = LowerOf[t[i]]

MatchMethod(methods, method) ==
    methods = {} \/ \E m \in methods : EqualFold(m, method)

MethodGet == <<"G", "E", "T">>

\* URL.RequestURI: an empty path becomes "/".
RequestURI(path) == IF path = <<>> THEN <<"/">> ELSE path

-----------------------------------------------------------------------------
(* Seeded faults; no specification uses them. *)

\* The prefix need not end where a segment ends.
MatchPathLoose(path, pattern) ==
    \/ path = pattern
    \/ HasSuffix(pattern, <<"/", "*">>) /\ HasPrefix(path, Drop(pattern, 2))
    \/ HasSuffix(pattern, <<"*">>) /\ HasPrefix(path, Drop(pattern, 1))

\* One store for all instances of the plugin.
SlotShared(r) == [route |-> 0, pos |-> 0,
                  key |-> <<call[r].sent.host, RequestURI(call[r].path)>>]

\* A hit replaces the headers set so far.
ReplayedSet(set, cached) == IF cached = <<>> THEN set ELSE cached

-----------------------------------------------------------------------------
MatchPath(path, pattern) ==
    \/ path = pattern
    \/ /\ HasSuffix(pattern, <<"/", "*">>)
       /\ \/ path = Drop(pattern, 2)
          \/ HasPrefix(path, Drop(pattern, 2) \o <<"/">>)
    \/ /\ HasSuffix(pattern, <<"*">>)
       /\ ~HasSuffix(pattern, <<"/", "*">>)
       /\ HasPrefix(path, Drop(pattern, 1))

Matches(route, q) ==
    /\ route.host # <<>> => MatchHost(route.host, Hostname(q.host))
    /\ MatchMethod(route.methods, q.method)
    /\ \E i \in DOMAIN route.paths : MatchPath(q.path, route.paths[i])

\* The loop over the routes; one whose service is unknown is passed over.
Matched(q) ==
    SelectInSeq(cfg.routes, LAMBDA route : /\ Matches(route, q)
                                           /\ route.service \in Names(cfg.services))

RouteOf(r) == cfg.routes[call[r].route]

\* The pre-built chain, or the proxy alone if there is none.
Chain(r) == IF RouteOf(r).id \in DOMAIN handlers THEN handlers[RouteOf(r).id]
                                                 ELSE <<>>

-----------------------------------------------------------------------------
(* The plugins. *)

\* ReplaceAllString for an expression ^from.
Rewritten(path, p) ==
    IF HasPrefix(path, p.from)
    THEN p.to \o SubSeq(path, Len(p.from) + 1, Len(path))
    ELSE path

\* Where a caching plugin keeps the answer to a request: every instance has a
\* store of its own, keyed by host and request URI; only GET is cached.
Slot(r) == [route |-> call[r].route, pos |-> call[r].pos,
            key |-> <<call[r].sent.host, RequestURI(call[r].path)>>]

\* Header().Add: the values already there come first.
Replayed(set, cached) == set \o cached

\* httptest.NewRecorder() for the handlers inside.
Recording(writers) == Append(writers, <<>>)

\* The innermost writer's values become ids.
Top(writers, ids) == [writers EXCEPT ![Len(writers)] = ids]

\* The header is not there, or it is empty.
Missing(id) == id \in {Nil, ""}

\* The request is at a plugin of that name.
Reaches(r, name) ==
    /\ call[r].pc = "chain"
    /\ call[r].pos <= Len(Chain(r))
    /\ Chain(r)[call[r].pos].name = name

\* The plugin calls next.ServeHTTP; c is the request as it passes it on.
Pass(r, c) ==
    call' = [call EXCEPT ![r] = [c EXCEPT !.pos = @ + 1,
                                          !.ran = Append(@, Chain(r)[c.pos])]]

\* Somebody answers; the handlers that called it return.
Answered(c, status, content, ids) ==
    [c EXCEPT !.pc = "unwind", !.status = status, !.content = content,
              !.writers = Top(@, Replayed(Last(@), ids))]

-----------------------------------------------------------------------------
Init ==
    /\ StartupInit
    /\ call = [r \in Request |-> Idle]
    /\ cache = {}

\* A client sends a request and the router matches it.
ServeHTTP(r, q) ==
    /\ stage = "serving"
    /\ call[r].pc = "idle"
    /\ call' = [call EXCEPT ![r] =
           IF Matched(q) = 0
           THEN [@ EXCEPT !.pc = "unwind", !.sent = q, !.status = "not found"]
           ELSE [@ EXCEPT !.pc = "chain", !.sent = q, !.path = q.path,
                          !.id = q.id, !.route = Matched(q)]]
    /\ UNCHANGED <<startVars, cache>>

\* The request keeps its ID or gets a new one, which the response shows too.
RequestID(r) ==
    LET id == IF Missing(call[r].id) THEN r ELSE call[r].id IN
    /\ Reaches(r, "request-id")
    /\ Pass(r, [call[r] EXCEPT !.id = id, !.writers = Top(@, <<id>>)])
    /\ UNCHANGED <<startVars, cache>>

PathRewrite(r) ==
    /\ Reaches(r, "path-rewrite")
    /\ Pass(r, [call[r] EXCEPT !.path = Rewritten(@, Chain(r)[call[r].pos])])
    /\ UNCHANGED <<startVars, cache>>

\* Authentication or the rate limiter lets the request pass, or answers it.
Judge(r, admit) ==
    /\ Reaches(r, "authentication") \/ Reaches(r, "rate-limiting")
    /\ IF admit
       THEN Pass(r, call[r])
       ELSE call' = [call EXCEPT ![r] = Answered(@, "rejected", Nil, <<>>)]
    /\ UNCHANGED <<startVars, cache>>

CacheBypass(r) ==
    /\ Reaches(r, "caching")
    /\ call[r].sent.method # MethodGet
    /\ Pass(r, call[r])
    /\ UNCHANGED <<startVars, cache>>

CacheHit(r, e) ==
    /\ Reaches(r, "caching")
    /\ call[r].sent.method = MethodGet
    /\ e.slot = Slot(r)
    /\ call' = [call EXCEPT ![r] = Answered(@, "ok", e.content, e.ids)]
    /\ UNCHANGED <<startVars, cache>>

\* The plugins and the proxy behind this one write into a recorder.
CacheMiss(r) ==
    /\ Reaches(r, "caching")
    /\ call[r].sent.method = MethodGet
    /\ \A e \in cache : e.slot # Slot(r)
    /\ Pass(r, [call[r] EXCEPT !.writers = Recording(@),
                               !.fills = Append(@, Slot(r))])
    /\ UNCHANGED <<startVars, cache>>

\* The proxy has no balancer for the service ...
Unconfigured(r) ==
    /\ call[r].pc = "chain"
    /\ call[r].pos > Len(Chain(r))
    /\ RouteOf(r).service \notin DOMAIN balancers
    /\ call' = [call EXCEPT ![r] = Answered(@, "unconfigured", Nil, <<>>)]
    /\ UNCHANGED <<startVars, cache>>

\* ... or an upstream answers, perhaps repeating the ID, or cannot be reached.  Its
\* content is named by the service and by the path that the Director appends to the
\* path of the upstream's URL.  All such paths are told apart: for http://u/api the
\* empty path is /api and "/" is /api/ (singleJoiningSlash).
Forward(r, answer, echo) ==
    /\ call[r].pc = "chain"
    /\ call[r].pos > Len(Chain(r))
    /\ RouteOf(r).service \in DOMAIN balancers
    /\ call' = [call EXCEPT ![r] =
           Answered(@, answer,
                    IF answer = "error" THEN Nil ELSE <<RouteOf(r).service, @.path>>,
                    IF echo /\ @.id # Nil THEN <<@.id>> ELSE <<>>)]
    /\ UNCHANGED <<startVars, cache>>

\* A caching plugin's inner handlers have returned: what they wrote is copied to
\* its own writer and cached if it is a 200 of limited size.
Store(r) ==
    LET c == call[r]
        outer == Front(c.writers) IN
    /\ c.pc = "unwind"
    /\ c.fills # <<>>
    /\ call' = [call EXCEPT ![r].fills = Front(@),
                            ![r].writers = Top(outer, Last(outer) \o Last(c.writers))]
    /\ cache' = IF c.status = "ok"
                THEN {e \in cache : e.slot # Last(c.fills)} \cup
                     {[slot |-> Last(c.fills), content |-> c.content,
                       ids |-> Last(c.writers)]}
                ELSE cache
    /\ UNCHANGED startVars

\* An entry reaches the end of its life.
Expire(e) ==
    /\ cache' = cache \ {e}
    /\ UNCHANGED <<startVars, call>>

Handle(r) ==
    \/ \E q \in scenario.sends[r] : ServeHTTP(r, q)
    \/ RequestID(r) \/ PathRewrite(r) \/ CacheBypass(r) \/ CacheMiss(r)
    \/ \E admit \in BOOLEAN : Judge(r, admit)
    \/ \E e \in cache : CacheHit(r, e)
    \/ Unconfigured(r)
    \/ \E answer \in Answers, echo \in BOOLEAN : Forward(r, answer, echo)
    \/ Store(r)

Next ==
    \/ StartupNext /\ UNCHANGED <<call, cache>>
    \/ \E r \in Request : Handle(r)
    \/ \E e \in cache : Expire(e)

Spec == Init /\ [][Next]_vars

-----------------------------------------------------------------------------
\* What the rest of the program takes for granted of a configuration LoadConfig
\* has let through: every service has targets (NewProxy skips one without even
\* in strict mode) and, with several of them, a strategy; probes have a path, an
\* interval a ticker accepts and thresholds that can be reached; service names
\* and route IDs, the keys of the later maps, are unique; certificates exist.
ConfigSound ==
    stage \in {"balancers", "chains", "serving"} =>
        /\ cfg.https => cfg.certificates # <<>>
        /\ \A i \in DOMAIN cfg.services :
            LET s == cfg.services[i] IN
            /\ HasTargets(s)
            /\ Len(s.lb.targets) > 1 => s.lb.strategy \in ValidStrategies
            /\ s.lb.health # Nil =>
                /\ s.lb.health.ready # "" \/ s.lb.health.live # ""
                /\ \A n \in {s.lb.health.interval, s.lb.health.timeout,
                             s.lb.health.unhealthy, s.lb.health.healthy} : n > 0
            /\ \A j \in DOMAIN cfg.services : cfg.services[j].name = s.name => i = j
        /\ \A i, j \in DOMAIN cfg.routes : cfg.routes[i].id = cfg.routes[j].id => i = j

\* The paths above a path: what stands before one of its slashes, or itself.
Ancestors(path) ==
    {path} \cup {SubSeq(path, 1, i - 1) : i \in {j \in DOMAIN path : path[j] = "/"}}

\* The domains above a host name: what follows one of its dots.
Parents(host) ==
    {SubSeq(host, i + 1, Len(host)) : i \in {j \in DOMAIN host : host[j] = "."}}

\* What a method is when case does not matter.
Lower(method) ==
    [i \in DOMAIN method |-> IF method[i] \in DOMAIN LowerOf THEN LowerOf[method[i]]
                                                            ELSE method[i]]

\* What patterns promise: p/* is all that lies under p (README.md:129) and p itself
\* ("Exact match for the part before /*", router.go:248), p* all that begins with p
\* (router.go:256), *.d the hosts under d but not d (config-sample.yaml:106, :117),
\* and case does not matter in a method (router.go:174).
Covers(route, q) ==
    /\ \/ route.host = <<>>
       \/ \E host \in {SubSeq(q.host, 1, i) : i \in 0..Len(q.host)} :
            /\ q.host = host \/ HasPrefix(q.host, host \o <<":">>)
            /\ \A i \in DOMAIN host : host[i] # ":"
            /\ \/ route.host = host
               \/ \E d \in Parents(host) : route.host = <<"*", ".">> \o d
    /\ route.methods = {} \/ Lower(q.method) \in {Lower(m) : m \in route.methods}
    /\ \E i \in DOMAIN route.paths :
        \/ route.paths[i] = q.path
        \/ \E p \in Ancestors(q.path) : route.paths[i] = p \o <<"/", "*">>
        \/ \E n \in 0..Len(q.path) :
            /\ route.paths[i] = SubSeq(q.path, 1, n) \o <<"*">>
            /\ n > 0 => q.path[n] # "/"

\* A request goes to the first route in the file that covers it, and is "not
\* found" only if none does: in particular no route is passed over because its
\* service is unknown (router.go:205, "Should be caught by config validation").
RoutedRight ==
    \A r \in Request : call[r].pc # "idle" =>
        /\ \A i \in DOMAIN cfg.routes :
            Covers(cfg.routes[i], call[r].sent) => call[r].route \in 1..i
        /\ call[r].route # 0 => Covers(RouteOf(r), call[r].sent)

\* "Plugins are applied in the order they are defined" (README.md:236): when the
\* chain of a route could be built, the plugins a request has passed are the
\* first ones of its route's list, and it gets content only from the end of that
\* list or from a caching plugin right behind those it has passed.
EnforcedInOrder ==
    \A r \in Request :
        LET listed == RouteOf(r).plugins
            ran == call[r].ran
        IN  call[r].route # 0 /\ Buildable(RouteOf(r)) =>
            /\ IsPrefix(ran, listed)
            /\ call[r].content # Nil =>
                ran = listed \/ listed[Len(ran) + 1].name = "caching"

\* The path the upstream of a route sees for a path a client asks for.
UpstreamPath(route, path) ==
    IF Buildable(route)
    THEN FoldLeft(LAMBDA p, plugin : IF plugin.name = "path-rewrite"
                                     THEN Rewritten(p, plugin) ELSE p,
                  path, route.plugins)
    ELSE path

\* The content of the service of a request's route under the request's own path.
Own(r) == <<RouteOf(r).service, UpstreamPath(RouteOf(r), call[r].sent.path)>>

\* No request has an empty path at any plugin of this route: clients send none
\* ("GET http://host" would be one) and no rewriting leaves one.
NeverEmpty(route) ==
    /\ \A r \in Request : \A q \in scenario.sends[r] : q.path # <<>>
    /\ \A i \in DOMAIN route.plugins :
          route.plugins[i].name = "path-rewrite" => route.plugins[i].to # <<>>

\* A client gets the content it asked for, fresh or cached: that of the service
\* of its route under its own path, whatever other requests have left in the
\* caches of this and other routes, as long as no path becomes empty: the key
\* ("unique", caching.go:90) of an empty path is that of "/".
AnswerIsOwn ==
    \A r \in Request :
        call[r].content # Nil /\ NeverEmpty(RouteOf(r)) => call[r].content = Own(r)

\* "Ensure every request has a unique ID" (README.md:25): a client whose request
\* has passed request-id before any caching plugin has an ID and finds it first in
\* the response, also when the rest of the headers was recorded for someone else.
OwnRequestID ==
    \A r \in Request : call[r].pc = "unwind" /\ call[r].fills = <<>> =>
        \A i \in DOMAIN call[r].ran :
            (/\ call[r].ran[i].name = "request-id"
             /\ \A j \in 1..i : call[r].ran[j].name # "caching")
            => /\ ~Missing(call[r].id)
               /\ Head(call[r].writers) # <<>>
               /\ Head(Head(call[r].writers)) = call[r].id

\* fail_on_service_init_error (config-sample.yaml:40): with it a gateway that
\* serves has a balancer for every route, so no client meets the 502 of an
\* unconfigured service.
StrictServes ==
    scenario.config.strict =>
        \A r \in Request : call[r].status # "unconfigured"

\* "Failed to build plugin chain for route %s: %v. Route will be skipped."
\* (router.go:75): no request is served by a route without its chain.
SkippedNotServed ==
    \A r \in Request : call[r].route # 0 => RouteOf(r).id \in DOMAIN handlers
=============================================================================
