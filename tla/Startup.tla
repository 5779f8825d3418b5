------------------------------- MODULE Startup -------------------------------
(***************************************************************************)
(* From the configuration file to a gateway that serves: LoadConfig of     *)
(* app/config/config.go checks and completes the configuration in place,   *)
(* NewProxy (app/proxy/proxy.go) makes a load balancer per service, and    *)
(* NewRouter (app/router/router.go) a plugin chain per route.  Each of     *)
(* them skips what it cannot make and leaves the others to cope with it.   *)
(***************************************************************************)
EXTENDS Integers, SequencesExt

CONSTANTS
    Scenarios,    \* configuration files, and the requests clients then send
    Text,         \* the strings of the files and requests
    Unparsable,   \* URLs that url.Parse rejects
    Nil

\* What yaml.Unmarshal makes of a file: Config, Service, LoadBalancingConfig,
\* HealthCheckConfig, Route and PluginConfig of app/config/config.go.  A section
\* the file does not have is Nil.
HealthType == [ready : Text, live : Text, interval : Int, timeout : Int,
               unhealthy : Int, healthy : Int]
LBType == [strategy : Text, targets : Seq(Text), health : HealthType \cup {Nil}]
ServiceType == [name : Text, url : Text, urls : Seq(Text),
                lb : LBType \cup {Nil}]
PluginType == [name : Text \ {"path-rewrite"}, valid : BOOLEAN] \cup
              [name : {"path-rewrite"}, valid : BOOLEAN, from : Seq(Text),
               to : Seq(Text)]
RouteType == [id : Text, host : Seq(Text), methods : SUBSET Seq(Text),
              paths : Seq(Seq(Text)), service : Text, plugins : Seq(PluginType)]
CertificateType == [hostname : Text, certFile : Text, keyFile : Text]
ConfigType == [strict : BOOLEAN, https : BOOLEAN,
               certificates : Seq(CertificateType),
               services : Seq(ServiceType), routes : Seq(RouteType)]

ASSUME ScenarioAssumption ==
    /\ {"", "/", "round-robin"} \subseteq Text
    /\ Nil \notin HealthType \cup LBType
    /\ \A s \in Scenarios : s.config \in ConfigType

VARIABLES
    scenario,     \* the one under way
    stage,        \* what main() is busy with
    at,           \* the service or route it looks at
    cfg,          \* the configuration
    balancers,    \* proxy.serviceLBs: strategy by service name
    handlers      \* router.routeHandlers: chain of plugins by route ID

startVars == <<scenario, stage, at, cfg, balancers, handlers>>

ValidStrategies == {"round-robin", "least-connections", "random", "weighted"}

\* The plugins that register themselves, and those whose Init can fail.
PluginRegistry == {"authentication", "caching", "path-rewrite", "rate-limiting",
                   "request-id"}
Fallible == {"authentication", "path-rewrite"}

\* f with value y for x, new or not.
With(f, x, y) == [z \in DOMAIN f \cup {x} |-> IF z = x THEN y ELSE f[z]]

\* The field of all elements of a sequence of records.
Names(services) == {services[i].name : i \in DOMAIN services}
IDs(routes) == {routes[i].id : i \in DOMAIN routes}

Before(list) == SubSeq(list, 1, at - 1)

-----------------------------------------------------------------------------
(* validateAndSetDefaults. *)

GlobalError(c) ==
    /\ c.https
    /\ \/ c.certificates = <<>>
       \/ \E i \in DOMAIN c.certificates :
              "" \in {c.certificates[i].hostname, c.certificates[i].certFile,
                      c.certificates[i].keyFile}

HasTargets(s) == s.lb # Nil /\ s.lb.targets # <<>>

\* The name is missing or taken, or not exactly one way to list upstreams is
\* used.  (upstream_urls next to targets are ignored.)
ServiceError(s, taken) ==
    \/ s.name = ""
    \/ s.name \in taken
    \/ s.urls = <<>> /\ s.url = "" /\ ~HasTargets(s)
    \/ s.url # "" /\ (s.urls # <<>> \/ HasTargets(s))

EmptyLB == [strategy |-> "", targets |-> <<>>, health |-> Nil]
LBOf(s) == IF s.lb = Nil THEN EmptyLB ELSE s.lb

\* upstream_url or upstream_urls become targets.
Populated(s) ==
    IF HasTargets(s) THEN s
    ELSE IF s.url # ""
    THEN [s EXCEPT !.lb = [LBOf(s) EXCEPT !.targets = <<s.url>>], !.url = ""]
    ELSE [s EXCEPT !.lb = [LBOf(s) EXCEPT !.targets = s.urls,
                              !.strategy = IF @ = "" THEN "round-robin" ELSE @],
                   !.urls = <<>>]

LoadBalancingError(lb) ==
    \/ lb.targets = <<>>
    \/ lb.strategy = "" /\ Len(lb.targets) > 1
    \/ lb.strategy \notin ValidStrategies \cup {""}
    \/ lb.health # Nil /\ lb.health.ready = "" /\ lb.health.live = ""

Positive(n, default) == IF n <= 0 THEN default ELSE n

\* Numbers a ticker accepts and thresholds that can be reached.
Timed(health) ==
    [health EXCEPT !.interval = Positive(@, 30), !.timeout = Positive(@, 5),
                   !.unhealthy = Positive(@, 2), !.healthy = Positive(@, 1)]

Defaulted(lb) ==
    [lb EXCEPT !.strategy = IF @ = "" THEN "round-robin" ELSE @,
               !.health = IF @ = Nil THEN Nil ELSE Timed(@)]

\* The loop variable is a copy: load_balancing is checked and completed only if
\* the file had such a section.
Rejected(s, taken) ==
    \/ ServiceError(s, taken)
    \/ s.lb # Nil /\ LoadBalancingError(Populated(s).lb)

RouteError(route, taken, services) ==
    \/ route.id = ""
    \/ route.id \in taken
    \/ route.paths = <<>>
    \/ route.service \notin services

-----------------------------------------------------------------------------
(* Seeded faults; no specification uses them. *)

\* The completed service is assigned to the loop variable.
CompletedOnCopy(s) == IF s.lb = Nil THEN s
                      ELSE [Populated(s) EXCEPT !.lb = Defaulted(@)]

\* The chain is built front to back: the last plugin is outermost.
ChainPluginsReversed(plugins) ==
    FoldLeft(LAMBDA chain, plugin : <<plugin>> \o chain, <<>>, plugins)

\* failStrictly is never set.
StrictlyNever(c) == FALSE

-----------------------------------------------------------------------------
Completed(s) ==
    IF s.lb = Nil THEN Populated(s) ELSE [Populated(s) EXCEPT !.lb = Defaulted(@)]

\* failStrictly.
Strictly(c) == c.strict

\* NewLoadBalancer fails if none of the targets' URLs parses ...
NoTargets(s) == \A i \in DOMAIN s.lb.targets : s.lb.targets[i] \in Unparsable

\* ... and falls back to round-robin.
Kind(strategy) == IF strategy \in ValidStrategies THEN strategy ELSE "round-robin"

\* GetPluginInstance.
Available(plugin) ==
    /\ plugin.name \in PluginRegistry
    /\ plugin.name \in Fallible => plugin.valid

\* Every plugin wraps what comes after it, the proxy last.
ChainPlugins(plugins) ==
    FoldRight(LAMBDA plugin, chain : <<plugin>> \o chain, plugins, <<>>)

\* buildPluginChain succeeds.
Buildable(route) == \A i \in DOMAIN route.plugins : Available(route.plugins[i])

-----------------------------------------------------------------------------
StartupInit ==
    /\ scenario \in Scenarios
    /\ cfg = scenario.config
    /\ stage = "global"
    /\ at = 1
    /\ balancers = <<>>
    /\ handlers = <<>>

\* log.Fatalf: the process ends.
Fatal ==
    /\ stage' = "exited"
    /\ UNCHANGED <<scenario, at, cfg, balancers, handlers>>

\* A loop of one stage has ended.
Proceed(from, list, to) ==
    /\ stage = from
    /\ at > Len(list)
    /\ stage' = to
    /\ at' = 1
    /\ UNCHANGED <<scenario, cfg, balancers, handlers>>

Step(label, list) ==
    /\ stage = label
    /\ at <= Len(list)
    /\ at' = at + 1
    /\ UNCHANGED <<scenario, stage>>

LoadGlobal ==
    /\ stage = "global"
    /\ ~GlobalError(cfg)
    /\ stage' = "services"
    /\ UNCHANGED <<scenario, at, cfg, balancers, handlers>>

LoadService ==
    /\ Step("services", cfg.services)
    /\ ~Rejected(cfg.services[at], Names(Before(cfg.services)))
    /\ cfg' = [cfg EXCEPT !.services[at] = Completed(@)]
    /\ UNCHANGED <<balancers, handlers>>

LoadRoute ==
    /\ Step("routes", cfg.routes)
    /\ ~RouteError(cfg.routes[at], IDs(Before(cfg.routes)), Names(cfg.services))
    /\ UNCHANGED <<cfg, balancers, handlers>>

\* LoadConfig returns an error and main() gives up.
LoadFails ==
    /\ \/ stage = "global" /\ GlobalError(cfg)
       \/ /\ stage = "services" /\ at <= Len(cfg.services)
          /\ Rejected(cfg.services[at], Names(Before(cfg.services)))
       \/ /\ stage = "routes" /\ at <= Len(cfg.routes)
          /\ RouteError(cfg.routes[at], IDs(Before(cfg.routes)), Names(cfg.services))
    /\ Fatal

\* One iteration of NewProxy; a service without targets or balancer is skipped.
NewBalancer ==
    LET s == cfg.services[at] IN
    /\ Step("balancers", cfg.services)
    /\ IF ~HasTargets(s) \/ NoTargets(s)
       THEN ~(HasTargets(s) /\ Strictly(cfg)) /\ UNCHANGED balancers
       ELSE balancers' = With(balancers, s.name, Kind(s.lb.strategy))
    /\ UNCHANGED <<cfg, handlers>>

\* With fail_on_service_init_error the first failure ends the program.
NewProxyFails ==
    /\ stage = "balancers" /\ at <= Len(cfg.services)
    /\ HasTargets(cfg.services[at]) /\ NoTargets(cfg.services[at])
    /\ Strictly(cfg)
    /\ Fatal

\* One iteration of buildRouteHandlers.
BuildRouteHandler ==
    LET route == cfg.routes[at] IN
    /\ Step("chains", cfg.routes)
    /\ handlers' = IF Buildable(route)
                   THEN With(handlers, route.id, ChainPlugins(route.plugins))
                   ELSE handlers
    /\ UNCHANGED <<cfg, balancers>>

StartupNext ==
    \/ LoadGlobal \/ LoadService \/ LoadRoute \/ LoadFails
    \/ Proceed("services", cfg.services, "routes")
    \/ Proceed("routes", cfg.routes, "balancers")
    \/ NewBalancer \/ NewProxyFails
    \/ Proceed("balancers", cfg.services, "chains")
    \/ BuildRouteHandler
    \/ Proceed("chains", cfg.routes, "serving")
=============================================================================
