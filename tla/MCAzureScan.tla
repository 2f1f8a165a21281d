----------------------------- MODULE MCAzureScan -----------------------------
(* AzureScan on two resources: r2 is one a finding is due for, and r1 differs *)
(* from such a one in at most two fields.                                    *)
EXTENDS AzureScan, TLC

CONSTANTS r1, r2

MCIdleDays == [vnet_gateway |-> 4, ai_search |-> 3, aml_compute |-> 3, aml_instance |-> 0,
               ml_endpoint |-> 3, openai |-> 4, sql_database |-> 3, app_service |-> 3, registry |-> 3]
MCPlans == [free |-> "free", paid |-> "paid", unpriced |-> None]
MCLags == {0, 1, 2}

\* Telemetry: a zero for each tick of the window, and what it may be instead.
Point(t, v) == [at |-> t, value |-> v, scoped |-> TRUE]
Foreign(t, v) == [at |-> t, value |-> v, scoped |-> FALSE]
Quiet(rl) == {Point(t, 0) : t \in InWindow(rl)}
Answers(rl) ==
    LET w == InWindow(rl)
        without(T) == {p \in Quiet(rl) : p.at \notin T}
        marks == {WindowStart(rl), WindowStart(rl) + 1, Now - 2, Now - 1}
        values == {None, 1} \cup (IF rl \in {"ai_search", "aml_compute"} THEN {Junk} ELSE {})
    IN  {None, {}, {Point(Now - 1, 0)}} \cup (IF rl = "aml_compute" THEN {{Foreign(t, 0) : t \in w}} ELSE {}) \cup (IF rl \in {"sql_database", "app_service"} THEN {Absent} ELSE {})
        \cup {without(T) : T \in {{t} : t \in w} \cup {{a, b} : a, b \in marks} \cup {marks}}
        \cup {without({t}) \cup {Point(t, v)} : t \in marks, v \in values}
        \cup {Quiet(rl) \cup {p} : p \in {Point(WindowStart(rl) - 1, 1), Point(None, 1)}
                                          \cup (IF rl = "aml_compute" THEN {Foreign(Now - 2, 1)} ELSE {})}

Telemetry(rl, metrics) == [m \in metrics |-> Quiet(rl)]
\* Views of a value that is v, and of others.
View(v) == <<v, None>>
Views(v, others) ==
    {<<None, None>>, <<None, v>>} \cup {<<o, None>> : o \in others}
    \cup {<<v, o>> : o \in others} \cup {<<o, v>> : o \in others}

Scope == [location |-> "eu", named |-> TRUE, parent |-> "p1"]
OddScope == [location |-> {"us"}, named |-> {FALSE}]
OddNested == [parent |-> {"p2"}] @@ OddScope

PoolRule(single, multi) == [single |-> single, multi |-> multi]
Members(n) == [nics |-> <<None, None>>, addresses |-> View(n)]
GwRule(map, pool, policy, redirect) ==
    [id |-> "rule", pathBased |-> map # None, map |-> map, pool |-> pool, policy |-> policy,
     redirect |-> redirect]
Gw(t, b) == [type |-> View(t), bypass |-> View(b)]
Old == 3
VpnMetrics == GatewayMetrics([type |-> View("Vpn")])
ErGateway(tier) ==
    [state |-> View("Succeeded"), type |-> View("ExpressRoute"), wan |-> View("no"),
     admin |-> <<"Enabled", Absent>>, p2s |-> <<Absent, Absent>>, connections |-> {}, tier |-> tier,
     telemetry |-> Telemetry("vnet_gateway", GatewayMetrics([type |-> View("ExpressRoute"), tier |-> tier]))]
    @@ Scope

Plain ==
  [lb |-> [state |-> View("Succeeded"), standard |-> TRUE,
           balancing |-> View({PoolRule(View("p1"), <<None, None>>)}), outbound |-> <<None, None>>,
           pools |-> View([p1 |-> Members(0), p2 |-> Members(0)])] @@ Scope,
   public_ip |-> [state |-> View("Succeeded"),
                  links |-> [l \in {"ip_configuration", "nat_gateway", "linked", "service"} |-> <<None, None>>],
                  allocation |-> View("Static"), address |-> View("a")] @@ Scope,
   plan |-> [state |-> "Succeeded", paid |-> TRUE, sites |-> 0, capacity |-> 1, apps |-> 0] @@ Scope,
   disk |-> [provisioning |-> View("Succeeded"), state |-> View("Unattached"),
             managedBy |-> <<None, Absent>>, managedByExtended |-> <<None, Absent>>,
             maxShares |-> View(1), frequentAttach |-> View("no"),
             ownership |-> View(1), created |-> View(0)] @@ Scope,
   vm |-> [state |-> View("Succeeded"), power |-> {"stopped"}] @@ Scope,
   vnet_gateway |-> ErGateway("ErGw"),
   vpn_gateway |-> [state |-> View("Succeeded"), type |-> View("Vpn"), wan |-> View("no"),
                    admin |-> <<Absent, Absent>>, p2s |-> <<"empty", Absent>>, connections |-> {},
                    tier |-> "Vpn", telemetry |-> Telemetry("vnet_gateway", VpnMetrics)] @@ Scope,
   app_gateway |-> [pools |-> <<[id |-> "p1", targets |-> 0], [id |-> "p2", targets |-> 1]>>,
                    maps |-> <<[id |-> "map", pool |-> "p2", policy |-> None,
                                rules |-> <<[name |-> "a", pool |-> "p1", policy |-> None]>>]>>,
                    policies |-> <<[id |-> "policy", targets |-> <<[name |-> "t", pool |-> "p1"]>>]>>,
                    requestRules |-> <<GwRule(None, "p1", None, None)>>,
                    routingRules |-> <<>>] @@ Scope,
   ai_search |-> [state |-> View("succeeded"), status |-> View("running"), billable |-> TRUE,
                  created |-> Old, replicas |-> View(1), partitions |-> View(1), objects |-> {},
                  telemetry |-> Telemetry("ai_search", SearchMetrics)] @@ Scope,
   aml_compute |-> [type |-> View("AmlCompute"), provisioning |-> View("Succeeded"),
                    allocation |-> View("Steady"), created |-> View(Old), min |-> View(1),
                    current |-> View(1),
                    telemetry |-> Telemetry("aml_compute", {"Active Nodes"})] @@ Scope,
   aml_instance |-> [type |-> View("ComputeInstance"), provisioning |-> View("Succeeded"),
                     state |-> "Running", created |-> View(Old), modified |-> View(Old + 1),
                     operation |-> Old + 2, gpu |-> FALSE] @@ Scope,
   ml_endpoint |-> [state |-> "Succeeded", kind |-> "managed", created |-> Old,
                    deployments |-> {[stable |-> TRUE, kind |-> "managed", min |-> 1,
                                      count |-> None, gpu |-> FALSE]},
                    telemetry |-> Telemetry("ml_endpoint", {"RequestsPerMinute"})] @@ Scope,
   openai |-> [accountState |-> View("Succeeded"), state |-> View("Succeeded"), openai |-> TRUE,
               provisioned |-> TRUE, capacity |-> 1, created |-> Old,
               telemetry |-> Telemetry("openai", {"AzureOpenAIRequests"})] @@ Scope,
   sql_database |-> [status |-> View("Online"), master |-> FALSE, created |-> View(Old),
                     pooled |-> FALSE, secondary |-> FALSE, paused |-> None, resumed |-> None,
                     telemetry |-> Telemetry("sql_database", SqlMetrics)] @@ Scope,
   app_service |-> [state |-> "Running", disabled |-> FALSE, slot |-> FALSE, function |-> FALSE,
                    plan |-> "paid", tier |-> "paid", jobs |-> 0,
                    telemetry |-> Telemetry("app_service", AppMetrics)] @@ Scope,
   registry |-> [state |-> View("Succeeded"), created |-> View(Old), knownSku |-> TRUE,
                 telemetry |-> Telemetry("registry", RegistryMetrics)] @@ Scope]

OddTelemetry(rl, plain, metrics) ==
    {[Plain[plain].telemetry EXCEPT ![m] = a] : m \in metrics, a \in Answers(rl)}

Deployment(stable, kind, min, count, gpu) ==
    [stable |-> stable, kind |-> kind, min |-> min, count |-> count, gpu |-> gpu]
Ages == {Now - 6, Now - 5, Now + 1}

\* Those that have n references at most.
AtMost(n, tuples) == {refs \in tuples : Cardinality({k \in DOMAIN refs : refs[k] # None}) <= n}

Odd ==
  [lb |-> [state |-> Views("Succeeded", {"Updating"}), standard |-> {FALSE},
           balancing |-> {<<None, None>>, <<None, {PoolRule(View("p1"), <<None, None>>)}>>,
                          <<{}, {PoolRule(View("p1"), <<None, None>>)}>>}
               \cup {View({PoolRule(s, m)}) :
                        s \in {<<None, None>>, <<None, "p2">>, View("p1"), View("px"), View(Broken)},
                        m \in {<<None, None>>, View({}), View({"p1", "p2"}), View({Broken})}}
               \cup {View({PoolRule(View("p1"), <<None, None>>), PoolRule(<<None, "p2">>, <<None, None>>)})},
           outbound |-> {View({}), View({PoolRule(View("p2"), <<None, None>>)})},
           pools |-> {View([p1 |-> a, p2 |-> b]) :
                         a, b \in {Members(0), Members(None), Members(1),
                                   [nics |-> <<None, 1>>, addresses |-> <<None, None>>],
                                   [nics |-> <<0, 1>>, addresses |-> <<None, None>>]}}] @@ OddScope,
   public_ip |-> [state |-> Views("Succeeded", {"Failed"}),
                  links |-> {[Plain.public_ip.links EXCEPT ![l] = v] :
                                l \in DOMAIN Plain.public_ip.links,
                                v \in {View("x"), <<None, "x">>, View(Broken)}},
                  allocation |-> Views("Dynamic", {"Static"}), address |-> {<<None, None>>, <<None, "a">>}]
                 @@ OddScope,
   plan |-> [state |-> {"Failed"}, paid |-> {FALSE}, sites |-> {None, 1}, capacity |-> {None, 0},
             apps |-> {1, 2}] @@ OddScope,
   disk |-> [provisioning |-> Views("Succeeded", {"Failed"}), state |-> Views("Unattached", {"Attached"}),
             managedBy |-> {None, Absent, "", "vm"} \X {None, Absent, "", "vm"},
             managedByExtended |-> {None, Absent, Broken, 0, 1} \X {None, Absent, Broken, 0, 1},
             maxShares |-> Views(1, {0, 2, Broken}), frequentAttach |-> Views("no", {"yes", Broken}),
             ownership |-> Views(1, {2, Now + 1, Broken}), created |-> Views(1, {2, Broken})] @@ OddScope,
   vm |-> [state |-> Views("Succeeded", {"Updating"}),
           power |-> {{}, {"deallocated"}, {"running"}, {"stopped", "running"}}] @@ OddScope,
   vnet_gateway |-> [state |-> Views("Succeeded", {"Updating"}),
                     type |-> Views("ExpressRoute", {"LocalGateway"}),
                     wan |-> {View(None), View("yes"), <<"no", "yes">>},
                     admin |-> {"Enabled", "Disabled", "", Absent} \X {"Enabled", "Disabled", None, Absent},
                     connections |->
                         {{[type |-> View("Other"), bypass |-> b]} :
                             b \in {"yes", "no", None, Absent} \X {"yes", "no", Absent}}
                         \cup {{Gw("Other", "no"), Gw("ExpressRoute", "no")}},
                     tier |-> {None},
                     telemetry |-> OddTelemetry("vnet_gateway", "vnet_gateway", {"BitsPerSecond", "ActiveFlows"})]
                    @@ OddScope,
   vpn_gateway |-> [state |-> {<<"Succeeded", "Updating">>}, type |-> {<<None, "Vpn">>, <<"Vpn", "ExpressRoute">>},
                    wan |-> {<<"no", "yes">>},
                    p2s |-> {"empty", "set", "mixed", None, Absent} \X {"empty", "set", None, Absent},
                    connections |->
                        {{[type |-> t, bypass |-> View("yes")]} : t \in Views("Other", {"IPsec", "Vnet2Vnet"})},
                    telemetry |-> OddTelemetry("vnet_gateway", "vpn_gateway", {"InboundFlowsCount"})] @@ OddScope,
   app_gateway |-> [pools |-> {<<[id |-> "p1", targets |-> a], [id |-> "p2", targets |-> b]>> : a, b \in {0, 1}}
                              \cup {<<[id |-> "p1", targets |-> 0], [id |-> "p1", targets |-> 1]>>,
                                    <<[id |-> None, targets |-> 0]>>},
                    maps |-> {<<>>} \cup
                             {<<[id |-> "map", pool |-> refs[1], policy |-> refs[2],
                                 rules |-> <<[name |-> IF refs[4] = None THEN None ELSE "a",
                                              pool |-> refs[3], policy |-> refs[4]]>>]>> :
                                 refs \in AtMost(2, {None, "p1", "px", Broken} \X {None, "policy", "lx"}
                                                       \X {None, "p1", Broken} \X {None, "policy"})},
                    policies |-> {<<>>} \cup
                                 {<<[id |-> "policy", targets |-> <<[name |-> n, pool |-> p],
                                                                    [name |-> None, pool |-> q]>>]>> :
                                     n \in {None, "t"}, p \in {None, "p1", Broken}, q \in {"p2", "px"}},
                    requestRules |-> {<<>>} \cup
                                     {<<GwRule(refs[1], refs[2], refs[3], refs[4])>> : refs \in AtMost(2,
                                         {None, "map", "mx", Broken} \X {None, "p1", "px", Broken} \X
                                         {None, "policy", "lx", Broken} \X {None, "to", Broken})},
                    routingRules |-> {<<[GwRule("map", None, None, None) EXCEPT !.id = i, !.pathBased = b]>> :
                                         i \in {None, "rule", "other"}, b \in BOOLEAN}] @@ OddScope,
   ai_search |-> [state |-> Views("succeeded", {"failed"}), status |-> Views("running", {"error"}),
                  billable |-> {FALSE}, created |-> {None} \cup Ages,
                  replicas |-> Views(1, {0, 2}), partitions |-> Views(2, {0}),
                  objects |-> {{"indexes"}, {"skillsets", "synonym_maps"}},
                  telemetry |-> OddTelemetry("ai_search", "ai_search", SearchMetrics)] @@ OddScope,
   aml_compute |-> [type |-> Views("AmlCompute", {"ComputeInstance"}),
                    provisioning |-> Views("Succeeded", {"Failed"}),
                    allocation |-> Views("Steady", {"Resizing"}),
                    created |-> {View(t) : t \in {None, Broken} \cup Ages} \cup {<<None, Old>>},
                    min |-> Views(1, {0, 2}), current |-> Views(2, {0, -1}),
                    telemetry |-> OddTelemetry("aml_compute", "aml_compute", {"Active Nodes"})] @@ OddNested,
   aml_instance |-> [type |-> Views("ComputeInstance", {"AmlCompute"}),
                     provisioning |-> Views("Succeeded", {"Failed"}), state |-> {"Stopped", None},
                     created |-> {View(t) : t \in {None, Broken, Now - 2, Now - 1}} \cup {<<None, Old>>},
                     modified |-> {View(t) : t \in {None, Broken, Old, Now - 2, Now - 1, Now + 1}},
                     operation |-> {None, Broken, Old, Now - 2, Now - 1, Now + 1}, gpu |-> {TRUE}]
                    @@ OddNested,
   ml_endpoint |-> [state |-> {"Failed"}, kind |-> {None, "kubernetes"}, created |-> {None} \cup Ages,
                    deployments |->
                        {{}} \cup {{Deployment(s, k, n, c, FALSE)} :
                                      s \in BOOLEAN, k \in {None, "managed"}, n \in {None, 0, 2, Broken},
                                      c \in {None, 0, 1, Broken}}
                        \cup {{Deployment(TRUE, "managed", 1, None, TRUE), Deployment(s, "kubernetes", 1, None, FALSE)} :
                                 s \in BOOLEAN},
                    telemetry |-> OddTelemetry("ml_endpoint", "ml_endpoint", {"RequestsPerMinute"})] @@ OddNested,
   openai |-> [accountState |-> Views("Succeeded", {"Failed"}), state |-> Views("Succeeded", {"Failed"}),
               openai |-> {FALSE}, provisioned |-> {FALSE}, capacity |-> {None, Broken, 0},
               created |-> {None} \cup Ages,
               telemetry |-> OddTelemetry("openai", "openai", {"AzureOpenAIRequests"})] @@ OddNested,
   sql_database |-> [status |-> {View("Paused"), View(None), <<None, "Online">>}, master |-> {TRUE},
                     created |-> {View(t) : t \in {None, Broken} \cup Ages}, pooled |-> {TRUE},
                     secondary |-> {TRUE}, paused |-> {5, 7}, resumed |-> {6},
                     telemetry |-> OddTelemetry("sql_database", "sql_database", SqlMetrics)] @@ OddNested,
   app_service |-> [state |-> {"Stopped"}, disabled |-> {TRUE}, slot |-> {TRUE}, function |-> {TRUE},
                    plan |-> {None, "free", "unpriced", "gone"}, tier |-> {None, "free"}, jobs |-> {1},
                    telemetry |-> OddTelemetry("app_service", "app_service", AppMetrics)] @@ OddScope,
   registry |-> [state |-> {View("Failed"), View(None), <<None, "Succeeded">>},
                 created |-> {<<a, b>> : a \in {None, Broken, Now - 6, Now - 5}, b \in {None, Broken, Old}},
                 knownSku |-> {FALSE},
                 telemetry |-> OddTelemetry("registry", "registry", RegistryMetrics)] @@ OddScope]

OneMore(records, odd) ==
    records \cup UNION {{[s EXCEPT ![f] = v] : v \in odd[f]} : s \in records, f \in DOMAIN odd}
Near(name) == OneMore(OneMore({Plain[name]}, Odd[name]), Odd[name])
Kinds(name) == IF name = "vnet_gateway" THEN {"vnet_gateway", "vpn_gateway"} ELSE {name}

MCSubscriptions ==
    [name \in Rules |->
        {(r1 :> s) @@ (r2 :> IF name = "vnet_gateway" THEN ErGateway("ErGwScale") ELSE Plain[name]) :
            s \in UNION {Near(k) : k \in Kinds(name)}}]
==============================================================================
