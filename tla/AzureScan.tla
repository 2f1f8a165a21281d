------------------------------ MODULE AzureScan ------------------------------
(***************************************************************************)
(* One rule of providers/azure/rules on one subscription. A rule takes the *)
(* resources of a listing one by one, some of them from listings of their  *)
(* parents (workspaces, accounts, servers), and asks further services      *)
(* about each: what fails costs the finding, the parent or the rule.       *)
(*                                                                         *)
(* A resource is a record of what the rule reads of it, with what Azure    *)
(* Monitor holds about it in its field telemetry.                          *)
(***************************************************************************)
EXTENDS AzureNetwork, AzureServices, AppGateway

CONSTANTS
    Resources,
    Subscriptions,   \* rule -> what it may find: resource -> record
    Plans,           \* what app service plans there may be: plan -> tier
    Regions,
    Lags             \* by how much a metric may be late, in ticks

Rules == {"lb", "public_ip", "plan", "disk", "vm", "vnet_gateway", "app_gateway", "ai_search",
          "aml_compute", "aml_instance", "ml_endpoint", "openai", "sql_database", "app_service",
          "registry"}
\* Rules whose resources are listed parent by parent, and those that list before they look.
Nested == {"aml_compute", "aml_instance", "ml_endpoint", "openai", "sql_database"}
Eager == {"app_gateway", "vnet_gateway"}

ASSUME TimesAssumption ==
    /\ TicksPerDay \in Nat \ {0} /\ Now \in Nat
    /\ {"vnet_gateway", "ai_search", "aml_compute", "ml_endpoint", "openai", "registry"} \subseteq DOMAIN IdleDays
    /\ \A rule \in DOMAIN IdleDays : IdleDays[rule] \in Nat
    /\ MaxIdleDays \in Nat \ {0}

\* What stands for a missing or a malformed value is none of the values that a rule or an
\* exception goes by.
Words == {"permission", "other", "Succeeded", "succeeded", "Unattached", "running", "Running",
          "stopped", "Steady", "AmlCompute", "ComputeInstance", "Vpn", "ExpressRoute",
          "IPsec", "Vnet2Vnet", "no", "yes", "set"}
ASSUME MarksAssumption ==
    /\ {None, Absent, Broken, Junk} \cap (Int \cup Words) = {}
    /\ Absent # None

\* The metrics a rule asks for about a resource.
MetricsAsked(rule, s) ==
    CASE rule = "vnet_gateway" -> IF GatewayInService(s) THEN GatewayMetrics(s) ELSE {}
      [] rule = "ai_search" -> SearchMetrics
      [] rule = "aml_compute" -> {"Active Nodes"}
      [] rule = "ml_endpoint" -> {"RequestsPerMinute"}
      [] rule = "openai" -> {"AzureOpenAIRequests"}
      [] rule = "sql_database" -> SqlMetrics
      [] rule = "app_service" -> AppMetrics
      [] rule = "registry" -> RegistryMetrics
      [] OTHER -> {}

\* What Azure Monitor may answer: the filter of every rule but one leaves the series of the
\* resource, two rules look whether a value is a number, and two at answers without the metric.
Answered(rule) ==
    {None} \cup (IF rule \in {"sql_database", "app_service"} THEN {Absent} ELSE {})
    \cup SUBSET [at : Int \cup {None},
                 value : Nat \cup {None} \cup (IF rule \in {"ai_search", "aml_compute"} THEN {Junk} ELSE {}),
                 scoped : IF rule = "aml_compute" THEN BOOLEAN ELSE {TRUE}]

ASSUME TelemetryAssumption ==
    \A rule \in Rules : \A s \in Subscriptions[rule], r \in Resources :
        \A m \in MetricsAsked(rule, s[r]) : s[r].telemetry[m] \in Answered(rule)

\* There are no negative numbers of sites; a machine has finitely many states; a search
\* service has no objects but those of its surfaces; and a gateway's ids tell what they
\* are ids of.
ASSUME ViewsAssumption ==
    \A r \in Resources :
        /\ \A s \in Subscriptions["plan"] : s[r].sites \in Nat \cup {None}
        /\ \A s \in Subscriptions["vm"] : IsFiniteSet(s[r].power)
        /\ \A s \in Subscriptions["ai_search"] : s[r].objects \subseteq SearchSurfaces
        /\ \A s \in Subscriptions["app_gateway"] : IdsTellKinds(s[r])

VARIABLES
    rule, subscription, regionFilter,
    pc,            \* of the rule
    plans,         \* plan_tiers, None before it is read
    inspected,     \* resources the rule is done with
    lost,          \* and those of a listing that failed
    findings,
    raised

vars == <<rule, subscription, regionFilter, pc, plans, inspected, lost, findings, raised>>
context == <<rule, subscription, regionFilter>>

Init ==
    /\ rule \in Rules
    /\ subscription \in Subscriptions[rule]
    /\ regionFilter \in {None} \cup Regions
    /\ pc = "running"
    /\ plans = None
    /\ inspected = {}
    /\ lost = {}
    /\ findings = {}
    /\ raised = None

-----------------------------------------------------------------------------
(* Listings *)

Todo == Resources \ (inspected \cup lost)
Children(parent) == {r \in Resources : subscription[r].parent = parent}

\* The listing of the subscription fails, on its first page or a later one.
ListingFails ==
    /\ pc = "running"
    /\ rule \in Eager => inspected = {}
    /\ pc' = "raised"
    /\ raised' \in {"other"} \cup (IF rule = "app_gateway" THEN {"permission"} ELSE {})
    /\ UNCHANGED <<context, plans, inspected, lost, findings>>

\* The listing of a parent fails: its other resources are passed over, without a word.
\* A server's databases are listed before they are looked at.
ParentFails(parent) ==
    /\ pc = "running" /\ rule \in Nested
    /\ Children(parent) \cap Todo # {}
    /\ rule = "sql_database" => Children(parent) \cap inspected = {}
    /\ lost' = lost \cup (Children(parent) \cap Todo)
    /\ UNCHANGED <<context, pc, plans, inspected, findings, raised>>

\* app_service_idle reads the plans first; a partial list of them is thrown away.
ReadPlans ==
    /\ pc = "running" /\ rule = "app_service" /\ plans = None
    /\ plans' \in {Plans, <<>>}
    /\ UNCHANGED <<context, pc, inspected, lost, findings, raised>>

\* Mutant: the parent that cannot be listed ends the rule.
ReturnAfterFailure ==
    /\ pc = "running" /\ (Todo = {} \/ lost # {})
    /\ rule = "app_service" => plans # None
    /\ pc' = "returned"
    /\ UNCHANGED <<context, plans, inspected, lost, findings, raised>>

Return ==
    /\ pc = "running" /\ Todo = {}
    /\ rule = "app_service" => plans # None
    /\ pc' = "returned"
    /\ UNCHANGED <<context, plans, inspected, lost, findings, raised>>

-----------------------------------------------------------------------------
(* The handling of a resource *)

\* Resources without an id or a name and those of other regions make no findings.
InScope(r) ==
    subscription[r].named /\ regionFilter \in {None, subscription[r].location}

Turn(name, r) == pc = "running" /\ rule = name /\ r \in Todo

Report(r, condition, finding) ==
    /\ inspected' = inspected \cup {r}
    /\ findings' = IF InScope(r) /\ condition THEN findings \cup {finding} ELSE findings
    /\ UNCHANGED <<context, pc, plans, lost, raised>>

\* Every metric of a resource is asked for until one is not ZERO. One that cannot be read
\* is not, either.
AllZero(states) == states \subseteq {"ZERO"}

InspectLb(r) ==
    LET lb == subscription[r]
    IN  Turn("lb", r) /\ Report(r, LbCandidate(lb), LbFinding(r, lb))

InspectPublicIp(r) ==
    LET ip == subscription[r]
    IN  Turn("public_ip", r) /\ Report(r, PublicIpCandidate(ip), PublicIpFinding(r, ip))

InspectDisk(r) ==
    LET d == subscription[r]
    IN  Turn("disk", r) /\ Report(r, DiskCandidate(d), DiskFinding(r, d))

InspectInstance(r) ==
    LET i == subscription[r]
    IN  Turn("aml_instance", r) /\ Report(r, InstanceCandidate(i), InstanceFinding(r, i))

\* A gateway has a finding for each of its pools.
InspectAppGateway(r) ==
    /\ Turn("app_gateway", r)
    /\ inspected' = inspected \cup {r}
    /\ findings' = findings \cup (IF InScope(r) THEN GatewayFindings(r, subscription[r]) ELSE {})
    /\ UNCHANGED <<context, pc, plans, lost, raised>>

\* list_web_apps may fail.
InspectPlan(r) ==
    LET plan == subscription[r]
    IN  /\ Turn("plan", r)
        /\ \E complete \in BOOLEAN :
              Report(r, PlanCandidate(plan) /\ complete /\ plan.apps = 0, PlanFinding(r, plan))

\* instance_view may fail.
InspectVm(r) ==
    LET vm == subscription[r]
    IN  /\ Turn("vm", r)
        /\ \E viewed \in BOOLEAN :
              Report(r, VmState(vm) = "Succeeded" /\ viewed /\ PowerState(vm.power) = "stopped",
                     VmFinding(r, vm))

\* Either the gateway, its connections and its metrics are read, or something fails.
InspectVnetGateway(r) ==
    LET gw == subscription[r]
        metrics == GatewayMetrics(gw)
    IN  /\ Turn("vnet_gateway", r)
        /\ \E allRead \in BOOLEAN :
              Report(r, /\ allRead /\ GatewayInService(gw) /\ Unconnected(gw, GatewayType(gw))
                        /\ metrics # {} /\ AllZero({VnetMetric(gw.telemetry[m]) : m \in metrics}),
                     GatewayFinding(r, gw))

InspectSearch(r) ==
    LET s == subscription[r]
    IN  /\ Turn("ai_search", r)
        /\ \E failed \in SUBSET SearchSurfaces, allRead \in BOOLEAN :
              Report(r, /\ SearchCandidate(s) /\ NothingStored(s, failed)
                        /\ allRead /\ AllZero({SearchMetric(s.telemetry[m]) : m \in SearchMetrics}),
                     SearchFinding(r, s))

InspectCluster(r) ==
    LET c == subscription[r]
    IN  /\ Turn("aml_compute", r)
        /\ \E allRead \in BOOLEAN :
              Report(r, ClusterCandidate(c) /\ allRead /\ ClusterMetric(c.telemetry["Active Nodes"]) = "ZERO",
                     ClusterFinding(r, c))

InspectDatabase(r) ==
    LET db == subscription[r]
    IN  /\ Turn("sql_database", r)
        /\ \E allRead \in BOOLEAN :
              Report(r, DbCandidate(db) /\ allRead /\ AllZero({SqlMetric(db.telemetry[m]) : m \in SqlMetrics}),
                     DbFinding(r, db))

\* The metrics, then the web jobs.
InspectApp(r) ==
    LET app == subscription[r]
    IN  /\ Turn("app_service", r) /\ plans # None
        /\ \E allRead, complete \in BOOLEAN :
              Report(r, /\ AppCandidate(app, plans) /\ allRead
                        /\ AllZero({AppMetric(app.telemetry[m]) : m \in AppMetrics})
                        /\ complete /\ app.jobs = 0, AppFinding(r, app, plans))

\* Answers about a metric that may be late, and be refused.
RegistryAnswers(points) ==
    LET late(lag) == IF points = None THEN None ELSE {p \in points : p.at = None \/ p.at < Now - lag}
    IN  {RegistryMetric(answers) : answers \in [1 .. 3 -> {None} \cup {late(lag) : lag \in Lags}]}

InspectRegistry(r) ==
    LET reg == subscription[r]
        zero(points) == points # None /\ RegistryAnswer(points) = "ZERO"
        finding(pulls, pushes) ==
            [RegistryFinding(r, reg) EXCEPT
                !.detail = [priced |-> reg.knownSku,
                            answers |-> [SuccessfulPullCount |-> pulls, SuccessfulPushCount |-> pushes]]]
    IN  /\ Turn("registry", r)
        /\ \E pulls \in RegistryAnswers(reg.telemetry["SuccessfulPullCount"]),
              pushes \in RegistryAnswers(reg.telemetry["SuccessfulPushCount"]) :
              Report(r, RegistryCandidate(reg) /\ zero(pulls) /\ zero(pushes), finding(pulls, pushes))

\* 401 and 403 of Azure Monitor end the rule, and its findings are gone.
MetricsDenied(r, asks) ==
    /\ InScope(r) /\ asks
    /\ pc' = "raised" /\ raised' = "permission"
    /\ UNCHANGED <<context, plans, inspected, lost, findings>>

InspectEndpoint(r) ==
    LET e == subscription[r]
        asks == EndpointOld(e) /\ EndpointBilled(e)
        points == e.telemetry["RequestsPerMinute"]
    IN  /\ Turn("ml_endpoint", r)
        /\ \/ \E allRead \in BOOLEAN :
                  Report(r, asks /\ allRead /\ EndpointMetric(points) = "ZERO", EndpointFinding(r, e, points))
           \/ MetricsDenied(r, asks)

InspectDeployment(r) ==
    LET d == subscription[r]
        points == d.telemetry["AzureOpenAIRequests"]
    IN  /\ Turn("openai", r)
        /\ \/ \E allRead \in BOOLEAN :
                  Report(r, OpenAiCandidate(d) /\ allRead /\ OpenAiMetric(points) = "ZERO",
                         OpenAiFinding(r, d, points))
           \/ MetricsDenied(r, OpenAiCandidate(d))

-----------------------------------------------------------------------------
Resource(r) ==
    \/ InspectLb(r) \/ InspectPublicIp(r) \/ InspectPlan(r) \/ InspectDisk(r) \/ InspectVm(r)
    \/ InspectVnetGateway(r) \/ InspectAppGateway(r)
    \/ InspectSearch(r) \/ InspectCluster(r) \/ InspectInstance(r)
    \/ InspectEndpoint(r) \/ InspectDeployment(r)
    \/ InspectDatabase(r) \/ InspectApp(r) \/ InspectRegistry(r)

Next ==
    \/ \E r \in Resources : Resource(r)
    \/ \E r \in Resources : ParentFails(subscription[r].parent)
    \/ ListingFails
    \/ ReadPlans
    \/ Return

Spec == Init /\ [][Next]_vars

-----------------------------------------------------------------------------
(* Properties *)

TypeOK ==
    /\ pc \in {"running", "returned", "raised"}
    /\ inspected \cup lost \subseteq Resources /\ inspected \cap lost = {}
    /\ pc = "returned" => inspected \cup lost = Resources
    /\ {f.resource : f \in findings} \subseteq inspected
    /\ (pc = "raised") = (raised \in {"permission", "other"})
    /\ plans \in {None, Plans, <<>>}

MetricsOf(r) == MetricsAsked(rule, subscription[r])

\* "Activity metrics all zero" (sql_database_idle.py:429, app_service_idle.py:250) and ">= 80%
\* daily bucket coverage" (vnet_gateway_idle.py:490 and the like): what the rule was told
\* about a resource it reports shows no activity in any part of the window, and, where the
\* rule asks for coverage, something for all but a twentieth (a fifth) of its days or ticks.
\* No coverage is claimed of a database, for which a single point is enough, against
\* docs/specs/azure/sql_database_idle.md:306, nor of an app, whose spec takes what is missing for zero.
IdleIsProven ==
    \A f \in findings :
        \A m \in MetricsOf(f.resource) :
            LET told == IF rule = "registry" THEN f.detail.answers[m]
                        ELSE subscription[f.resource].telemetry[m]
                window == WindowStart(rule) ..
                              (IF rule = "aml_compute" THEN TicksPerDay * Day(Now) ELSE Now) - 1
                known == {t \in window : \E p \in told : p.at = t /\ p.scoped /\ p.value \notin {None, Junk}}
                days == {Day(t) : t \in window}
            IN  CASE rule \in {"vnet_gateway", "ai_search", "aml_compute"} ->
                        /\ \A p \in told : p.at \in window /\ p.scoped => p.value \in {0, None}
                        /\ 100 * Cardinality({Day(t) : t \in known})
                               >= (IF rule = "vnet_gateway" THEN 80 ELSE 95) * Cardinality(days)
                  [] rule \in {"ml_endpoint", "openai", "registry"} ->
                        /\ \A p \in told : p.at \in window => p.value \in {0, None}
                        /\ 5 * Cardinality(known) >= 4 * Cardinality(window)
                        /\ f.confidence = "high" /\ rule # "registry"
                               => 20 * Cardinality(known) >= 19 * Cardinality(window)
                  [] rule = "sql_database" -> told \notin {None, Absent, {}}
                                              /\ \A p \in told : p.value \in {0, None}
                  [] OTHER -> told # None /\ (told # Absent => \A p \in told : p.value \in {0, None})

\* "confirmed absent", "Confirmed via list_web_apps()", "no in-scope connections" and the like
\* in the findings: nothing is attached to what is reported, whichever listing of it failed.
\* The links of an address, the owners of a disk and the connections of a gateway count if
\* either view shows them. Of a load balancer's rules and members, and of a point-to-site
\* configuration, only what the SDK's view shows counts, or the nested one where the SDK
\* has none: what the other one shows may be lost.
InUseIsNotReported ==
    \A f \in findings :
        LET s == subscription[f.resource]
        IN  CASE rule = "lb" ->
                    \A lbRule \in OrEmpty(Either(s.balancing)) \cup OrEmpty(Either(s.outbound)) :
                        \A id \in PoolRefs(lbRule) :
                            LET pool == BackendPools(s)[id]
                            IN  {Either(pool.nics), Either(pool.addresses)} \subseteq {None, 0}
              [] rule = "public_ip" -> \A link \in DOMAIN s.links : {s.links[link][1], s.links[link][2]} = {None}
              [] rule = "plan" -> s.apps = 0 /\ s.sites \in {None, 0}
              [] rule = "disk" -> {s.managedBy[1], s.managedBy[2]} \subseteq {Absent, None, ""}
                                  /\ {s.managedByExtended[1], s.managedByExtended[2]}
                                         \subseteq {Absent, None, 0}
              [] rule = "vm" -> s.power = {"stopped"}
              [] rule = "vnet_gateway" ->
                    /\ \A c \in s.connections : {c.type[1], c.type[2]} \cap InScopeTypes = {}
                    /\ GatewayType(s) = "Vpn" => "set" # (IF s.p2s[1] = Absent THEN s.p2s[2] ELSE s.p2s[1])
              [] rule = "ai_search" -> s.objects = {}
              [] rule = "app_service" -> s.jobs = 0
              [] rule = "ml_endpoint" -> \A d \in Stable(s) : d.kind # "kubernetes"
              [] OTHER -> TRUE

\* The fields of which a rule compares the two views.
ComparedFields ==
    [vnet_gateway |-> {"state", "type"}, ai_search |-> {"state", "status", "replicas", "partitions"},
     aml_compute |-> {"type", "provisioning", "allocation"}, aml_instance |-> {"type", "provisioning"},
     disk |-> {"provisioning", "state", "maxShares", "frequentAttach"}, vm |-> {"state"}]

\* "conflict -> skip" (vnet_gateway_idle.py:165, aml_compute_idle.py:55 and the like): six
\* rules compare the two views of the fields above; of a gateway also the types of its
\* connections, its administrative state, whether connections bypass it and whether there is
\* a point-to-site configuration. Nothing is reported whose views of one of these differ.
\* Every other field comes from the first view that has it, and a difference is not noticed,
\* also where the documents say "conflicting -> skip": the contents of a point-to-site
\* configuration (docs/specs/azure/vnet_gateway_idle.md:259) and the node counts of a
\* cluster (docs/specs/azure/ai/aml_compute_idle.md:292).
ComparedViewsAgree ==
    \A f \in findings :
        LET s == subscription[f.resource]
        IN  /\ rule \in DOMAIN ComparedFields =>
                   \A field \in ComparedFields[rule] : ~Conflicting(s[field])
            /\ rule = "vnet_gateway" => \A c \in s.connections : ~Conflicting(c.type)
            /\ rule = "vnet_gateway" /\ GatewayType(s) = "ExpressRoute" =>
                   \A view \in {s.admin} \cup {c.bypass : c \in s.connections} :
                       Absent \notin {view[1], view[2]} => view[1] = view[2]
            /\ rule = "vnet_gateway" /\ GatewayType(s) = "Vpn" /\ Absent \notin {s.p2s[1], s.p2s[2]} =>
                   (s.p2s[1] = None <=> s.p2s[2] = None)

\* app_gateway_no_backends.py:1-40: of a gateway exactly the pools without targets are
\* reported that a path of references leads to from some rule that is not a mere redirect;
\* and what of those rules leads to nothing that is there is noted in the finding.
EmptyRoutesAreReported ==
    rule = "app_gateway" =>
        \A r \in inspected :
            LET g == subscription[r]
                reported == {f \in findings : f.resource = r}
            IN  /\ InScope(r) => {f.detail.pool : f \in reported} = EmptyPoolsLedTo(g)
                /\ \A f \in reported : \A route \in f.detail.routes :
                      LeadNowhere(g, route.rule)
                          \subseteq {note.object : note \in f.detail.notChecked}
=============================================================================
