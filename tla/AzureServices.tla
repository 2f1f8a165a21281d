---------------------------- MODULE AzureServices ----------------------------
(***************************************************************************)
(* The rules of providers/azure/rules and rules/ai that go by a resource's *)
(* activity: what makes it a candidate, before Azure Monitor is asked, and *)
(* what its finding says.                                                  *)
(***************************************************************************)
EXTENDS AzureMetrics

-----------------------------------------------------------------------------
(* AI Search services *)

SearchState(s) == Agreed(s.state)
SearchStatus(s) == Agreed(s.status)

\* Replicas or partitions: a positive number.
Capacity(view) == IF Agreed(view) = None \/ Agreed(view) <= 0 THEN None ELSE Agreed(view)

SearchMetrics == {"SearchQueriesPerSecond", "DocumentsProcessedCount", "SkillExecutionCount"}
SearchSurfaces == {"indexes", "indexers", "data_sources", "skillsets", "synonym_maps"}

\* Mutant: a surface that cannot be listed counts as empty.
NothingStoredRead(s, failed) == s.objects \cap (SearchSurfaces \ failed) = {}

\* _check_object_surfaces: every surface is listed and empty. (The default client has
\* none of the optional ones.)
NothingStored(s, failed) == failed = {} /\ s.objects \cap SearchSurfaces = {}

SearchCandidate(s) ==
    /\ SearchState(s) = "succeeded" /\ SearchStatus(s) = "running"
    /\ s.billable
    /\ OldEnough("ai_search", s.created)
    /\ Capacity(s.replicas) # None /\ Capacity(s.partitions) # None
SearchFinding(r, s) ==
    Finding(r, "medium", "high",
            [replicas |-> Capacity(s.replicas), partitions |-> Capacity(s.partitions)])

-----------------------------------------------------------------------------
(* Machine learning clusters and instances *)

\* _resolve_str_field: both spellings, of what must be a string.
ClusterState(c) == IF Agreed(c.provisioning) = "Succeeded" THEN Agreed(c.allocation) ELSE None
ClusterType(c) == Agreed(c.type)
ClusterCreated(c) == IF Either(c.created) = Broken THEN None ELSE Either(c.created)
MinNodes(c) == IF Either(c.min) = None \/ Either(c.min) <= 0 THEN None ELSE Either(c.min)
CurrentNodes(c) == IF Either(c.current) = None \/ Either(c.current) < 0 THEN None ELSE Either(c.current)

ClusterCandidate(c) ==
    /\ ClusterType(c) = "AmlCompute" /\ ClusterState(c) = "Steady"
    /\ OldEnough("aml_compute", ClusterCreated(c))
    /\ MinNodes(c) # None
    /\ CurrentNodes(c) # None /\ CurrentNodes(c) >= MinNodes(c)
ClusterFinding(r, c) ==
    Finding(r, "medium", "high", [min |-> MinNodes(c), current |-> CurrentNodes(c)])

InstanceState(i) ==
    IF ClusterType(i) = "ComputeInstance" /\ Agreed(i.provisioning) = "Succeeded" THEN i.state ELSE None
InstanceCreated(i) == IF Either(i.created) = Broken THEN None ELSE Either(i.created)
InstanceModified(i) == IF Either(i.modified) = Broken THEN None ELSE Either(i.modified)

\* The last operation, if it has a time, and no other; else a change after the creation.
LastActivity(i) ==
    IF i.operation # None
    THEN IF i.operation \in {Broken, InstanceCreated(i)} THEN None ELSE i.operation
    ELSE IF InstanceModified(i) # None /\ InstanceModified(i) > InstanceCreated(i)
         THEN InstanceModified(i) ELSE None

InstanceCandidate(i) ==
    /\ InstanceState(i) = "Running"
    /\ OldEnough("aml_instance", InstanceCreated(i))
    /\ OldEnough("aml_instance", LastActivity(i))
InstanceFinding(r, i) ==
    Finding(r, IF i.gpu THEN "high" ELSE "medium",
            IF i.operation # None THEN "medium" ELSE "low", [activity |-> LastActivity(i)])

-----------------------------------------------------------------------------
(* Online endpoints and provisioned deployments *)

Stable(e) == {d \in e.deployments : d.stable}

\* _resolve_managed_scope: what the endpoint says, unless a deployment is Kubernetes'.
ManagedScope(e) ==
    LET kinds == {d.kind : d \in Stable(e)}
    IN  IF e.kind = "kubernetes" \/ "kubernetes" \in kinds THEN "none"
        ELSE IF e.kind = "managed" THEN "endpoint"
        ELSE IF "managed" \in kinds THEN "deployment" ELSE "none"

\* The configured baseline of a deployment.
Baseline(d) ==
    LET count == IF d.min # None THEN d.min ELSE d.count
    IN  IF count \in {None, Broken} THEN 0 ELSE count
Billed(e) == {d \in Stable(e) : Baseline(d) > 0}

\* Before its deployments are listed, and after.
EndpointOld(e) == e.state = "Succeeded" /\ OldEnough("ml_endpoint", e.created)
EndpointBilled(e) == ManagedScope(e) # "none" /\ Billed(e) # {}
EndpointFinding(r, e, points) ==
    Finding(r, IF \E d \in Billed(e) : d.gpu THEN "high" ELSE "medium",
            IF HighCoverage("ml_endpoint", points) THEN "high" ELSE "medium",
            [scope |-> ManagedScope(e), billed |-> Cardinality(Billed(e))])

AccountState(d) == Either(d.accountState)
DeploymentState(d) == Either(d.state)
OpenAiCandidate(d) ==
    /\ AccountState(d) = "Succeeded" /\ DeploymentState(d) = "Succeeded"
    /\ d.openai /\ d.provisioned
    /\ d.capacity \notin {None, Broken} /\ d.capacity > 0
    /\ OldEnough("openai", d.created)
OpenAiFinding(r, d, points) ==
    Finding(r, "high", IF HighCoverage("openai", points) THEN "high" ELSE "medium",
            [capacity |-> d.capacity])

-----------------------------------------------------------------------------
(* Databases, apps and registries *)

SqlMetrics == {"connection_successful", "sessions_count", "cpu_percent",
               "physical_data_read_percent", "log_write_percent"}

DbStatus(db) == Either(db.status)
DbCreated(db) == IF Either(db.created) = Broken THEN None ELSE Either(db.created)

\* _is_paused: paused, and not resumed since.
Paused(db) ==
    \/ DbStatus(db) = "Paused"
    \/ db.paused # None /\ (db.resumed = None \/ db.paused > db.resumed)

DbCandidate(db) ==
    /\ DbStatus(db) = "Online" /\ ~db.master
    /\ DbCreated(db) # None /\ DaysSince(DbCreated(db)) >= EffectiveIdleDays("sql_database")
    /\ ~db.pooled /\ ~db.secondary
    /\ ~Paused(db)
DbFinding(r, db) == Finding(r, "high", "high", [created |-> DbCreated(db)])

AppMetrics == {"Requests", "CpuTime", "BytesReceived", "BytesSent"}

\* The tier of the app's plan, or the app's own if the plan has none or is not known.
AppTier(app, plans) ==
    IF app.plan \in DOMAIN plans /\ plans[app.plan] # None THEN plans[app.plan] ELSE app.tier

AppCandidate(app, plans) ==
    /\ app.state = "Running" /\ ~app.disabled
    /\ ~app.slot /\ ~app.function
    /\ AppTier(app, plans) = "paid"
AppFinding(r, app, plans) ==
    Finding(r, "medium", "high", [planKnown |-> app.plan \in DOMAIN plans])

RegistryMetrics == {"SuccessfulPullCount", "SuccessfulPushCount"}
RegistryState(reg) == Either(reg.state)

\* _parse_creation_date: the first of both that is a time.
RegistryCreated(reg) ==
    IF reg.created[1] \notin {None, Broken} THEN reg.created[1]
    ELSE IF reg.created[2] = Broken THEN None ELSE reg.created[2]
RegistryCandidate(reg) ==
    /\ RegistryState(reg) = "Succeeded"
    /\ RegistryCreated(reg) # None /\ RegistryCreated(reg) <= WindowStart("registry")
RegistryFinding(r, reg) == Finding(r, "low", "high", [priced |-> reg.knownSku])
=============================================================================
