--------------------------- MODULE AzureScan_proofs ---------------------------
(***************************************************************************)
(* Proofs about AzureScan, for every subscription its assumptions allow.   *)
(***************************************************************************)
EXTENDS AzureScan, FiniteSetTheorems, WellFoundedInduction, TLAPS

-----------------------------------------------------------------------------
(* The steps that look at a resource come down to two *)

\* What a finding f of a rule on a resource s rests on: the conditions the rule reports under.
DueFor(name, s, f) ==
    /\ name = "lb" => LbCandidate(s)
    /\ name = "public_ip" => PublicIpCandidate(s)
    /\ name = "plan" => PlanCandidate(s) /\ s.apps = 0
    /\ name = "disk" => DiskCandidate(s)
    /\ name = "vm" => VmState(s) = "Succeeded" /\ PowerState(s.power) = "stopped"
    /\ name = "vnet_gateway" =>
          /\ GatewayInService(s) /\ Unconnected(s, GatewayType(s))
          /\ AllZero({VnetMetric(s.telemetry[m]) : m \in GatewayMetrics(s)})
    /\ name = "app_gateway" => f \in GatewayFindings(f.resource, s)
    /\ name = "ai_search" =>
          /\ SearchCandidate(s) /\ s.objects \cap SearchSurfaces = {}
          /\ AllZero({SearchMetric(s.telemetry[m]) : m \in SearchMetrics})
    /\ name = "aml_compute" =>
          ClusterCandidate(s) /\ ClusterMetric(s.telemetry["Active Nodes"]) = "ZERO"
    /\ name = "aml_instance" => InstanceCandidate(s)
    /\ name = "ml_endpoint" =>
          LET points == s.telemetry["RequestsPerMinute"]
          IN  /\ EndpointBilled(s) /\ EndpointMetric(points) = "ZERO"
              /\ f.confidence = "high" => HighCoverage(name, points)
    /\ name = "openai" =>
          LET points == s.telemetry["AzureOpenAIRequests"]
          IN  /\ OpenAiMetric(points) = "ZERO"
              /\ f.confidence = "high" => HighCoverage(name, points)
    /\ name = "sql_database" => AllZero({SqlMetric(s.telemetry[m]) : m \in SqlMetrics})
    /\ name = "app_service" =>
          s.jobs = 0 /\ AllZero({AppMetric(s.telemetry[m]) : m \in AppMetrics})
    /\ name = "registry" =>
          \A m \in RegistryMetrics :
              LET answer == f.detail.answers[m]
              IN  /\ answer \in RegistryAnswers(s.telemetry[m])
                  /\ answer # None /\ RegistryAnswer(answer) = "ZERO"

Due(f) == DueFor(rule, subscription[f.resource], f)

\* A resource has been looked at, with findings about nothing else, all of them due.
Looked(r) ==
    /\ pc = "running" /\ r \in Todo
    /\ inspected' = inspected \cup {r}
    /\ findings \subseteq findings'
    /\ \A f \in findings' \ findings : f.resource = r /\ Due(f)
    /\ UNCHANGED <<rule, subscription, regionFilter, pc, plans, lost, raised>>

\* The rule ends with an exception.
Raised ==
    /\ pc = "running" /\ pc' = "raised" /\ raised' \in {"permission", "other"}
    /\ UNCHANGED <<rule, subscription, regionFilter, plans, inspected, lost, findings>>

LEMMA FindingFields ==
    ASSUME NEW r, NEW risk, NEW confidence, NEW detail
    PROVE  /\ Finding(r, risk, confidence, detail).resource = r
           /\ Finding(r, risk, confidence, detail).confidence = confidence
           /\ Finding(r, risk, confidence, detail).detail = detail
BY DEF Finding

\* A report that is about the resource, and whose condition makes it due, is a look at it.
LEMMA ReportIsLook ==
    ASSUME NEW name, NEW r \in Resources, NEW condition \in BOOLEAN, NEW finding,
           Turn(name, r), Report(r, condition, finding),
           finding.resource = r, condition => Due(finding)
    PROVE  Looked(r)
BY DEF Turn, Report, Looked, context

LEMMA InspectLbLooks ==
    ASSUME NEW r \in Resources, InspectLb(r) PROVE Looked(r)
<1> DEFINE s == subscription[r]
           f == LbFinding(r, s)
<1>1. rule = "lb" /\ Turn("lb", r) /\ Report(r, LbCandidate(s), f)
  BY DEF InspectLb, Turn
<1>2. f.resource = r
  BY FindingFields DEF LbFinding
<1>3. LbCandidate(s) => Due(f)
  BY <1>1, <1>2 DEF Due, DueFor
<1> HIDE DEF f
<1> QED
  BY <1>1, <1>2, <1>3, ReportIsLook DEF LbCandidate

LEMMA InspectPublicIpLooks ==
    ASSUME NEW r \in Resources, InspectPublicIp(r) PROVE Looked(r)
<1> DEFINE s == subscription[r]
           f == PublicIpFinding(r, s)
<1>1. rule = "public_ip" /\ Turn("public_ip", r) /\ Report(r, PublicIpCandidate(s), f)
  BY DEF InspectPublicIp, Turn
<1>2. f.resource = r
  BY FindingFields DEF PublicIpFinding
<1>3. PublicIpCandidate(s) => Due(f)
  BY <1>1, <1>2 DEF Due, DueFor
<1> HIDE DEF f
<1> QED
  BY <1>1, <1>2, <1>3, ReportIsLook DEF PublicIpCandidate

LEMMA InspectDiskLooks ==
    ASSUME NEW r \in Resources, InspectDisk(r) PROVE Looked(r)
<1> DEFINE s == subscription[r]
           f == DiskFinding(r, s)
<1>1. rule = "disk" /\ Turn("disk", r) /\ Report(r, DiskCandidate(s), f)
  BY DEF InspectDisk, Turn
<1>2. f.resource = r
  BY FindingFields DEF DiskFinding
<1>3. DiskCandidate(s) => Due(f)
  BY <1>1, <1>2 DEF Due, DueFor
<1> HIDE DEF f
<1> QED
  BY <1>1, <1>2, <1>3, ReportIsLook DEF DiskCandidate

LEMMA InspectInstanceLooks ==
    ASSUME NEW r \in Resources, InspectInstance(r) PROVE Looked(r)
<1> DEFINE s == subscription[r]
           f == InstanceFinding(r, s)
<1>1. rule = "aml_instance" /\ Turn("aml_instance", r) /\ Report(r, InstanceCandidate(s), f)
  BY DEF InspectInstance, Turn
<1>2. f.resource = r
  BY FindingFields DEF InstanceFinding
<1>3. InstanceCandidate(s) => Due(f)
  BY <1>1, <1>2 DEF Due, DueFor
<1> HIDE DEF f
<1> QED
  BY <1>1, <1>2, <1>3, ReportIsLook DEF InstanceCandidate

LEMMA InspectPlanLooks ==
    ASSUME NEW r \in Resources, InspectPlan(r) PROVE Looked(r)
<1> DEFINE s == subscription[r]
           f == PlanFinding(r, s)
<1>1. rule = "plan" /\ Turn("plan", r)
  BY DEF InspectPlan, Turn
<1>2. PICK complete \in BOOLEAN :
          Report(r, PlanCandidate(s) /\ complete /\ s.apps = 0, f)
  BY Zenon DEF InspectPlan
<1>3. f.resource = r
  BY FindingFields DEF PlanFinding
<1>4. PlanCandidate(s) /\ complete /\ s.apps = 0 => Due(f)
  BY <1>1, <1>3 DEF Due, DueFor
<1> HIDE DEF f
<1> QED
  BY <1>1, <1>2, <1>3, <1>4, ReportIsLook, Zenon

LEMMA InspectVmLooks ==
    ASSUME NEW r \in Resources, InspectVm(r) PROVE Looked(r)
<1> DEFINE s == subscription[r]
           f == VmFinding(r, s)
<1>1. rule = "vm" /\ Turn("vm", r)
  BY DEF InspectVm, Turn
<1>2. PICK viewed \in BOOLEAN :
          Report(r, VmState(s) = "Succeeded" /\ viewed /\ PowerState(s.power) = "stopped", f)
  BY Zenon DEF InspectVm
<1>3. f.resource = r
  BY FindingFields DEF VmFinding
<1>4. VmState(s) = "Succeeded" /\ viewed /\ PowerState(s.power) = "stopped" => Due(f)
  BY <1>1, <1>3 DEF Due, DueFor
<1> HIDE DEF f
<1> QED
  BY <1>1, <1>2, <1>3, <1>4, ReportIsLook, Zenon

LEMMA InspectVnetGatewayLooks ==
    ASSUME NEW r \in Resources, InspectVnetGateway(r) PROVE Looked(r)
<1> DEFINE s == subscription[r]
           f == GatewayFinding(r, s)
<1>1. rule = "vnet_gateway" /\ Turn("vnet_gateway", r)
  BY DEF InspectVnetGateway, Turn
<1>2. PICK allRead \in BOOLEAN :
          Report(r, /\ allRead /\ GatewayInService(s) /\ Unconnected(s, GatewayType(s))
                    /\ GatewayMetrics(s) # {}
                    /\ AllZero({VnetMetric(s.telemetry[m]) : m \in GatewayMetrics(s)}), f)
  BY Zenon DEF InspectVnetGateway
<1>3. f.resource = r
  BY FindingFields DEF GatewayFinding
<1>4. /\ allRead /\ GatewayInService(s) /\ Unconnected(s, GatewayType(s))
                    /\ GatewayMetrics(s) # {}
                    /\ AllZero({VnetMetric(s.telemetry[m]) : m \in GatewayMetrics(s)}) => Due(f)
  BY <1>1, <1>3 DEF Due, DueFor
<1> HIDE DEF f
<1> QED
  BY <1>1, <1>2, <1>3, <1>4, ReportIsLook, Zenon

LEMMA InspectSearchLooks ==
    ASSUME NEW r \in Resources, InspectSearch(r) PROVE Looked(r)
<1> DEFINE s == subscription[r]
           f == SearchFinding(r, s)
<1>1. rule = "ai_search" /\ Turn("ai_search", r)
  BY DEF InspectSearch, Turn
<1>2. PICK failed \in SUBSET SearchSurfaces, allRead \in BOOLEAN :
          Report(r, /\ SearchCandidate(s) /\ NothingStored(s, failed)
                    /\ allRead /\ AllZero({SearchMetric(s.telemetry[m]) : m \in SearchMetrics}), f)
  BY Zenon DEF InspectSearch
<1>3. f.resource = r
  BY FindingFields DEF SearchFinding
<1>4. /\ SearchCandidate(s) /\ NothingStored(s, failed)
                    /\ allRead /\ AllZero({SearchMetric(s.telemetry[m]) : m \in SearchMetrics}) => Due(f)
  BY <1>1, <1>3 DEF Due, DueFor, NothingStored
<1> HIDE DEF f
<1> QED
  BY <1>1, <1>2, <1>3, <1>4, ReportIsLook, Zenon

LEMMA InspectClusterLooks ==
    ASSUME NEW r \in Resources, InspectCluster(r) PROVE Looked(r)
<1> DEFINE s == subscription[r]
           f == ClusterFinding(r, s)
<1>1. rule = "aml_compute" /\ Turn("aml_compute", r)
  BY DEF InspectCluster, Turn
<1>2. PICK allRead \in BOOLEAN :
          Report(r, ClusterCandidate(s) /\ allRead /\ ClusterMetric(s.telemetry["Active Nodes"]) = "ZERO", f)
  BY Zenon DEF InspectCluster
<1>3. f.resource = r
  BY FindingFields DEF ClusterFinding
<1>4. ClusterCandidate(s) /\ allRead /\ ClusterMetric(s.telemetry["Active Nodes"]) = "ZERO" => Due(f)
  BY <1>1, <1>3 DEF Due, DueFor
<1> HIDE DEF f
<1> QED
  BY <1>1, <1>2, <1>3, <1>4, ReportIsLook, Zenon

LEMMA InspectDatabaseLooks ==
    ASSUME NEW r \in Resources, InspectDatabase(r) PROVE Looked(r)
<1> DEFINE s == subscription[r]
           f == DbFinding(r, s)
<1>1. rule = "sql_database" /\ Turn("sql_database", r)
  BY DEF InspectDatabase, Turn
<1>2. PICK allRead \in BOOLEAN :
          Report(r, DbCandidate(s) /\ allRead /\ AllZero({SqlMetric(s.telemetry[m]) : m \in SqlMetrics}), f)
  BY Zenon DEF InspectDatabase
<1>3. f.resource = r
  BY FindingFields DEF DbFinding
<1>4. DbCandidate(s) /\ allRead /\ AllZero({SqlMetric(s.telemetry[m]) : m \in SqlMetrics}) => Due(f)
  BY <1>1, <1>3 DEF Due, DueFor
<1> HIDE DEF f
<1> QED
  BY <1>1, <1>2, <1>3, <1>4, ReportIsLook, Zenon

LEMMA InspectAppLooks ==
    ASSUME NEW r \in Resources, InspectApp(r) PROVE Looked(r)
<1> DEFINE s == subscription[r]
           f == AppFinding(r, s, plans)
<1>1. rule = "app_service" /\ Turn("app_service", r)
  BY DEF InspectApp, Turn
<1>2. PICK allRead \in BOOLEAN, complete \in BOOLEAN :
          Report(r, /\ AppCandidate(s, plans) /\ allRead
                    /\ AllZero({AppMetric(s.telemetry[m]) : m \in AppMetrics})
                    /\ complete /\ s.jobs = 0, f)
  BY Zenon DEF InspectApp
<1>3. f.resource = r
  BY FindingFields DEF AppFinding
<1>4. /\ AppCandidate(s, plans) /\ allRead
                    /\ AllZero({AppMetric(s.telemetry[m]) : m \in AppMetrics})
                    /\ complete /\ s.jobs = 0 => Due(f)
  BY <1>1, <1>3 DEF Due, DueFor
<1> HIDE DEF f
<1> QED
  BY <1>1, <1>2, <1>3, <1>4, ReportIsLook, Zenon

LEMMA InspectRegistryLooks ==
    ASSUME NEW r \in Resources, InspectRegistry(r) PROVE Looked(r)
<1> DEFINE s == subscription[r]
           zero(points) == points # None /\ RegistryAnswer(points) = "ZERO"
           finding(pulls, pushes) ==
               [RegistryFinding(r, s) EXCEPT
                   !.detail = [priced |-> s.knownSku,
                               answers |-> [SuccessfulPullCount |-> pulls, SuccessfulPushCount |-> pushes]]]
<1>1. rule = "registry" /\ Turn("registry", r)
  BY DEF InspectRegistry, Turn
<1>2. PICK pulls \in RegistryAnswers(s.telemetry["SuccessfulPullCount"]),
           pushes \in RegistryAnswers(s.telemetry["SuccessfulPushCount"]) :
          Report(r, RegistryCandidate(s) /\ zero(pulls) /\ zero(pushes), finding(pulls, pushes))
  BY Zenon DEF InspectRegistry
<1> DEFINE f == finding(pulls, pushes)
           answers == [SuccessfulPullCount |-> pulls, SuccessfulPushCount |-> pushes]
<1>3. f.resource = r /\ f.detail.answers = answers
  BY DEF RegistryFinding, Finding
<1>4. answers["SuccessfulPullCount"] = pulls /\ answers["SuccessfulPushCount"] = pushes
  OBVIOUS
<1> HIDE DEF f, answers
<1>5. zero(pulls) /\ zero(pushes) => Due(f)
  <2> SUFFICES ASSUME zero(pulls), zero(pushes), NEW m \in RegistryMetrics
               PROVE  LET answer == f.detail.answers[m]
                      IN  /\ answer \in RegistryAnswers(s.telemetry[m])
                          /\ answer # None /\ RegistryAnswer(answer) = "ZERO"
    BY <1>1, <1>3 DEF Due, DueFor
  <2>1. CASE m = "SuccessfulPullCount"
    BY <1>2, <1>3, <1>4, <2>1
  <2>2. CASE m = "SuccessfulPushCount"
    BY <1>2, <1>3, <1>4, <2>2
  <2> QED
    BY <2>1, <2>2 DEF RegistryMetrics
<1>6. Report(r, RegistryCandidate(s) /\ zero(pulls) /\ zero(pushes), f)
  BY <1>2 DEF f
<1> QED
  BY <1>1, <1>3, <1>5, <1>6, ReportIsLook, Zenon

LEMMA InspectEndpointLooks ==
    ASSUME NEW r \in Resources, InspectEndpoint(r) PROVE Looked(r) \/ Raised
<1> DEFINE s == subscription[r]
           points == s.telemetry["RequestsPerMinute"]
           asks == EndpointOld(s) /\ EndpointBilled(s)
           f == EndpointFinding(r, s, points)
<1>1. rule = "ml_endpoint" /\ Turn("ml_endpoint", r)
  BY DEF InspectEndpoint, Turn
<1>2. CASE MetricsDenied(r, asks)
  BY <1>1, <1>2 DEF MetricsDenied, Turn, Raised, context
<1>3. ASSUME NEW allRead \in BOOLEAN, Report(r, asks /\ allRead /\ EndpointMetric(points) = "ZERO", f)
      PROVE  Looked(r)
  <2>1. f.resource = r /\ f.confidence = (IF HighCoverage("ml_endpoint", points) THEN "high" ELSE "medium")
    BY FindingFields DEF EndpointFinding
  <2>2. asks /\ EndpointMetric(points) = "ZERO" => Due(f)
    BY <1>1, <2>1 DEF Due, DueFor
  <2> HIDE DEF f, asks, points
  <2> QED
    BY <1>1, <1>3, <2>1, <2>2, ReportIsLook, Zenon
<1> QED
  BY <1>2, <1>3, Zenon DEF InspectEndpoint

LEMMA InspectDeploymentLooks ==
    ASSUME NEW r \in Resources, InspectDeployment(r) PROVE Looked(r) \/ Raised
<1> DEFINE s == subscription[r]
           points == s.telemetry["AzureOpenAIRequests"]
           f == OpenAiFinding(r, s, points)
<1>1. rule = "openai" /\ Turn("openai", r)
  BY DEF InspectDeployment, Turn
<1>2. CASE MetricsDenied(r, OpenAiCandidate(s))
  BY <1>1, <1>2 DEF MetricsDenied, Turn, Raised, context
<1>3. ASSUME NEW allRead \in BOOLEAN, Report(r, OpenAiCandidate(s) /\ allRead /\ OpenAiMetric(points) = "ZERO", f)
      PROVE  Looked(r)
  <2>1. f.resource = r /\ f.confidence = (IF HighCoverage("openai", points) THEN "high" ELSE "medium")
    BY FindingFields DEF OpenAiFinding
  <2>2. OpenAiMetric(points) = "ZERO" => Due(f)
    BY <1>1, <2>1 DEF Due, DueFor
  <2> HIDE DEF f, points
  <2> QED
    BY <1>1, <1>3, <2>1, <2>2, ReportIsLook, Zenon
<1> QED
  BY <1>2, <1>3, Zenon DEF InspectDeployment

LEMMA InspectAppGatewayLooks ==
    ASSUME NEW r \in Resources, InspectAppGateway(r) PROVE Looked(r)
<1>1. rule = "app_gateway" /\ Turn("app_gateway", r)
  BY DEF InspectAppGateway, Turn
<1>2. \A f \in GatewayFindings(r, subscription[r]) : f.resource = r
  BY DEF GatewayFindings
<1>3. \A f \in findings' \ findings : f \in GatewayFindings(r, subscription[r])
  BY Zenon DEF InspectAppGateway
<1>4. \A f \in findings' \ findings : f.resource = r /\ Due(f)
  BY <1>1, <1>2, <1>3 DEF Due, DueFor
<1> QED
  BY <1>1, <1>4 DEF InspectAppGateway, Turn, Looked, context

\* Every handling of a resource ends with a look at it or with an exception.
LEMMA ResourceShape ==
    ASSUME NEW r \in Resources, Resource(r)
    PROVE  Looked(r) \/ Raised
BY InspectLbLooks, InspectPublicIpLooks, InspectDiskLooks, InspectInstanceLooks, InspectPlanLooks,
   InspectVmLooks, InspectVnetGatewayLooks, InspectSearchLooks, InspectClusterLooks,
   InspectDatabaseLooks, InspectAppLooks, InspectRegistryLooks, InspectEndpointLooks,
   InspectDeploymentLooks, InspectAppGatewayLooks, Zenon DEF Resource

-----------------------------------------------------------------------------
(* Type correctness *)

LEMMA InitTypeOK == Init => TypeOK
<1>1. None \notin {"permission", "other"}
  BY MarksAssumption DEF Words
<1> QED
  BY <1>1 DEF Init, TypeOK

LEMMA NextTypeOK == TypeOK /\ [Next]_vars => TypeOK'
<1> SUFFICES ASSUME TypeOK, [Next]_vars PROVE TypeOK'
  OBVIOUS
<1> USE DEF TypeOK
<1>1. ASSUME NEW r \in Resources, Looked(r) PROVE TypeOK'
  <2>1. \A f \in findings' : f.resource \in inspected'
    BY <1>1 DEF Looked
  <2> QED
    BY <1>1, <2>1 DEF Looked, Todo
<1>2. CASE Raised
  BY <1>2 DEF Raised
<1>3. ASSUME NEW parent, ParentFails(parent) PROVE TypeOK'
  BY <1>3 DEF ParentFails, Children, Todo, context
<1>4. CASE ListingFails
  BY <1>4 DEF ListingFails, context
<1>5. CASE ReadPlans
  BY <1>5 DEF ReadPlans, context
<1>6. CASE Return
  BY <1>6 DEF Return, Todo, context
<1>7. CASE UNCHANGED vars
  BY <1>7 DEF vars
<1> QED
  BY <1>1, <1>2, <1>3, <1>4, <1>5, <1>6, <1>7, ResourceShape DEF Next

\* A rule returns only when it is done with every resource or has lost its listing, it has no
\* findings about any other, and it raises exactly where it says so.
THEOREM TypeCorrect == Spec => []TypeOK
BY InitTypeOK, NextTypeOK, PTL DEF Spec

-----------------------------------------------------------------------------
(* Every finding is due: the inductive invariant *)

\* A gateway's findings are made at once, and stay what they are.
Complete(r) ==
    {f \in findings : f.resource = r} =
        IF r \in inspected /\ InScope(r) THEN GatewayFindings(r, subscription[r]) ELSE {}

AllDue ==
    /\ rule \in Rules /\ subscription \in Subscriptions[rule]
    /\ \A f \in findings : f.resource \in Resources /\ Due(f)
    /\ rule = "app_gateway" => \A r \in Resources : Complete(r)

\* What is due depends on the subscription alone.
LEMMA DueStays ==
    ASSUME UNCHANGED <<rule, subscription>>, NEW f
    PROVE  Due(f) => Due(f)'
BY DEF Due

\* So is what is complete, as long as nothing is looked at.
LEMMA CompleteStays ==
    ASSUME UNCHANGED <<subscription, regionFilter, inspected, findings>>, NEW r
    PROVE  Complete(r) => Complete(r)'
BY DEF Complete, InScope

LEMMA InitAllDue == Init => AllDue
BY DEF Init, AllDue, Complete

\* A step that leaves findings and resources alone.
Idle == UNCHANGED <<rule, subscription, regionFilter, inspected, findings>>

LEMMA IdleAllDue == AllDue /\ Idle => AllDue'
<1> SUFFICES ASSUME AllDue, Idle PROVE AllDue'
  OBVIOUS
<1>1. UNCHANGED <<rule, subscription, regionFilter, inspected, findings>>
  BY DEF Idle
<1>2. \A f \in findings' : f.resource \in Resources /\ Due(f)'
  BY <1>1, DueStays DEF AllDue
<1>3. rule' = "app_gateway" => \A r \in Resources : Complete(r)'
  BY <1>1, CompleteStays DEF AllDue
<1> QED
  BY <1>1, <1>2, <1>3 DEF AllDue

LEMMA LookedAllDue ==
    ASSUME TypeOK, AllDue, NEW r \in Resources, Looked(r),
           rule = "app_gateway" => InspectAppGateway(r)
    PROVE  AllDue'
<1>1. UNCHANGED <<rule, subscription, regionFilter>>
  BY DEF Looked
<1>2. \A f \in findings' : f.resource \in Resources /\ Due(f)
  BY DEF AllDue, Looked
<1>3. \A f \in findings' : f.resource \in Resources /\ Due(f)'
  BY <1>1, <1>2, DueStays
<1>4. ASSUME rule = "app_gateway", NEW x \in Resources PROVE Complete(x)'
  <2>1. inspected' = inspected \cup {r} /\ r \notin inspected
    BY DEF Looked, Todo
  <2>2. findings' = findings \cup (IF InScope(r) THEN GatewayFindings(r, subscription[r]) ELSE {})
    BY <1>4 DEF InspectAppGateway
  <2>3. \A f \in GatewayFindings(r, subscription[r]) : f.resource = r
    BY DEF GatewayFindings
  <2>4. InScope(x)' = InScope(x)
    BY <1>1 DEF InScope
  <2>5. Complete(x)
    BY <1>4 DEF AllDue
  <2>6. CASE x = r
    <3>1. {f \in findings : f.resource = x} = {}
      BY <2>1, <2>5, <2>6 DEF Complete
    <3>2. {f \in findings' : f.resource = x} =
              IF InScope(x) THEN GatewayFindings(x, subscription[x]) ELSE {}
      BY <2>2, <2>3, <2>6, <3>1
    <3> QED
      BY <1>1, <2>1, <2>4, <2>6, <3>2 DEF Complete
  <2>7. CASE x # r
    <3>1. {f \in findings' : f.resource = x} = {f \in findings : f.resource = x}
      BY <2>2, <2>3, <2>7
    <3> QED
      BY <1>1, <2>1, <2>4, <2>5, <2>7, <3>1 DEF Complete
  <2> QED
    BY <2>6, <2>7
<1> QED
  BY <1>1, <1>3, <1>4 DEF AllDue

LEMMA NextAllDue == TypeOK /\ AllDue /\ [Next]_vars => AllDue'
<1> SUFFICES ASSUME TypeOK, AllDue, [Next]_vars PROVE AllDue'
  OBVIOUS
<1>1. ASSUME NEW r \in Resources, Resource(r) PROVE AllDue'
  <2>1. CASE Raised
    BY <2>1, IdleAllDue DEF Raised, Idle
  <2>2. CASE Looked(r)
    <3>1. rule = "app_gateway" => InspectAppGateway(r)
      BY <1>1 DEF Resource, InspectLb, InspectPublicIp, InspectPlan, InspectDisk, InspectVm,
                  InspectVnetGateway, InspectSearch, InspectCluster, InspectInstance,
                  InspectEndpoint, InspectDeployment, InspectDatabase, InspectApp, InspectRegistry, Turn
    <3> QED
      BY <2>2, <3>1, LookedAllDue
  <2> QED
    BY <1>1, <2>1, <2>2, ResourceShape
<1>2. CASE Idle
  BY <1>2, IdleAllDue
<1>3. (\E r \in Resources : Resource(r)) \/ Idle
  BY DEF Next, vars, context, Idle, ParentFails, ListingFails, ReadPlans, Return
<1> QED
  BY <1>1, <1>2, <1>3

LEMMA EveryFindingIsDue == Spec => [](TypeOK /\ AllDue)
<1>1. Init => TypeOK /\ AllDue
  BY InitTypeOK, InitAllDue
<1>2. TypeOK /\ AllDue /\ [Next]_vars => (TypeOK /\ AllDue)'
  BY NextTypeOK, NextAllDue
<1> QED
  BY <1>1, <1>2, PTL DEF Spec

-----------------------------------------------------------------------------
(* Two views of one field *)

\* Views that differ agree on nothing.
LEMMA AgreedFacts ==
    ASSUME NEW view, Agreed(view) # None
    PROVE  /\ ~Conflicting(view)
           /\ view[1] \in {None, Agreed(view)} /\ view[2] \in {None, Agreed(view)}
           /\ view[1] = Agreed(view) \/ view[2] = Agreed(view)
BY DEF Agreed, Either, Conflicting

LEMMA PairIsFinite ==
    ASSUME NEW a, NEW b, NEW x
    PROVE  IsFiniteSet({a, b} \ {x})
<1>1. {a, b} = ({} \cup {a}) \cup {b}
  OBVIOUS
<1>2. IsFiniteSet({a, b})
  BY <1>1, FS_EmptySet, FS_AddElement, Zenon
<1> QED
  BY <1>2, FS_Subset, Zenon

\* If two views differ from a mark and come to one value, they are the same.
LEMMA OneOfTwo ==
    ASSUME NEW a, NEW b, NEW x, a # x, b # x, Cardinality({a, b} \ {x}) = 1
    PROVE  a = b
<1>1. \E c : {a, b} \ {x} = {c}
  BY PairIsFinite, FS_Singleton
<1> QED
  BY <1>1

\* The fields a finding of a rule rests on, each agreed by both views.
LEMMA FieldsAgree ==
    ASSUME NEW name \in DOMAIN ComparedFields, NEW s, NEW f, DueFor(name, s, f)
    PROVE  \A field \in ComparedFields[name] : Agreed(s[field]) # None
<1> USE MarksAssumption DEF Words
<1>1. CASE name = "vnet_gateway"
  BY <1>1 DEF DueFor, ComparedFields, GatewayInService, GatewayState, GatewayType
<1>2. CASE name = "ai_search"
  <2>1. SearchCandidate(s)
    BY <1>2 DEF DueFor
  <2>2. Agreed(s.replicas) # None /\ Agreed(s.partitions) # None
    BY <2>1 DEF SearchCandidate, Capacity
  <2>3. Agreed(s.state) # None /\ Agreed(s.status) # None
    BY <2>1 DEF SearchCandidate, SearchState, SearchStatus
  <2> QED
    BY <1>2, <2>2, <2>3 DEF ComparedFields
<1>3. CASE name = "aml_compute"
  <2>1. ClusterType(s) = "AmlCompute" /\ ClusterState(s) = "Steady"
    BY <1>3 DEF DueFor, ClusterCandidate
  <2> QED
    BY <1>3, <2>1 DEF ComparedFields, ClusterType, ClusterState
<1>4. CASE name = "aml_instance"
  <2>1. InstanceState(s) = "Running"
    BY <1>4 DEF DueFor, InstanceCandidate
  <2> QED
    BY <1>4, <2>1 DEF ComparedFields, InstanceState, ClusterType
<1>5. CASE name = "disk"
  <2>1. DiskState(s) = "Unattached" /\ MaxShares(s) # None /\ FrequentAttach(s) = "no"
    BY <1>5 DEF DueFor, DiskCandidate
  <2>2. Agreed(s.provisioning) # None /\ Agreed(s.state) # None
    BY <2>1 DEF DiskState
  <2>3. Agreed(s.maxShares) # None
    BY <2>1 DEF MaxShares
  <2>4. Agreed(s.frequentAttach) # None
    BY <2>1 DEF FrequentAttach
  <2> QED
    BY <1>5, <2>2, <2>3, <2>4 DEF ComparedFields
<1>6. CASE name = "vm"
  BY <1>6 DEF DueFor, ComparedFields, VmState
<1> QED
  BY <1>1, <1>2, <1>3, <1>4, <1>5, <1>6 DEF ComparedFields

\* The administrative state of an ExpressRoute gateway and the bypasses of its connections.
LEMMA ExpressRouteAgrees ==
    ASSUME NEW gw, GatewayInService(gw), Unconnected(gw, GatewayType(gw)),
           GatewayType(gw) = "ExpressRoute",
           NEW view \in {gw.admin} \cup {c.bypass : c \in gw.connections},
           Absent \notin {view[1], view[2]}
    PROVE  view[1] = view[2]
<1>1. CASE view = gw.admin
  <2>1. AdminState(gw) # None
    BY DEF GatewayInService
  <2>2. Cardinality({view[1], view[2]} \ {Absent}) = 1
    BY <1>1, <2>1, Zenon DEF AdminState
  <2> QED
    BY <2>2, OneOfTwo
<1>2. CASE view # gw.admin
  <2>1. PICK c \in gw.connections : view = c.bypass
    BY <1>2
  <2>2. Bypass(c) # None
    BY MarksAssumption DEF Unconnected, Words
  <2>3. Cardinality({view[1], view[2]} \ {Absent}) = 1
    BY <2>1, <2>2, Zenon DEF Bypass
  <2> QED
    BY <2>3, OneOfTwo
<1> QED
  BY <1>1, <1>2

\* Both views of a VPN gateway have a point-to-site configuration, or none has.
LEMMA PresenceAgrees ==
    ASSUME NEW gw, GatewayInService(gw), GatewayType(gw) = "Vpn",
           Absent \notin {gw.p2s[1], gw.p2s[2]}
    PROVE  gw.p2s[1] = None <=> gw.p2s[2] = None
<1>1. PointToSite(gw) # None
  BY MarksAssumption DEF GatewayInService, Words
<1> QED
  BY <1>1, Zenon DEF PointToSite

\* Nothing is reported whose views differ in a field of which its rule compares them: the fields
\* of ComparedFields and, of a gateway, the types and bypasses of its connections, its
\* administrative state and whether it has a point-to-site configuration.
THEOREM NoComparedConflict == Spec => []ComparedViewsAgree
<1>1. AllDue => ComparedViewsAgree
  <2> SUFFICES ASSUME AllDue, NEW f \in findings
               PROVE  LET s == subscription[f.resource]
                      IN  /\ rule \in DOMAIN ComparedFields =>
                                 \A field \in ComparedFields[rule] : ~Conflicting(s[field])
                          /\ rule = "vnet_gateway" => \A c \in s.connections : ~Conflicting(c.type)
                          /\ rule = "vnet_gateway" /\ GatewayType(s) = "ExpressRoute" =>
                                 \A view \in {s.admin} \cup {c.bypass : c \in s.connections} :
                                     Absent \notin {view[1], view[2]} => view[1] = view[2]
                          /\ rule = "vnet_gateway" /\ GatewayType(s) = "Vpn"
                                 /\ Absent \notin {s.p2s[1], s.p2s[2]} =>
                                 (s.p2s[1] = None <=> s.p2s[2] = None)
    BY Zenon DEF ComparedViewsAgree
  <2> DEFINE s == subscription[f.resource]
  <2>1. DueFor(rule, s, f)
    BY DEF AllDue, Due
  <2>2. rule \in DOMAIN ComparedFields => \A field \in ComparedFields[rule] : ~Conflicting(s[field])
    BY <2>1, FieldsAgree, AgreedFacts, Zenon
  <2>3. rule = "vnet_gateway" => GatewayInService(s) /\ Unconnected(s, GatewayType(s))
    BY <2>1 DEF DueFor
  <2>4. rule = "vnet_gateway" => \A c \in s.connections : ~Conflicting(c.type)
    BY <2>3, AgreedFacts DEF Unconnected, ConnectionType
  <2> HIDE DEF s
  <2>5. rule = "vnet_gateway" /\ GatewayType(s) = "ExpressRoute" =>
           \A view \in {s.admin} \cup {c.bypass : c \in s.connections} :
               Absent \notin {view[1], view[2]} => view[1] = view[2]
    BY <2>3, ExpressRouteAgrees
  <2>6. rule = "vnet_gateway" /\ GatewayType(s) = "Vpn" /\ Absent \notin {s.p2s[1], s.p2s[2]} =>
           (s.p2s[1] = None <=> s.p2s[2] = None)
    BY <2>3, PresenceAgrees
  <2> USE DEF s
  <2> QED
    BY <2>2, <2>4, <2>5, <2>6, Zenon
<1> QED
  BY <1>1, EveryFindingIsDue, PTL

-----------------------------------------------------------------------------
(* What a resource is attached to *)

LEMMA LbHasNoMembers ==
    ASSUME NEW s, LbCandidate(s)
    PROVE  \A lbRule \in OrEmpty(Either(s.balancing)) \cup OrEmpty(Either(s.outbound)) :
               \A id \in PoolRefs(lbRule) :
                   LET pool == BackendPools(s)[id]
                   IN  {Either(pool.nics), Either(pool.addresses)} \subseteq {None, 0}
<1> SUFFICES ASSUME NEW lbRule \in BillableRules(s), NEW id \in PoolRefs(lbRule)
             PROVE  {Either(BackendPools(s)[id].nics), Either(BackendPools(s)[id].addresses)}
                        \subseteq {None, 0}
  BY Zenon DEF BillableRules
<1>3. ReferencedPools(s) # None /\ ReferencedPools(s) \subseteq DOMAIN BackendPools(s)
      /\ \A i \in ReferencedPools(s) : ~HasMembers(BackendPools(s)[i])
  BY Zenon DEF LbCandidate
<1>4. ReferencedPools(s) = UNION {PoolRefs(rule1) : rule1 \in BillableRules(s)}
  BY <1>3, Zenon DEF ReferencedPools
<1>5. id \in ReferencedPools(s)
  BY <1>4
<1>6. ~HasMembers(BackendPools(s)[id])
  BY <1>3, <1>5
<1> QED
  BY <1>6 DEF HasMembers

LEMMA DiskHasNoOwner ==
    ASSUME NEW s, DiskCandidate(s)
    PROVE  /\ {s.managedBy[1], s.managedBy[2]} \subseteq {Absent, None, ""}
           /\ {s.managedByExtended[1], s.managedByExtended[2]} \subseteq {Absent, None, 0}
<1>1. ManagedBy(s) = None /\ ManagedByExtended(s) = 0
  BY DEF DiskCandidate
<1>2. {s.managedBy[1], s.managedBy[2]} \subseteq {Absent, None, ""}
  <2> DEFINE known == {s.managedBy[1], s.managedBy[2]} \ {Absent}
             owners == {IF o = "" THEN None ELSE o : o \in known}
  <2>1. Cardinality(owners) = 1 /\ (CHOOSE o \in owners : TRUE) = None
    BY <1>1, MarksAssumption, Zenon DEF ManagedBy
  <2>2. IsFiniteSet({s.managedBy[1], None} \ {Absent}) /\ IsFiniteSet({s.managedBy[2], None} \ {Absent})
    BY PairIsFinite
  <2>3. IsFiniteSet(owners)
    <3>1. owners \subseteq ({s.managedBy[1], None} \ {Absent}) \cup ({s.managedBy[2], None} \ {Absent})
      BY MarksAssumption
    <3> HIDE DEF owners
    <3> QED
      BY <2>2, <3>1, FS_Union, FS_Subset
  <2>4. \A o \in known : (IF o = "" THEN None ELSE o) \in owners
    OBVIOUS
  <2> HIDE DEF owners
  <2>5. \E c : owners = {c}
    BY <2>1, <2>3, FS_Singleton
  <2>6. owners = {None}
    BY <2>1, <2>5
  <2>7. known \subseteq {None, ""}
    BY <2>4, <2>6
  <2> QED
    BY <2>7
<1>3. {s.managedByExtended[1], s.managedByExtended[2]} \subseteq {Absent, None, 0}
  <2> DEFINE known == {s.managedByExtended[1], s.managedByExtended[2]} \ {Absent}
             counts == {IF n = None THEN 0 ELSE n : n \in known}
  <2>1. Absent # 0
    BY MarksAssumption
  <2>2. counts # {} /\ ~(0 \in counts /\ counts # {0}) /\ (CHOOSE n \in counts : TRUE) = 0
    BY <1>1, <2>1, Zenon DEF ManagedByExtended
  <2>3. \A n \in known : (IF n = None THEN 0 ELSE n) \in counts
    OBVIOUS
  <2> HIDE DEF counts
  <2>4. counts = {0}
    BY <2>2
  <2>5. known \subseteq {None, 0}
    BY <2>3, <2>4
  <2> QED
    BY <2>5
<1> QED
  BY <1>2, <1>3

LEMMA GatewayIsUnconnected ==
    ASSUME NEW s, GatewayInService(s), Unconnected(s, GatewayType(s))
    PROVE  /\ \A c \in s.connections : {c.type[1], c.type[2]} \cap InScopeTypes = {}
           /\ GatewayType(s) = "Vpn" => "set" # (IF s.p2s[1] = Absent THEN s.p2s[2] ELSE s.p2s[1])
<1>1. None \notin InScopeTypes
  BY MarksAssumption DEF InScopeTypes, Words
<1>2. ASSUME NEW c \in s.connections
      PROVE  {c.type[1], c.type[2]} \cap InScopeTypes = {}
  <2>1. Agreed(c.type) # None /\ Agreed(c.type) \notin InScopeTypes
    BY DEF Unconnected, ConnectionType
  <2>2. {c.type[1], c.type[2]} \subseteq {None, Agreed(c.type)}
    BY <2>1, AgreedFacts
  <2> QED
    BY <1>1, <2>1, <2>2
<1>3. ASSUME GatewayType(s) = "Vpn"
      PROVE  "set" # (IF s.p2s[1] = Absent THEN s.p2s[2] ELSE s.p2s[1])
  <2>1. PointToSite(s) = "no"
    BY <1>3 DEF GatewayInService
  <2>2. None \notin {"no", "set"} /\ Absent # "set"
    BY MarksAssumption DEF Words
  <2> DEFINE config == IF s.p2s[1] = Absent THEN s.p2s[2] ELSE s.p2s[1]
  <2>3. config = (IF s.p2s[1] # Absent THEN s.p2s[1] ELSE s.p2s[2])
    OBVIOUS
  <2> HIDE DEF config
  <2>4. ASSUME config = "set" PROVE PointToSite(s) \in {None, "yes"}
    <3>1. config # Absent /\ config \notin {None, "empty"} /\ config # "mixed"
      BY <2>2, <2>4
    <3> QED
      BY <2>3, <3>1, Zenon DEF PointToSite
  <2>5. config # "set"
    BY <2>1, <2>2, <2>4
  <2> QED
    BY <2>5 DEF config
<1> QED
  BY <1>2, <1>3

\* Of what a rule reports nothing is attached to anything: in either view of an address, a disk
\* and a gateway's connections, and in the view the rule takes of a load balancer's rules and
\* members and of a point-to-site configuration.
THEOREM NothingInUseIsReported == Spec => []InUseIsNotReported
<1>1. AllDue => InUseIsNotReported
  <2> SUFFICES ASSUME AllDue, NEW f \in findings
               PROVE  LET s == subscription[f.resource] IN
          /\ rule = "lb" =>
                 \A lbRule \in OrEmpty(Either(s.balancing)) \cup OrEmpty(Either(s.outbound)) :
                     \A id \in PoolRefs(lbRule) :
                         LET pool == BackendPools(s)[id]
                         IN  {Either(pool.nics), Either(pool.addresses)} \subseteq {None, 0}
          /\ rule = "public_ip" =>
                 \A link \in DOMAIN s.links : {s.links[link][1], s.links[link][2]} = {None}
          /\ rule = "plan" => s.apps = 0 /\ s.sites \in {None, 0}
          /\ rule = "disk" => /\ {s.managedBy[1], s.managedBy[2]} \subseteq {Absent, None, ""}
                              /\ {s.managedByExtended[1], s.managedByExtended[2]}
                                     \subseteq {Absent, None, 0}
          /\ rule = "vm" => s.power = {"stopped"}
          /\ rule = "vnet_gateway" =>
                 /\ \A c \in s.connections : {c.type[1], c.type[2]} \cap InScopeTypes = {}
                 /\ GatewayType(s) = "Vpn"
                        => "set" # (IF s.p2s[1] = Absent THEN s.p2s[2] ELSE s.p2s[1])
          /\ rule = "ai_search" => s.objects = {}
          /\ rule = "app_service" => s.jobs = 0
          /\ rule = "ml_endpoint" => \A d \in Stable(s) : d.kind # "kubernetes"
    BY DEF InUseIsNotReported
  <2> DEFINE s == subscription[f.resource]
  <2>1. DueFor(rule, s, f) /\ f.resource \in Resources /\ subscription \in Subscriptions[rule]
    BY DEF AllDue, Due
  <2>2. ASSUME rule = "lb"
        PROVE  \A lbRule \in OrEmpty(Either(s.balancing)) \cup OrEmpty(Either(s.outbound)) :
                   \A id \in PoolRefs(lbRule) :
                       LET pool == BackendPools(s)[id]
                       IN  {Either(pool.nics), Either(pool.addresses)} \subseteq {None, 0}
    <3>1. LbCandidate(s)
      BY <2>1, <2>2 DEF DueFor
    <3> HIDE DEF s
    <3> QED
      BY <3>1, LbHasNoMembers, Zenon
  <2>3. ASSUME rule = "public_ip"
        PROVE  \A link \in DOMAIN s.links : {s.links[link][1], s.links[link][2]} = {None}
    <3>1. \A link \in DOMAIN s.links : Either(s.links[link]) = None
      BY <2>1, <2>3 DEF DueFor, PublicIpCandidate, Linked
    <3> HIDE DEF s
    <3> QED
      BY <3>1 DEF Either
  <2>4. ASSUME rule = "plan" PROVE s.apps = 0 /\ s.sites \in {None, 0}
    <3>1. s.apps = 0 /\ (s.sites = None \/ s.sites <= 0)
      BY <2>1, <2>4 DEF DueFor, PlanCandidate
    <3>2. s.sites \in Nat \cup {None}
      BY <2>1, <2>4, ViewsAssumption, Zenon
    <3> HIDE DEF s
    <3> QED
      BY <3>1, <3>2
  <2>5. ASSUME rule = "vm" PROVE s.power = {"stopped"}
    <3>1. PowerState(s.power) = "stopped"
      BY <2>1, <2>5 DEF DueFor
    <3>2. IsFiniteSet(s.power)
      BY <2>1, <2>5, ViewsAssumption, Zenon
    <3>3. None # "stopped"
      BY MarksAssumption DEF Words
    <3> HIDE DEF s
    <3>4. Cardinality(s.power) = 1 /\ (CHOOSE c \in s.power : TRUE) = "stopped"
      BY <3>1, <3>3 DEF PowerState
    <3>5. \E c : s.power = {c}
      BY <3>2, <3>4, FS_Singleton
    <3> QED
      BY <3>4, <3>5
  <2>6. ASSUME rule = "ai_search" PROVE s.objects = {}
    <3>1. s.objects \cap SearchSurfaces = {}
      BY <2>1, <2>6 DEF DueFor
    <3>2. s.objects \subseteq SearchSurfaces
      BY <2>1, <2>6, ViewsAssumption, Zenon
    <3> QED
      BY <3>1, <3>2
  <2>7. ASSUME rule = "ml_endpoint" PROVE \A d \in Stable(s) : d.kind # "kubernetes"
    <3>1. ManagedScope(s) # "none"
      BY <2>1, <2>7 DEF DueFor, EndpointBilled
    <3> HIDE DEF s
    <3> QED
      BY <3>1 DEF ManagedScope
  <2>8. rule = "app_service" => s.jobs = 0
    BY <2>1 DEF DueFor
  <2>9. rule = "disk" => DiskCandidate(s)
    BY <2>1 DEF DueFor
  <2>10. rule = "vnet_gateway" => GatewayInService(s) /\ Unconnected(s, GatewayType(s))
    BY <2>1 DEF DueFor
  <2> HIDE DEF s
  <2>11. rule = "disk" => /\ {s.managedBy[1], s.managedBy[2]} \subseteq {Absent, None, ""}
                          /\ {s.managedByExtended[1], s.managedByExtended[2]}
                                 \subseteq {Absent, None, 0}
    BY <2>9, DiskHasNoOwner, Zenon
  <2>12. rule = "vnet_gateway" =>
             /\ \A c \in s.connections : {c.type[1], c.type[2]} \cap InScopeTypes = {}
             /\ GatewayType(s) = "Vpn"
                    => "set" # (IF s.p2s[1] = Absent THEN s.p2s[2] ELSE s.p2s[1])
    BY <2>10, GatewayIsUnconnected, Zenon
  <2> USE DEF s
  <2> QED
    BY <2>2, <2>3, <2>4, <2>5, <2>6, <2>7, <2>8, <2>11, <2>12, Zenon
<1> QED
  BY <1>1, EveryFindingIsDue, PTL

-----------------------------------------------------------------------------
(* Where the routes of a gateway lead *)

\* What a rule of a gateway refers to: path maps, policies and pools, as far as its
\* references resolve.
MapOf(g, id) == TopRules(g)[id].map
FromMap(g, id, field) ==
    IF MapOf(g, id) \in DOMAIN PathMaps(g) THEN MapRefs(PathMaps(g)[MapOf(g, id)], field) ELSE {}
PoliciesOf(g, id) == {TopRules(g)[id].policy} \cup FromMap(g, id, "policy")
PoolsOf(g, id) ==
    {TopRules(g)[id].pool} \cup FromMap(g, id, "pool")
    \cup UNION {TargetRefs(Policies(g)[ref]) : ref \in PoliciesOf(g, id) \cap DOMAIN Policies(g)}
From(g, id) == {id, MapOf(g, id)} \cup PoliciesOf(g, id) \cup PoolsOf(g, id)

\* An edge begins at a rule, a path map or a policy.
LEMMA EdgeFacts ==
    ASSUME NEW g, NEW x, NEW y
    PROVE  <<x, y>> \in Edges(g) <=>
              \/ x \in DOMAIN TopRules(g)
                 /\ y \in {TopRules(g)[x].pool, TopRules(g)[x].map, TopRules(g)[x].policy}
              \/ x \in DOMAIN PathMaps(g)
                 /\ y \in MapRefs(PathMaps(g)[x], "pool") \cup MapRefs(PathMaps(g)[x], "policy")
              \/ x \in DOMAIN Policies(g) /\ y \in TargetRefs(Policies(g)[x])
<1>1. ASSUME NEW rules
      PROVE  <<x, y>> \in RuleEdges(rules)
             <=> x \in DOMAIN rules /\ y \in {rules[x].pool, rules[x].map, rules[x].policy}
  BY DEF RuleEdges
<1>2. ASSUME NEW maps
      PROVE  <<x, y>> \in MapEdges(maps)
             <=> x \in DOMAIN maps /\ y \in MapRefs(maps[x], "pool") \cup MapRefs(maps[x], "policy")
  BY DEF MapEdges
<1>3. ASSUME NEW policies
      PROVE  <<x, y>> \in PolicyEdges(policies)
             <=> x \in DOMAIN policies /\ y \in TargetRefs(policies[x])
  BY DEF PolicyEdges
<1> QED
  BY <1>1, <1>2, <1>3 DEF Edges

LEMMA EdgesArePairs ==
    ASSUME NEW g, NEW e \in Edges(g) PROVE e = <<e[1], e[2]>>
<1>1. \E x, y : e = <<x, y>>
  BY DEF Edges, RuleEdges, MapEdges, PolicyEdges
<1> QED
  BY <1>1

LEMMA StepFacts ==
    ASSUME NEW g, NEW nodes
    PROVE  /\ nodes \subseteq Step(Edges(g), nodes)
           /\ \A x, y : x \in nodes /\ <<x, y>> \in Edges(g) => y \in Step(Edges(g), nodes)
           /\ \A y \in Step(Edges(g), nodes) : y \in nodes \/ \E x \in nodes : <<x, y>> \in Edges(g)
<1> DEFINE edges == Edges(g)
<1>1. \A e \in edges : e = <<e[1], e[2]>>
  BY EdgesArePairs
<1> HIDE DEF edges
<1> SUFFICES /\ nodes \subseteq Step(edges, nodes)
             /\ \A x, y : x \in nodes /\ <<x, y>> \in edges => y \in Step(edges, nodes)
             /\ \A y \in Step(edges, nodes) : y \in nodes \/ \E x \in nodes : <<x, y>> \in edges
  BY DEF edges
<1>2. \A y \in Step(edges, nodes) : y \in nodes \/ \E x \in nodes : <<x, y>> \in edges
  BY <1>1 DEF Step
<1>3. \A x, y : x \in nodes /\ <<x, y>> \in edges => y \in Step(edges, nodes)
  <2> SUFFICES ASSUME NEW x \in nodes, NEW y, <<x, y>> \in edges PROVE y \in Step(edges, nodes)
    OBVIOUS
  <2>1. <<x, y>>[1] = x /\ <<x, y>>[2] = y
    OBVIOUS
  <2> DEFINE e == <<x, y>>
  <2> HIDE DEF e
  <2>2. e \in edges /\ e[1] \in nodes /\ e[2] = y
    BY <2>1 DEF e
  <2> QED
    BY <2>2 DEF Step
<1> QED
  BY <1>2, <1>3 DEF Step

\* None and Broken are ids of nothing.
LEMMA IdsAreUsable ==
    ASSUME NEW g, IdsTellKinds(g)
    PROVE  \A id \in DOMAIN TopRules(g) \cup DOMAIN PathMaps(g) \cup DOMAIN Policies(g) \cup DOMAIN Pools(g) :
               Usable(id)
<1>1. ASSUME NEW objects PROVE None \notin DOMAIN LastById(objects)
  BY DEF LastById
<1>2. None \notin DOMAIN TopRules(g)
  BY DEF TopRules
<1>3. None \notin DOMAIN PathMaps(g) \cup DOMAIN Policies(g) \cup DOMAIN Pools(g)
  BY <1>1 DEF PathMaps, Policies, Pools
<1> QED
  BY <1>2, <1>3 DEF IdsTellKinds, Usable

\* No reference leads on but to an object of its own kind.
LEMMA EdgesOfKinds ==
    ASSUME NEW g, IdsTellKinds(g), NEW x, NEW y, <<x, y>> \in Edges(g)
    PROVE  /\ x \in DOMAIN TopRules(g) => y \in {TopRules(g)[x].pool, TopRules(g)[x].map, TopRules(g)[x].policy}
           /\ x \in MapIds(g) =>
                 /\ x \in DOMAIN PathMaps(g)
                 /\ y \in MapRefs(PathMaps(g)[x], "pool") \cup MapRefs(PathMaps(g)[x], "policy")
           /\ x \in PolicyIds(g) => x \in DOMAIN Policies(g) /\ y \in TargetRefs(Policies(g)[x])
           /\ x \notin PoolIds(g)
<1>1. /\ DOMAIN PathMaps(g) \subseteq MapIds(g) /\ DOMAIN Policies(g) \subseteq PolicyIds(g)
  BY DEF MapIds, PolicyIds
<1>2. x \in DOMAIN TopRules(g) \cup DOMAIN PathMaps(g) \cup DOMAIN Policies(g)
  BY EdgeFacts
<1>3. x \notin {None, Broken}
  BY <1>2, IdsAreUsable DEF Usable
<1> QED
  BY <1>1, <1>2, <1>3, EdgeFacts DEF IdsTellKinds

\* The references of a rule, one after another, are of those kinds.
LEMMA KindsOfRefs ==
    ASSUME NEW g, NEW id \in DOMAIN TopRules(g)
    PROVE  /\ MapOf(g, id) \in MapIds(g)
           /\ PoliciesOf(g, id) \subseteq PolicyIds(g)
           /\ PoolsOf(g, id) \subseteq PoolIds(g)
<1>1. MapOf(g, id) \in MapIds(g)
  BY DEF MapOf, MapIds
<1>2. PoliciesOf(g, id) \subseteq PolicyIds(g)
  BY DEF PoliciesOf, FromMap, PolicyIds
<1>3. PoolsOf(g, id) \subseteq PoolIds(g)
  <2>1. TopRules(g)[id].pool \in PoolIds(g)
    BY DEF PoolIds
  <2>2. FromMap(g, id, "pool") \subseteq PoolIds(g)
    BY DEF FromMap, PoolIds
  <2>3. \A ref \in DOMAIN Policies(g) : TargetRefs(Policies(g)[ref]) \subseteq PoolIds(g)
    BY DEF PoolIds
  <2> QED
    BY <2>1, <2>2, <2>3 DEF PoolsOf
<1> QED
  BY <1>1, <1>2, <1>3

\* In three steps a rule leads to its references, and to nothing else.
LEMMA ReachedFacts ==
    ASSUME NEW g, IdsTellKinds(g), NEW rules \in SUBSET DOMAIN TopRules(g)
    PROVE  /\ \A y \in Reached(g, rules) : \E id \in rules : y \in From(g, id)
           /\ \A id \in rules : PoolsOf(g, id) \subseteq Reached(g, rules)
<1> DEFINE one == Step(Edges(g), rules)
           two == Step(Edges(g), one)
           three == Step(Edges(g), two)
<1>0. Reached(g, rules) = three
  BY DEF Reached
<1>1. /\ \A x, y : x \in rules /\ <<x, y>> \in Edges(g) => y \in one
      /\ \A y \in one : y \in rules \/ \E x \in rules : <<x, y>> \in Edges(g)
  BY StepFacts, Zenon
<1>2. /\ one \subseteq two
      /\ \A x, y : x \in one /\ <<x, y>> \in Edges(g) => y \in two
      /\ \A y \in two : y \in one \/ \E x \in one : <<x, y>> \in Edges(g)
  BY StepFacts, Zenon
<1>3. /\ two \subseteq three
      /\ \A x, y : x \in two /\ <<x, y>> \in Edges(g) => y \in three
      /\ \A y \in three : y \in two \/ \E x \in two : <<x, y>> \in Edges(g)
  BY StepFacts, Zenon
<1> HIDE DEF one, two, three
<1> DEFINE Near(id) == {id, TopRules(g)[id].pool, TopRules(g)[id].map, TopRules(g)[id].policy}
<1>4. \A id \in rules : Near(id) \subseteq From(g, id)
  BY DEF From, MapOf, PoliciesOf, PoolsOf
<1>5. \A y \in one : \E id \in rules : y \in Near(id)
  <2> SUFFICES ASSUME NEW y \in one PROVE \E id \in rules : y \in Near(id)
    OBVIOUS
  <2>1. CASE y \in rules
    BY <2>1
  <2>2. ASSUME NEW x \in rules, <<x, y>> \in Edges(g) PROVE y \in Near(x)
    BY <2>2, EdgesOfKinds
  <2> QED
    BY <1>1, <2>1, <2>2
<1>6. \A id \in DOMAIN TopRules(g) : \A x, y : x \in From(g, id) /\ <<x, y>> \in Edges(g) => y \in From(g, id)
  <2> SUFFICES ASSUME NEW id \in DOMAIN TopRules(g), NEW x \in From(g, id), NEW y, <<x, y>> \in Edges(g)
               PROVE  y \in From(g, id)
    BY Zenon
  <2>1. CASE x = id
    BY <2>1, EdgesOfKinds DEF From, MapOf, PoliciesOf, PoolsOf
  <2>2. CASE x = MapOf(g, id)
    BY <2>2, EdgesOfKinds, KindsOfRefs DEF From, FromMap, PoliciesOf, PoolsOf
  <2>3. CASE x \in PoliciesOf(g, id)
    <3>1. x \in DOMAIN Policies(g) /\ y \in TargetRefs(Policies(g)[x])
      BY <2>3, EdgesOfKinds, KindsOfRefs
    <3> QED
      BY <2>3, <3>1 DEF From, PoolsOf
  <2>4. CASE x \in PoolsOf(g, id)
    BY <2>4, EdgesOfKinds, KindsOfRefs
  <2> QED
    BY <2>1, <2>2, <2>3, <2>4 DEF From
<1>7. \A y \in one : \E id \in rules : y \in From(g, id)
  BY <1>4, <1>5
<1>8. \A y \in two : \E id \in rules : y \in From(g, id)
  BY <1>2, <1>6, <1>7
<1>9. \A y \in three : \E id \in rules : y \in From(g, id)
  BY <1>3, <1>6, <1>8
<1>10. ASSUME NEW id \in rules, NEW p \in PoolsOf(g, id) PROVE p \in three
  <2>1. \A ref \in {TopRules(g)[id].pool, TopRules(g)[id].map, TopRules(g)[id].policy} : ref \in one
    BY <1>1, EdgeFacts
  <2>2. \A ref \in FromMap(g, id, "pool") \cup FromMap(g, id, "policy") : ref \in two
    BY <1>2, <2>1, EdgeFacts DEF FromMap, MapOf
  <2>3. \A ref \in PoliciesOf(g, id) : ref \in two
    BY <1>2, <2>1, <2>2 DEF PoliciesOf
  <2>4. CASE p = TopRules(g)[id].pool
    BY <1>2, <1>3, <2>1, <2>4
  <2>5. CASE p \in FromMap(g, id, "pool")
    BY <1>3, <2>2, <2>5
  <2>6. ASSUME NEW ref \in PoliciesOf(g, id) \cap DOMAIN Policies(g), p \in TargetRefs(Policies(g)[ref])
        PROVE  p \in three
    <3>1. <<ref, p>> \in Edges(g)
      BY <2>6, EdgeFacts
    <3> QED
      BY <1>3, <2>3, <3>1
  <2> QED
    BY <2>4, <2>5, <2>6 DEF PoolsOf
<1> QED
  BY <1>0, <1>9, <1>10

-----------------------------------------------------------------------------
(* The routes the rule finds are those *)

LEMMA PoolRoutesFacts ==
    ASSUME NEW g, IdsTellKinds(g), NEW rule1, NEW hops, NEW ref
    PROVE  /\ \A x \in PoolRoutes(g, rule1, hops, ref) : x.rule = rule1 /\ x.pool = ref /\ ref \in DOMAIN Pools(g)
           /\ ref \in DOMAIN Pools(g) => \E x \in PoolRoutes(g, rule1, hops, ref) : x.pool = ref
<1>1. ref \in DOMAIN Pools(g) => PoolRoutes(g, rule1, hops, ref) = {Route(rule1, hops, ref)}
  BY IdsAreUsable, Zenon DEF PoolRoutes
<1>2. ref \notin DOMAIN Pools(g) => PoolRoutes(g, rule1, hops, ref) = {}
  BY DEF PoolRoutes
<1>3. Route(rule1, hops, ref).rule = rule1 /\ Route(rule1, hops, ref).pool = ref
  BY DEF Route
<1> QED
  BY <1>1, <1>2, <1>3

LEMMA PolicyTargetsFacts ==
    ASSUME NEW g, IdsTellKinds(g), NEW ref
    PROVE  /\ ref \in DOMAIN Policies(g) => PolicyTargets(g, ref) = Policies(g)[ref].targets
           /\ ref \notin DOMAIN Policies(g) => DOMAIN PolicyTargets(g, ref) = {}
BY IdsAreUsable DEF PolicyTargets

LEMMA PolicyRoutesFacts ==
    ASSUME NEW g, IdsTellKinds(g), NEW rule1, NEW hops, NEW ref
    PROVE  /\ \A x \in PolicyRoutes(g, rule1, hops, ref) :
                  /\ x.rule = rule1 /\ x.pool \in DOMAIN Pools(g)
                  /\ ref \in DOMAIN Policies(g) /\ x.pool \in TargetRefs(Policies(g)[ref])
           /\ ref \in DOMAIN Policies(g) =>
                 \A p \in TargetRefs(Policies(g)[ref]) \cap DOMAIN Pools(g) :
                     \E x \in PolicyRoutes(g, rule1, hops, ref) : x.pool = p
<1> DEFINE targets == PolicyTargets(g, ref)
           way(i) == hops \o <<ref>> \o KeyOf(targets, i)
<1>1. PolicyRoutes(g, rule1, hops, ref) =
          UNION {PoolRoutes(g, rule1, way(i), targets[i].pool) : i \in DOMAIN targets}
  BY DEF PolicyRoutes
<1>2. \A i : /\ \A x \in PoolRoutes(g, rule1, way(i), targets[i].pool) :
                    x.rule = rule1 /\ x.pool = targets[i].pool /\ targets[i].pool \in DOMAIN Pools(g)
             /\ targets[i].pool \in DOMAIN Pools(g) =>
                    \E x \in PoolRoutes(g, rule1, way(i), targets[i].pool) : x.pool = targets[i].pool
  BY PoolRoutesFacts
<1>3. /\ ref \in DOMAIN Policies(g) => targets = Policies(g)[ref].targets
      /\ ref \notin DOMAIN Policies(g) => DOMAIN targets = {}
  BY PolicyTargetsFacts
<1> HIDE DEF targets, way
<1>4. ASSUME NEW x \in PolicyRoutes(g, rule1, hops, ref)
      PROVE  /\ x.rule = rule1 /\ x.pool \in DOMAIN Pools(g)
             /\ ref \in DOMAIN Policies(g) /\ x.pool \in TargetRefs(Policies(g)[ref])
  <2>1. PICK i \in DOMAIN targets : x \in PoolRoutes(g, rule1, way(i), targets[i].pool)
    BY <1>1
  <2>2. x.rule = rule1 /\ x.pool = targets[i].pool /\ x.pool \in DOMAIN Pools(g)
    BY <1>2, <2>1
  <2>3. ref \in DOMAIN Policies(g) /\ targets = Policies(g)[ref].targets
    BY <1>3, <2>1
  <2> QED
    BY <2>1, <2>2, <2>3 DEF TargetRefs
<1>5. ASSUME ref \in DOMAIN Policies(g), NEW p \in TargetRefs(Policies(g)[ref]) \cap DOMAIN Pools(g)
      PROVE  \E x \in PolicyRoutes(g, rule1, hops, ref) : x.pool = p
  <2>1. PICK i \in DOMAIN targets : p = targets[i].pool
    BY <1>3, <1>5 DEF TargetRefs
  <2>2. PICK x \in PoolRoutes(g, rule1, way(i), targets[i].pool) : x.pool = p
    BY <1>2, <2>1
  <2>3. x \in PolicyRoutes(g, rule1, hops, ref)
    BY <1>1, <2>1, <2>2
  <2> QED
    BY <2>2, <2>3
<1> QED
  BY <1>4, <1>5

\* Of a path map: its pools, and those of its policies.
PoolsOfMap(g, ref) ==
    MapRefs(PathMaps(g)[ref], "pool")
    \cup UNION {TargetRefs(Policies(g)[p]) : p \in MapRefs(PathMaps(g)[ref], "policy") \cap DOMAIN Policies(g)}

LEMMA PathMapRoutesFacts ==
    ASSUME NEW g, IdsTellKinds(g), NEW rule1, NEW ref
    PROVE  /\ \A x \in PathMapRoutes(g, rule1, ref) :
                  /\ x.rule = rule1 /\ x.pool \in DOMAIN Pools(g)
                  /\ ref \in DOMAIN PathMaps(g) /\ x.pool \in PoolsOfMap(g, ref)
           /\ ref \in DOMAIN PathMaps(g) =>
                 \A p \in PoolsOfMap(g, ref) \cap DOMAIN Pools(g) :
                     \E x \in PathMapRoutes(g, rule1, ref) : x.pool = p
<1>1. CASE ref \notin DOMAIN PathMaps(g)
  BY <1>1 DEF PathMapRoutes
<1>2. CASE ref \in DOMAIN PathMaps(g)
  <2> DEFINE map == PathMaps(g)[ref]
             default == <<ref, "default">>
             way(i) == <<ref>> \o KeyOf(map.rules, i)
             here(hops, pool, policy) == PoolRoutes(g, rule1, hops, pool) \cup PolicyRoutes(g, rule1, hops, policy)
             pools(pool, policy) ==
                 {pool} \cup UNION {TargetRefs(Policies(g)[p]) : p \in {policy} \cap DOMAIN Policies(g)}
  <2>1. PathMapRoutes(g, rule1, ref) =
            here(default, map.pool, map.policy)
            \cup UNION {here(way(i), map.rules[i].pool, map.rules[i].policy) : i \in DOMAIN map.rules}
    BY <1>2, IdsAreUsable, Zenon DEF PathMapRoutes
  <2>2. \A hops, pool, policy :
            /\ \A x \in here(hops, pool, policy) :
                   x.rule = rule1 /\ x.pool \in DOMAIN Pools(g) /\ x.pool \in pools(pool, policy)
            /\ \A p \in pools(pool, policy) \cap DOMAIN Pools(g) :
                   \E x \in here(hops, pool, policy) : x.pool = p
    <3> SUFFICES ASSUME NEW hops, NEW pool, NEW policy
                 PROVE  /\ \A x \in here(hops, pool, policy) :
                               x.rule = rule1 /\ x.pool \in DOMAIN Pools(g) /\ x.pool \in pools(pool, policy)
                        /\ \A p \in pools(pool, policy) \cap DOMAIN Pools(g) :
                               \E x \in here(hops, pool, policy) : x.pool = p
      BY Zenon
    <3>1. /\ \A x \in PoolRoutes(g, rule1, hops, pool) : x.rule = rule1 /\ x.pool = pool /\ pool \in DOMAIN Pools(g)
          /\ pool \in DOMAIN Pools(g) => \E x \in PoolRoutes(g, rule1, hops, pool) : x.pool = pool
      BY PoolRoutesFacts
    <3>2. /\ \A x \in PolicyRoutes(g, rule1, hops, policy) :
                 /\ x.rule = rule1 /\ x.pool \in DOMAIN Pools(g)
                 /\ policy \in DOMAIN Policies(g) /\ x.pool \in TargetRefs(Policies(g)[policy])
          /\ policy \in DOMAIN Policies(g) =>
                \A p \in TargetRefs(Policies(g)[policy]) \cap DOMAIN Pools(g) :
                    \E x \in PolicyRoutes(g, rule1, hops, policy) : x.pool = p
      BY PolicyRoutesFacts
    <3> QED
      BY <3>1, <3>2
  <2>3. PoolsOfMap(g, ref) =
            pools(map.pool, map.policy)
            \cup UNION {pools(map.rules[i].pool, map.rules[i].policy) : i \in DOMAIN map.rules}
    <3>1. \A p : p \in PoolsOfMap(g, ref) <=>
                    \/ p \in MapRefs(map, "pool")
                    \/ \E q \in MapRefs(map, "policy") : q \in DOMAIN Policies(g) /\ p \in TargetRefs(Policies(g)[q])
      BY DEF PoolsOfMap
    <3>2. \A p, pool, policy : p \in pools(pool, policy) <=>
              p = pool \/ (policy \in DOMAIN Policies(g) /\ p \in TargetRefs(Policies(g)[policy]))
      <4> SUFFICES ASSUME NEW p, NEW pool, NEW policy
                   PROVE  p \in UNION {TargetRefs(Policies(g)[q]) : q \in {policy} \cap DOMAIN Policies(g)}
                          <=> policy \in DOMAIN Policies(g) /\ p \in TargetRefs(Policies(g)[policy])
        OBVIOUS
      <4> QED
        OBVIOUS
    <3>3. \A q : /\ q \in MapRefs(map, "pool") <=> q = map.pool \/ \E i \in DOMAIN map.rules : q = map.rules[i].pool
                 /\ q \in MapRefs(map, "policy") <=> q = map.policy \/ \E i \in DOMAIN map.rules : q = map.rules[i].policy
      BY DEF MapRefs
    <3> DEFINE rest == UNION {pools(map.rules[i].pool, map.rules[i].policy) : i \in DOMAIN map.rules}
    <3>4. \A p : p \in rest <=> \E i \in DOMAIN map.rules : p \in pools(map.rules[i].pool, map.rules[i].policy)
      <4> HIDE DEF pools, map
      <4> QED
        OBVIOUS
    <3> HIDE DEF pools, map, rest
    <3>5. \A p : p \in PoolsOfMap(g, ref) => p \in pools(map.pool, map.policy) \/ p \in rest
      BY <3>1, <3>2, <3>3, <3>4
    <3>6. \A p : p \in pools(map.pool, map.policy) \/ p \in rest => p \in PoolsOfMap(g, ref)
      BY <3>1, <3>2, <3>3, <3>4
    <3> QED
      BY <3>5, <3>6 DEF rest
  <2> HIDE DEF map, default, way, here, pools
  <2>4. ASSUME NEW x \in PathMapRoutes(g, rule1, ref)
        PROVE  x.rule = rule1 /\ x.pool \in DOMAIN Pools(g) /\ x.pool \in PoolsOfMap(g, ref)
    BY <2>1, <2>2, <2>3
  <2>5. ASSUME NEW p \in PoolsOfMap(g, ref) \cap DOMAIN Pools(g)
        PROVE  \E x \in PathMapRoutes(g, rule1, ref) : x.pool = p
    BY <2>1, <2>2, <2>3
  <2> QED
    BY <1>2, <2>4, <2>5
<1> QED
  BY <1>1, <1>2

LEMMA RuleRoutesFacts ==
    ASSUME NEW g, IdsTellKinds(g), NEW id \in DOMAIN TopRules(g)
    PROVE  /\ \A x \in RuleRoutes(g, id) :
                  /\ x.rule = id /\ x.pool \in PoolsOf(g, id) \cap DOMAIN Pools(g)
                  /\ ~RedirectOnly(TopRules(g)[id])
           /\ ~RedirectOnly(TopRules(g)[id]) =>
                 \A p \in PoolsOf(g, id) \cap DOMAIN Pools(g) : \E x \in RuleRoutes(g, id) : x.pool = p
<1> DEFINE top == TopRules(g)[id]
           direct == PoolRoutes(g, id, <<"direct">>, top.pool)
           byPolicy == PolicyRoutes(g, id, <<>>, top.policy)
           byMap == PathMapRoutes(g, id, top.map)
<1>1. RuleRoutes(g, id) = IF RedirectOnly(top) THEN {} ELSE direct \cup byPolicy \cup byMap
  BY DEF RuleRoutes
<1>2. /\ \A x \in direct : x.rule = id /\ x.pool = top.pool /\ top.pool \in DOMAIN Pools(g)
      /\ top.pool \in DOMAIN Pools(g) => \E x \in direct : x.pool = top.pool
  BY PoolRoutesFacts
<1>3. /\ \A x \in byPolicy :
             /\ x.rule = id /\ x.pool \in DOMAIN Pools(g)
             /\ top.policy \in DOMAIN Policies(g) /\ x.pool \in TargetRefs(Policies(g)[top.policy])
      /\ top.policy \in DOMAIN Policies(g) =>
            \A p \in TargetRefs(Policies(g)[top.policy]) \cap DOMAIN Pools(g) : \E x \in byPolicy : x.pool = p
  BY PolicyRoutesFacts
<1>4. /\ \A x \in byMap :
             /\ x.rule = id /\ x.pool \in DOMAIN Pools(g)
             /\ top.map \in DOMAIN PathMaps(g) /\ x.pool \in PoolsOfMap(g, top.map)
      /\ top.map \in DOMAIN PathMaps(g) =>
            \A p \in PoolsOfMap(g, top.map) \cap DOMAIN Pools(g) : \E x \in byMap : x.pool = p
  BY PathMapRoutesFacts
<1>5. \A p : p \in PoolsOf(g, id) <=>
                \/ p = top.pool
                \/ top.policy \in DOMAIN Policies(g) /\ p \in TargetRefs(Policies(g)[top.policy])
                \/ top.map \in DOMAIN PathMaps(g) /\ p \in PoolsOfMap(g, top.map)
  <2>1. \A p : p \in PoolsOf(g, id) <=>
                  \/ p = top.pool \/ p \in FromMap(g, id, "pool")
                  \/ \E ref \in PoliciesOf(g, id) : ref \in DOMAIN Policies(g) /\ p \in TargetRefs(Policies(g)[ref])
    BY DEF PoolsOf
  <2>2. \A p : p \in PoolsOfMap(g, top.map) <=>
                  \/ p \in MapRefs(PathMaps(g)[top.map], "pool")
                  \/ \E ref \in MapRefs(PathMaps(g)[top.map], "policy") :
                         ref \in DOMAIN Policies(g) /\ p \in TargetRefs(Policies(g)[ref])
    BY DEF PoolsOfMap
  <2>3. \A p : p \in PoliciesOf(g, id) <=> p = top.policy \/ p \in FromMap(g, id, "policy")
    BY DEF PoliciesOf
  <2>4. \A field : FromMap(g, id, field) =
                       IF top.map \in DOMAIN PathMaps(g) THEN MapRefs(PathMaps(g)[top.map], field) ELSE {}
    BY DEF FromMap, MapOf
  <2> HIDE DEF top
  <2> QED
    BY <2>1, <2>2, <2>3, <2>4
<1> HIDE DEF top, direct, byPolicy, byMap
<1>6. ASSUME NEW x \in RuleRoutes(g, id)
      PROVE  x.rule = id /\ x.pool \in PoolsOf(g, id) \cap DOMAIN Pools(g) /\ ~RedirectOnly(top)
  BY <1>1, <1>2, <1>3, <1>4, <1>5
<1>7. ASSUME ~RedirectOnly(top), NEW p \in PoolsOf(g, id) \cap DOMAIN Pools(g)
      PROVE  \E x \in RuleRoutes(g, id) : x.pool = p
  BY <1>1, <1>2, <1>3, <1>4, <1>5, <1>7
<1> QED
  BY <1>6, <1>7 DEF top

-----------------------------------------------------------------------------
(* And what leads to nothing is noted *)

LEMMA PoolNotesFacts ==
    ASSUME NEW g, NEW ref, NEW parent, Usable(ref), ref \notin DOMAIN Pools(g)
    PROVE  \E note \in PoolNotes(g, ref, parent) : note.object = ref
BY DEF PoolNotes, Note, Usable

LEMMA PolicyNotesFacts ==
    ASSUME NEW g, IdsTellKinds(g), NEW rule1, NEW ref, NEW y, Usable(y),
           \/ y = ref /\ ref \notin DOMAIN Policies(g)
           \/ /\ ref \in DOMAIN Policies(g) /\ y \in TargetRefs(Policies(g)[ref])
              /\ y \notin DOMAIN Pools(g)
    PROVE  \E note \in PolicyNotes(g, rule1, ref) : note.object = y
<1> DEFINE targets == PolicyTargets(g, ref)
           notes(i) == IF targets[i].pool = None THEN {Note("malformed_object", None, ref)}
                       ELSE PoolNotes(g, targets[i].pool, ref)
<1>1. PolicyNotes(g, rule1, ref) =
          (UNION {notes(i) : i \in DOMAIN targets})
          \cup (IF Usable(ref) /\ ref \notin DOMAIN Policies(g)
                THEN {Note("unresolved_reference", ref, rule1)} ELSE {})
  BY Zenon DEF PolicyNotes
<1>2. CASE y = ref /\ ref \notin DOMAIN Policies(g)
  <2>1. Note("unresolved_reference", ref, rule1) \in PolicyNotes(g, rule1, ref)
    BY <1>1, <1>2
  <2>2. Note("unresolved_reference", ref, rule1).object = ref
    BY DEF Note
  <2> QED
    BY <1>2, <2>1, <2>2
<1>3. CASE ref \in DOMAIN Policies(g) /\ y \in TargetRefs(Policies(g)[ref]) /\ y \notin DOMAIN Pools(g)
  <2>1. targets = Policies(g)[ref].targets
    BY <1>3, PolicyTargetsFacts
  <2> HIDE DEF targets
  <2>2. PICK i \in DOMAIN targets : y = targets[i].pool
    BY <1>3, <2>1 DEF TargetRefs
  <2>3. notes(i) = PoolNotes(g, y, ref)
    BY <2>2 DEF Usable
  <2>4. PICK note \in PoolNotes(g, y, ref) : note.object = y
    BY <1>3, PoolNotesFacts
  <2> HIDE DEF notes
  <2>5. note \in PolicyNotes(g, rule1, ref)
    BY <1>1, <2>2, <2>3, <2>4
  <2> QED
    BY <2>4, <2>5
<1> QED
  BY <1>2, <1>3

LEMMA PathMapNotesFacts ==
    ASSUME NEW g, IdsTellKinds(g), NEW rule1, NEW ref, NEW y, Usable(y),
           \/ y = ref /\ ref \notin DOMAIN PathMaps(g)
           \/ /\ ref \in DOMAIN PathMaps(g)
              /\ \/ y \in MapRefs(PathMaps(g)[ref], "pool") /\ y \notin DOMAIN Pools(g)
                 \/ \E policy \in MapRefs(PathMaps(g)[ref], "policy") :
                        \/ y = policy /\ policy \notin DOMAIN Policies(g)
                        \/ /\ policy \in DOMAIN Policies(g) /\ y \in TargetRefs(Policies(g)[policy])
                           /\ y \notin DOMAIN Pools(g)
    PROVE  \E note \in PathMapNotes(g, rule1, ref) : note.object = y
<1>1. CASE y = ref /\ ref \notin DOMAIN PathMaps(g)
  BY <1>1 DEF PathMapNotes, Note
<1>2. CASE ref \in DOMAIN PathMaps(g)
  <2> DEFINE map == PathMaps(g)[ref]
             parent == IF map.pool = Broken THEN rule1 ELSE ref
             notes(i) == PoolNotes(g, map.rules[i].pool, ref) \cup PolicyNotes(g, rule1, map.rules[i].policy)
  <2>1. PathMapNotes(g, rule1, ref) =
            PoolNotes(g, map.pool, parent) \cup PolicyNotes(g, rule1, map.policy)
            \cup UNION {notes(i) : i \in DOMAIN map.rules}
    BY <1>2, Zenon DEF PathMapNotes
  <2>2. \A q : /\ q \in MapRefs(map, "pool") <=> q = map.pool \/ \E i \in DOMAIN map.rules : q = map.rules[i].pool
               /\ q \in MapRefs(map, "policy") <=> q = map.policy \/ \E i \in DOMAIN map.rules : q = map.rules[i].policy
    BY DEF MapRefs
  <2>3. CASE y \in MapRefs(map, "pool") /\ y \notin DOMAIN Pools(g)
    <3>1. \A p : \E note \in PoolNotes(g, y, p) : note.object = y
      BY <2>3, PoolNotesFacts
    <3> HIDE DEF map, parent
    <3> QED
      BY <2>1, <2>2, <2>3, <3>1
  <2>4. ASSUME NEW policy \in MapRefs(map, "policy"),
               \/ y = policy /\ policy \notin DOMAIN Policies(g)
               \/ /\ policy \in DOMAIN Policies(g) /\ y \in TargetRefs(Policies(g)[policy])
                  /\ y \notin DOMAIN Pools(g)
        PROVE  \E note \in PathMapNotes(g, rule1, ref) : note.object = y
    <3>1. PICK note \in PolicyNotes(g, rule1, policy) : note.object = y
      BY <2>4, PolicyNotesFacts
    <3> HIDE DEF map, parent
    <3>2. note \in PathMapNotes(g, rule1, ref)
      BY <2>1, <2>2, <2>4, <3>1
    <3> QED
      BY <3>1, <3>2
  <2> QED
    BY <1>2, <2>3, <2>4
<1> QED
  BY <1>1, <1>2

\* Every reference of a rule, by whatever way it comes to it, is to something that is there
\* or in a note of the rule.
LEMMA RuleNotesFacts ==
    ASSUME NEW g, IdsTellKinds(g), NEW id \in DOMAIN TopRules(g), NEW y \in From(g, id),
           y \notin {None, Broken, id} \cup DOMAIN Pools(g) \cup DOMAIN PathMaps(g) \cup DOMAIN Policies(g)
    PROVE  \E note \in RuleNotes(g, id) : note.object = y
<1> DEFINE top == TopRules(g)[id]
<1>1. Usable(y) /\ y \notin DOMAIN Pools(g) \cup DOMAIN PathMaps(g) \cup DOMAIN Policies(g)
  BY DEF Usable
<1>2. /\ PoolNotes(g, top.pool, id) \subseteq RuleNotes(g, id)
      /\ PolicyNotes(g, id, top.policy) \subseteq RuleNotes(g, id)
      /\ Usable(top.map) => PathMapNotes(g, id, top.map) \subseteq RuleNotes(g, id)
  BY DEF RuleNotes
<1>3. y \in {top.map} \cup PoliciesOf(g, id) \cup PoolsOf(g, id)
  BY DEF From, MapOf
<1>4. CASE y = top.map
  BY <1>1, <1>2, <1>4, PathMapNotesFacts
<1>5. CASE y = top.policy
  BY <1>1, <1>2, <1>5, PolicyNotesFacts
<1>6. CASE y = top.pool
  BY <1>1, <1>2, <1>6, PoolNotesFacts
<1>7. ASSUME NEW field, NEW x \in FromMap(g, id, field)
      PROVE  top.map \in DOMAIN PathMaps(g) /\ x \in MapRefs(PathMaps(g)[top.map], field) /\ Usable(top.map)
  BY <1>7, IdsAreUsable DEF FromMap, MapOf
<1>8. CASE y \in FromMap(g, id, "pool")
  BY <1>1, <1>2, <1>7, <1>8, PathMapNotesFacts
<1>9. CASE y \in FromMap(g, id, "policy")
  BY <1>1, <1>2, <1>7, <1>9, PathMapNotesFacts
<1>10. ASSUME NEW ref \in PoliciesOf(g, id), ref \in DOMAIN Policies(g), y \in TargetRefs(Policies(g)[ref])
       PROVE  \E note \in RuleNotes(g, id) : note.object = y
  <2>1. CASE ref = top.policy
    BY <1>1, <1>2, <1>10, <2>1, PolicyNotesFacts
  <2>2. CASE ref \in FromMap(g, id, "policy")
    BY <1>1, <1>2, <1>7, <1>10, <2>2, PathMapNotesFacts
  <2> QED
    BY <2>1, <2>2 DEF PoliciesOf
<1> QED
  BY <1>3, <1>4, <1>5, <1>6, <1>8, <1>9, <1>10 DEF PoliciesOf, PoolsOf

LEMMA PoolsLedTo ==
    ASSUME NEW g, IdsTellKinds(g)
    PROVE  \A p : p \in EmptyPoolsLedTo(g) <=>
                     /\ p \in DOMAIN Pools(g) /\ Pools(g)[p].targets = 0
                     /\ \E x \in Routes(g) : x.pool = p
<1> DEFINE active == {id \in DOMAIN TopRules(g) : ~RedirectOnly(TopRules(g)[id])}
<1>1. \A p : p \in EmptyPoolsLedTo(g) <=>
                p \in DOMAIN Pools(g) /\ p \in Reached(g, active) /\ Pools(g)[p].targets = 0
  BY DEF EmptyPoolsLedTo
<1>2. /\ \A y \in Reached(g, active) : \E id \in active : y \in From(g, id)
      /\ \A id \in active : PoolsOf(g, id) \subseteq Reached(g, active)
  <2>1. active \in SUBSET DOMAIN TopRules(g)
    OBVIOUS
  <2> HIDE DEF active
  <2> QED
    BY <2>1, ReachedFacts
<1>3. ASSUME NEW p \in DOMAIN Pools(g), NEW x \in Routes(g), x.pool = p PROVE p \in Reached(g, active)
  <2>1. PICK id \in DOMAIN TopRules(g) : x \in RuleRoutes(g, id)
    BY DEF Routes
  <2>2. p \in PoolsOf(g, id) /\ id \in active
    BY <1>3, <2>1, RuleRoutesFacts
  <2> QED
    BY <1>2, <2>2
<1>4. ASSUME NEW p \in DOMAIN Pools(g), p \in Reached(g, active) PROVE \E x \in Routes(g) : x.pool = p
  <2>1. PICK id \in active : p \in From(g, id)
    BY <1>2, <1>4
  <2>2. p \in PoolIds(g) /\ Usable(p)
    BY IdsAreUsable DEF PoolIds
  <2>3. p \in PoolsOf(g, id)
    BY <2>1, <2>2, KindsOfRefs DEF From, IdsTellKinds, Usable
  <2>4. PICK x \in RuleRoutes(g, id) : x.pool = p
    BY <2>3, RuleRoutesFacts
  <2>5. x \in Routes(g)
    BY <2>4 DEF Routes
  <2> QED
    BY <2>4, <2>5
<1> QED
  BY <1>1, <1>3, <1>4, Zenon

LEMMA DanglingIsNoted ==
    ASSUME NEW g, IdsTellKinds(g), NEW pool, NEW route \in Routes(g), route.pool = pool
    PROVE  LeadNowhere(g, route.rule) \subseteq {note.object : note \in SignalsNotChecked(g, pool)}
<1>1. PICK id \in DOMAIN TopRules(g) : route \in RuleRoutes(g, id)
  BY DEF Routes
<1>2. route.rule = id
  BY <1>1, RuleRoutesFacts
<1>3. ASSUME NEW y \in LeadNowhere(g, id)
      PROVE  \E note \in SignalsNotChecked(g, pool) : note.object = y
  <2>1. y \in Reached(g, {id})
        /\ y \notin {None, Broken, id} \cup DOMAIN Pools(g) \cup DOMAIN PathMaps(g) \cup DOMAIN Policies(g)
    BY DEF LeadNowhere
  <2>2. y \in From(g, id)
    BY <2>1, ReachedFacts
  <2>3. PICK note \in RuleNotes(g, id) : note.object = y
    BY <2>1, <2>2, RuleNotesFacts
  <2>4. note \in SignalsNotChecked(g, pool)
    BY <1>2, <2>3 DEF SignalsNotChecked
  <2> QED
    BY <2>3, <2>4
<1> QED
  BY <1>2, <1>3

LEMMA GatewayFindingsFacts ==
    ASSUME NEW r, NEW g, IdsTellKinds(g)
    PROVE  /\ {f.detail.pool : f \in GatewayFindings(r, g)} = EmptyPoolsLedTo(g)
           /\ \A f \in GatewayFindings(r, g) : \A route \in f.detail.routes :
                  LeadNowhere(g, route.rule) \subseteq {note.object : note \in f.detail.notChecked}
<1> DEFINE reported == {p \in DOMAIN Pools(g) : (\E x \in Routes(g) : x.pool = p) /\ Pools(g)[p].targets = 0}
           routes(pool) == {x \in Routes(g) : x.pool = pool}
           detail(pool) == [pool |-> pool, routes |-> routes(pool), notChecked |-> SignalsNotChecked(g, pool)]
           finding(pool) == [resource |-> r, risk |-> "medium", confidence |-> "high", detail |-> detail(pool)]
<1>1. GatewayFindings(r, g) = {finding(pool) : pool \in reported}
  BY DEF GatewayFindings
<1>2. \A pool : /\ finding(pool).detail.pool = pool /\ finding(pool).detail.routes = routes(pool)
                /\ finding(pool).detail.notChecked = SignalsNotChecked(g, pool)
  OBVIOUS
<1>3. reported = EmptyPoolsLedTo(g)
  BY PoolsLedTo
<1>4. \A pool : \A route \in routes(pool) :
          LeadNowhere(g, route.rule) \subseteq {note.object : note \in SignalsNotChecked(g, pool)}
  BY DanglingIsNoted
<1> HIDE DEF finding, reported, routes
<1>5. {f.detail.pool : f \in GatewayFindings(r, g)} = reported
  BY <1>1, <1>2
<1>6. ASSUME NEW f \in GatewayFindings(r, g), NEW route \in f.detail.routes
      PROVE  LeadNowhere(g, route.rule) \subseteq {note.object : note \in f.detail.notChecked}
  <2>1. PICK pool \in reported : f = finding(pool)
    BY <1>1
  <2> QED
    BY <1>2, <1>4, <1>6, <2>1
<1> QED
  BY <1>3, <1>5, <1>6

\* Of a gateway exactly the pools without targets are reported that a path of references leads
\* to from some rule that is not a mere redirect, however the gateway is configured; and what
\* else those rules lead to and is not there is noted.
THEOREM RoutesAreReported == Spec => []EmptyRoutesAreReported
<1>1. TypeOK /\ AllDue => EmptyRoutesAreReported
  <2> SUFFICES ASSUME TypeOK, AllDue, rule = "app_gateway", NEW r \in inspected
               PROVE  LET g == subscription[r]
                          reported == {f \in findings : f.resource = r}
                      IN  /\ InScope(r) => {f.detail.pool : f \in reported} = EmptyPoolsLedTo(g)
                          /\ \A f \in reported : \A route \in f.detail.routes :
                                LeadNowhere(g, route.rule)
                                    \subseteq {note.object : note \in f.detail.notChecked}
    BY Zenon DEF EmptyRoutesAreReported
  <2> DEFINE g == subscription[r]
             reported == {f \in findings : f.resource = r}
  <2>1. r \in Resources /\ Complete(r)
    BY DEF TypeOK, AllDue
  <2>2. IdsTellKinds(g)
    BY <2>1, ViewsAssumption, Zenon DEF AllDue
  <2>3. reported = IF InScope(r) THEN GatewayFindings(r, g) ELSE {}
    BY <2>1 DEF Complete
  <2> HIDE DEF g, reported
  <2>4. /\ {f.detail.pool : f \in GatewayFindings(r, g)} = EmptyPoolsLedTo(g)
        /\ \A f \in GatewayFindings(r, g) : \A route \in f.detail.routes :
               LeadNowhere(g, route.rule) \subseteq {note.object : note \in f.detail.notChecked}
    BY <2>2, GatewayFindingsFacts, Zenon
  <2>5. InScope(r) => {f.detail.pool : f \in reported} = EmptyPoolsLedTo(g)
    BY <2>3, <2>4
  <2>6. \A f \in reported : \A route \in f.detail.routes :
            LeadNowhere(g, route.rule) \subseteq {note.object : note \in f.detail.notChecked}
    BY <2>3, <2>4, Zenon
  <2> QED
    BY <2>5, <2>6 DEF g, reported
<1> QED
  BY <1>1, EveryFindingIsDue, PTL

-----------------------------------------------------------------------------
(* Days and ticks *)

\* A day holds its ticks.
LEMMA DayFacts ==
    ASSUME NEW t \in Int
    PROVE  Day(t) \in Int /\ TicksPerDay * Day(t) <= t /\ t < TicksPerDay * Day(t) + TicksPerDay
<1>1. TicksPerDay \in Nat \ {0}
  BY TimesAssumption
<1> QED
  BY <1>1 DEF Day

LEMMA Products ==
    ASSUME NEW n \in Nat \ {0}, NEW a \in Int, NEW b \in Int
    PROVE  /\ n * a \in Int /\ n * b \in Int
           /\ a <= b => n * a <= n * b
           /\ n * (a + 1) = n * a + n
           /\ n * a < n * b => a < b
OBVIOUS

\* Later ticks are of later days.
LEMMA DayMonotone ==
    ASSUME NEW s \in Int, NEW t \in Int, s <= t
    PROVE  Day(s) <= Day(t)
<1>1. TicksPerDay \in Nat \ {0}
  BY TimesAssumption
<1>2. /\ Day(s) \in Int /\ TicksPerDay * Day(s) <= s
      /\ Day(t) \in Int /\ t < TicksPerDay * Day(t) + TicksPerDay
  BY DayFacts
<1>3. TicksPerDay * (Day(t) + 1) = TicksPerDay * Day(t) + TicksPerDay
  BY <1>1, <1>2, Products
<1>4. Day(t) + 1 \in Int /\ TicksPerDay * Day(s) \in Int /\ TicksPerDay * (Day(t) + 1) \in Int
  BY <1>1, <1>2, Products
<1>5. TicksPerDay * Day(s) < TicksPerDay * (Day(t) + 1)
  BY <1>1, <1>2, <1>3, <1>4
<1>6. Day(s) < Day(t) + 1
  BY <1>1, <1>2, <1>4, <1>5, Products
<1> QED
  BY <1>2, <1>6

\* The ticks before the midnight a day begins with are of earlier days.
LEMMA DayBefore ==
    ASSUME NEW t \in Int, NEW d \in Int, t < TicksPerDay * d
    PROVE  Day(t) <= d - 1
<1>1. TicksPerDay \in Nat \ {0}
  BY TimesAssumption
<1>2. Day(t) \in Int /\ TicksPerDay * Day(t) <= t
  BY DayFacts
<1>3. TicksPerDay * Day(t) \in Int /\ TicksPerDay * d \in Int
  BY <1>1, <1>2, Products
<1>4. TicksPerDay * Day(t) < TicksPerDay * d
  BY <1>2, <1>3
<1>5. Day(t) < d
  BY <1>1, <1>2, <1>4, Products
<1> QED
  BY <1>2, <1>5

\* DaysUpToNow counts the days from the one the window begins in to that of the last tick.
LEMMA DaysUpToNowFacts ==
    ASSUME NEW name, WindowStart(name) \in Int
    PROVE  DaysUpToNow(name) = Day(Now - 1) - Day(WindowStart(name)) + 1
<1>1. TicksPerDay \in Nat \ {0} /\ Now \in Int
  BY TimesAssumption
<1> DEFINE d == Day(WindowStart(name))
           e == Day(Now - 1)
           n == Now - TicksPerDay * d + TicksPerDay - 1
<1>2. d \in Int /\ e \in Int /\ Now - 1 \in Int
  BY <1>1, DayFacts
<1>3. TicksPerDay * e <= Now - 1 /\ Now - 1 < TicksPerDay * e + TicksPerDay
  BY <1>2, DayFacts
<1>4. TicksPerDay * (e - d + 1) = TicksPerDay * e - TicksPerDay * d + TicksPerDay
  <2> HIDE DEF d, e
  <2> QED
    BY <1>1, <1>2
<1>5. DaysUpToNow(name) = n \div TicksPerDay
  BY DEF DaysUpToNow
<1>6. n \in Int /\ e - d + 1 \in Int /\ TicksPerDay * e \in Int /\ TicksPerDay * d \in Int
  <2> HIDE DEF d, e
  <2> QED
    BY <1>1, <1>2, Products
<1>7. TicksPerDay * (e - d + 1) <= n /\ n < TicksPerDay * (e - d + 1) + TicksPerDay
  <2> HIDE DEF d, e
  <2> QED
    BY <1>1, <1>3, <1>4, <1>6
<1>8. /\ Day(n) \in Int
      /\ TicksPerDay * Day(n) <= n /\ n < TicksPerDay * Day(n) + TicksPerDay
  BY <1>6, DayFacts
<1> HIDE DEF d, e, n
<1> DEFINE q == e - d + 1
<1>9. q \in Int /\ TicksPerDay * q \in Int /\ TicksPerDay * Day(n) \in Int
      /\ TicksPerDay * (q + 1) = TicksPerDay * q + TicksPerDay
      /\ TicksPerDay * (Day(n) + 1) = TicksPerDay * Day(n) + TicksPerDay
  BY <1>1, <1>6, <1>8, Products
<1>10. TicksPerDay * q <= n /\ n < TicksPerDay * q + TicksPerDay
  BY <1>7
<1> HIDE DEF q
<1>11. TicksPerDay * q < TicksPerDay * (Day(n) + 1) /\ TicksPerDay * Day(n) < TicksPerDay * (q + 1)
  BY <1>1, <1>6, <1>8, <1>9, <1>10
<1>12. q < Day(n) + 1 /\ Day(n) < q + 1
  BY <1>1, <1>8, <1>9, <1>11, Products
<1>13. q = Day(n)
  BY <1>8, <1>9, <1>12
<1> QED
  BY <1>5, <1>13 DEF Day, q, d, e

\* As many days as lie between the first and the last.
LEMMA DaysCounted ==
    ASSUME NEW times, NEW c \in Int, NEW d \in Int, c <= d + 1,
           \A t \in times : Day(t) \in Int /\ c <= Day(t) /\ Day(t) <= d
    PROVE  /\ IsFiniteSet({Day(t) : t \in times})
           /\ Cardinality({Day(t) : t \in times}) \in Nat
           /\ Cardinality({Day(t) : t \in times}) <= d - c + 1
<1> DEFINE days == {Day(t) : t \in times}
<1>1. days \subseteq c .. d
  OBVIOUS
<1>2. IsFiniteSet(c .. d) /\ Cardinality(c .. d) = IF c > d THEN 0 ELSE d - c + 1
  BY FS_Interval
<1> HIDE DEF days
<1>3. IsFiniteSet(days) /\ Cardinality(days) <= Cardinality(c .. d)
  BY <1>1, <1>2, FS_Subset
<1>4. Cardinality(days) \in Nat
  BY <1>3, FS_CardinalityType
<1>5. Cardinality(days) <= d - c + 1
  BY <1>2, <1>3, <1>4
<1> QED
  BY <1>3, <1>4, <1>5 DEF days

\* The rules that go by metrics, and how many days their windows have.
LEMMA WindowFacts ==
    ASSUME NEW name \in {"vnet_gateway", "ai_search", "aml_compute", "ml_endpoint", "openai", "registry"}
    PROVE  /\ EffectiveIdleDays(name) \in Nat /\ TicksPerDay * EffectiveIdleDays(name) \in Nat
           /\ WindowStart(name) \in Int /\ Now \in Int /\ WindowStart(name) <= Now
           /\ WindowStart(name) = Now - TicksPerDay * EffectiveIdleDays(name)
<1>1. IdleDays[name] \in Nat /\ MaxIdleDays \in Nat /\ TicksPerDay \in Nat /\ Now \in Nat
  BY TimesAssumption
<1>2. EffectiveIdleDays(name) \in Nat
  BY <1>1 DEF EffectiveIdleDays
<1>3. TicksPerDay * EffectiveIdleDays(name) \in Nat
  BY <1>1, <1>2
<1> QED
  BY <1>1, <1>2, <1>3 DEF WindowStart

-----------------------------------------------------------------------------
(* Answers about a metric *)

\* What a point may be.
LEMMA AnsweredFacts ==
    ASSUME NEW name, NEW told \in Answered(name), told # None,
           name \notin {"sql_database", "app_service"} \/ told # Absent, NEW p \in told
    PROVE  /\ p.at \in Int \cup {None} /\ p.scoped \in BOOLEAN
           /\ p.value \in Nat \cup {None, Junk}
           /\ p.value \in Nat \cup {None} \/ name \in {"ai_search", "aml_compute"}
           /\ p.scoped = TRUE \/ name = "aml_compute"
<1> DEFINE values == Nat \cup {None} \cup (IF name \in {"ai_search", "aml_compute"} THEN {Junk} ELSE {})
           series == IF name = "aml_compute" THEN BOOLEAN ELSE {TRUE}
<1>1. p \in [at : Int \cup {None}, value : values, scoped : series]
  BY DEF Answered
<1>2. p.at \in Int \cup {None} /\ p.value \in values /\ p.scoped \in series
  BY <1>1
<1> QED
  BY <1>2

\* A metric that is ZERO covers what it must, and the points it goes by are zeros.
LEMMA ZeroFacts ==
    ASSUME NEW points, NEW covered, Outcome(points, covered) = "ZERO"
    PROVE  covered /\ \A p \in points : ~(p.value > 0)
BY DEF Outcome

LEMMA ZeroUsed ==
    ASSUME NEW points, NEW times, NEW p \in points, p.at \in times, p.value \in Nat \cup {None, Junk},
           \A q \in Used(points, times) : ~(q.value > 0)
    PROVE  p.value \in {0, None, Junk}
<1>1. p.value \in {None, Junk} \/ p \in Used(points, times)
  BY DEF Used, Numbers
<1> QED
  BY <1>1

-----------------------------------------------------------------------------
(* Metrics counted by the day *)

\* What the property calls known, and when.
Window(name) ==
    WindowStart(name) .. (IF name = "aml_compute" THEN TicksPerDay * Day(Now) ELSE Now) - 1
Known(name, told) ==
    {t \in Window(name) : \E p \in told : p.at = t /\ p.scoped /\ p.value \notin {None, Junk}}

\* The points that count are those of known ticks.
LEMMA KnownDays ==
    ASSUME NEW name, NEW told, NEW used, used = Used({p \in told : p.scoped}, Window(name))
    PROVE  Days(used) = {Day(t) : t \in Known(name, told)}
<1>1. \A p : p \in used <=> p \in told /\ p.scoped /\ p.value \notin {None, Junk} /\ p.at \in Window(name)
  BY DEF Used, Numbers
<1>2. \A t : t \in Known(name, told) <=>
                 t \in Window(name) /\ \E p \in told : p.at = t /\ p.scoped /\ p.value \notin {None, Junk}
  BY DEF Known
<1>3. \A d : d \in Days(used) <=> \E p \in used : d = Day(p.at)
  BY DEF Days
<1> QED
  BY <1>1, <1>2, <1>3

\* How many days a window has, up to the tick before Now or before the last midnight.
DaysExpected(name) ==
    IF name = "aml_compute" THEN Day(Now) - Day(WindowStart(name)) ELSE DaysUpToNow(name)

LEMMA DaysOfWindow ==
    ASSUME NEW name \in {"vnet_gateway", "ai_search", "aml_compute"}, Window(name) # {}
    PROVE  /\ DaysExpected(name) \in Int
           /\ IsFiniteSet({Day(t) : t \in Window(name)})
           /\ Cardinality({Day(t) : t \in Window(name)}) \in Nat
           /\ Cardinality({Day(t) : t \in Window(name)}) <= DaysExpected(name)
<1> DEFINE w == WindowStart(name)
           last == IF name = "aml_compute" THEN Day(Now) - 1 ELSE Day(Now - 1)
           end == (IF name = "aml_compute" THEN TicksPerDay * Day(Now) ELSE Now) - 1
<1>1. w \in Int /\ Now \in Int /\ Now - 1 \in Int /\ w <= Now /\ TicksPerDay \in Nat
  BY WindowFacts, TimesAssumption
<1>2. Day(w) \in Int /\ Day(Now) \in Int /\ Day(Now - 1) \in Int
  BY <1>1, DayFacts
<1>3. end \in Int /\ Window(name) = w .. end
  BY <1>1, <1>2 DEF Window
<1>4. ASSUME NEW t \in w .. end PROVE Day(t) \in Int /\ Day(w) <= Day(t) /\ Day(t) <= last
  <2>1. t \in Int /\ w <= t /\ t <= end
    BY <1>1, <1>3
  <2>2. Day(t) \in Int /\ Day(w) <= Day(t)
    BY <1>1, <2>1, DayFacts, DayMonotone
  <2>3. CASE name = "aml_compute"
    <3>1. TicksPerDay * Day(Now) \in Int
      BY <1>1, <1>2
    <3>2. t < TicksPerDay * Day(Now)
      BY <2>1, <2>3, <3>1
    <3> QED
      BY <1>2, <2>1, <2>2, <2>3, <3>2, DayBefore
  <2>4. CASE name # "aml_compute"
    <3>1. t <= Now - 1
      BY <2>1, <2>4
    <3> QED
      BY <1>1, <2>1, <2>2, <2>4, <3>1, DayMonotone
  <2> QED
    BY <2>3, <2>4
<1>5. DaysExpected(name) = last - Day(w) + 1 /\ last \in Int
  BY <1>1, <1>2, DaysUpToNowFacts DEF DaysExpected
<1>6. Day(w) <= last + 1
  <2>1. PICK t : t \in w .. end
    BY <1>3
  <2>2. Day(t) \in Int /\ Day(w) <= Day(t) /\ Day(t) <= last
    BY <1>4, <2>1
  <2> HIDE DEF last
  <2> QED
    BY <1>2, <1>5, <2>2
<1> HIDE DEF w, last, end
<1>7. /\ IsFiniteSet({Day(t) : t \in w .. end})
      /\ Cardinality({Day(t) : t \in w .. end}) \in Nat
      /\ Cardinality({Day(t) : t \in w .. end}) <= last - Day(w) + 1
  BY <1>2, <1>4, <1>5, <1>6, DaysCounted
<1> QED
  BY <1>2, <1>3, <1>5, <1>7

\* A metric counted by the day that is ZERO: no activity in the window, on enough of its days.
LEMMA DailyMetricIsProof ==
    ASSUME NEW name \in {"vnet_gateway", "ai_search", "aml_compute"}, NEW percent \in Nat \ {0},
           NEW told \in Answered(name), told # None,
           \A p \in told : p.scoped => p.value \in Nat \cup {None},
           NEW used, used = Used({p \in told : p.scoped}, Window(name)),
           Covers(Days(used), percent, DaysExpected(name)), \A p \in used : ~(p.value > 0)
    PROVE  /\ \A p \in told : p.at \in Window(name) /\ p.scoped => p.value \in {0, None}
           /\ 100 * Cardinality({Day(t) : t \in Known(name, told)})
                  >= percent * Cardinality({Day(t) : t \in Window(name)})
<1>2. ASSUME NEW p \in told, p.at \in Window(name), p.scoped PROVE p.value \in {0, None}
  <2>1. p.value \in Nat \cup {None}
    BY <1>2
  <2>2. p \in {q \in told : q.scoped}
    BY <1>2
  <2>3. p.value \in {0, None, Junk}
    BY <1>2, <2>1, <2>2, ZeroUsed
  <2> QED
    BY <2>1, <2>3, MarksAssumption
<1>3. Days(used) # {} /\ 100 * Cardinality(Days(used)) >= percent * DaysExpected(name)
  BY DEF Covers
<1>4. Window(name) # {}
  BY <1>3 DEF Days, Used
<1> DEFINE days == {Day(t) : t \in Window(name)}
           known == {Day(t) : t \in Known(name, told)}
<1>5. DaysExpected(name) \in Int /\ Cardinality(days) \in Nat /\ Cardinality(days) <= DaysExpected(name)
  BY <1>4, DaysOfWindow
<1>6. IsFiniteSet(days)
  BY <1>4, DaysOfWindow
<1>7. known \subseteq days
  BY DEF Known
<1>8. Days(used) = known
  BY KnownDays
<1> HIDE DEF days, known
<1>9. Cardinality(known) \in Nat
  BY <1>6, <1>7, FS_Subset, FS_CardinalityType
<1>10. /\ percent * Cardinality(days) <= percent * DaysExpected(name)
       /\ percent * Cardinality(days) \in Int /\ percent * DaysExpected(name) \in Int
  BY <1>5, Products
<1>11. 100 * Cardinality(known) >= percent * Cardinality(days)
  BY <1>3, <1>8, <1>9, <1>10
<1> QED
  BY <1>2, <1>11 DEF days, known

LEMMA VnetMetricIsProof ==
    ASSUME NEW told \in Answered("vnet_gateway"), VnetMetric(told) = "ZERO"
    PROVE  /\ \A p \in told : p.at \in Window("vnet_gateway") /\ p.scoped => p.value \in {0, None}
           /\ 100 * Cardinality({Day(t) : t \in Known("vnet_gateway", told)})
                  >= 80 * Cardinality({Day(t) : t \in Window("vnet_gateway")})
<1> DEFINE name == "vnet_gateway"
           used == Used(told, Window(name))
<1>1. name = "vnet_gateway" /\ told \in Answered(name)
  OBVIOUS
<1>2. Window(name) = InWindow(name)
  BY DEF Window, InWindow
<1>3. /\ told # None /\ Outcome(used, Covers(Days(used), 80, DaysExpected(name))) = "ZERO"
  BY <1>2 DEF VnetMetric, DaysExpected
<1>4. name \in {"vnet_gateway", "ai_search", "aml_compute"} /\ name \notin {"sql_database", "app_service"}
  BY <1>1
<1> HIDE DEF name, used
<1>5. Covers(Days(used), 80, DaysExpected(name)) /\ \A p \in used : ~(p.value > 0)
  BY <1>3, ZeroFacts, Zenon
<1>6. \A p \in told : p.scoped => p.value \in Nat \cup {None}
  <2>1. name \notin {"ai_search", "aml_compute"}
    BY <1>1
  <2> QED
    BY <1>1, <1>3, <1>4, <2>1, AnsweredFacts
<1>7. used = Used({p \in told : p.scoped}, Window(name))
  <2>1. \A p \in told : p.scoped
    <3>1. name # "aml_compute"
      BY <1>1
    <3> QED
      BY <3>1, <1>1, <1>3, <1>4, AnsweredFacts
  <2>2. told = {p \in told : p.scoped}
    BY <2>1
  <2> QED
    BY <2>2 DEF used
<1>8. told # None /\ 80 \in Nat \ {0}
  BY <1>3
<1>9. /\ \A p \in told : p.at \in Window(name) /\ p.scoped => p.value \in {0, None}
      /\ 100 * Cardinality({Day(t) : t \in Known(name, told)})
             >= 80 * Cardinality({Day(t) : t \in Window(name)})
  BY <1>1, <1>4, <1>5, <1>6, <1>7, <1>8, DailyMetricIsProof, Zenon
<1> QED
  BY <1>1, <1>9

LEMMA SearchMetricIsProof ==
    ASSUME NEW told \in Answered("ai_search"), SearchMetric(told) = "ZERO"
    PROVE  /\ \A p \in told : p.at \in Window("ai_search") /\ p.scoped => p.value \in {0, None}
           /\ 100 * Cardinality({Day(t) : t \in Known("ai_search", told)})
                  >= 95 * Cardinality({Day(t) : t \in Window("ai_search")})
<1> DEFINE name == "ai_search"
           used == Used(told, Window(name))
<1>1. name = "ai_search" /\ told \in Answered(name)
  OBVIOUS
<1>2. Window(name) = InWindow(name)
  BY DEF Window, InWindow
<1>3. /\ told # None /\ Outcome(used, Covers(Days(used), 95, DaysExpected(name))) = "ZERO"
      /\ \A p \in told : p.value # Junk
  BY <1>2 DEF SearchMetric, DaysExpected
<1>4. name \in {"vnet_gateway", "ai_search", "aml_compute"} /\ name \notin {"sql_database", "app_service"}
  BY <1>1
<1> HIDE DEF name, used
<1>5. Covers(Days(used), 95, DaysExpected(name)) /\ \A p \in used : ~(p.value > 0)
  BY <1>3, ZeroFacts, Zenon
<1>6. \A p \in told : p.scoped => p.value \in Nat \cup {None}
  <2>1. \A p \in told : p.value \in Nat \cup {None, Junk}
    BY <1>1, <1>3, <1>4, AnsweredFacts
  <2> QED
    BY <1>3, <2>1
<1>7. used = Used({p \in told : p.scoped}, Window(name))
  <2>1. \A p \in told : p.scoped
    <3>1. name # "aml_compute"
      BY <1>1
    <3> QED
      BY <3>1, <1>1, <1>3, <1>4, AnsweredFacts
  <2>2. told = {p \in told : p.scoped}
    BY <2>1
  <2> QED
    BY <2>2 DEF used
<1>8. told # None /\ 95 \in Nat \ {0}
  BY <1>3
<1>9. /\ \A p \in told : p.at \in Window(name) /\ p.scoped => p.value \in {0, None}
      /\ 100 * Cardinality({Day(t) : t \in Known(name, told)})
             >= 95 * Cardinality({Day(t) : t \in Window(name)})
  BY <1>1, <1>4, <1>5, <1>6, <1>7, <1>8, DailyMetricIsProof, Zenon
<1> QED
  BY <1>1, <1>9

LEMMA ClusterMetricIsProof ==
    ASSUME NEW told \in Answered("aml_compute"), ClusterMetric(told) = "ZERO"
    PROVE  /\ \A p \in told : p.at \in Window("aml_compute") /\ p.scoped => p.value \in {0, None}
           /\ 100 * Cardinality({Day(t) : t \in Known("aml_compute", told)})
                  >= 95 * Cardinality({Day(t) : t \in Window("aml_compute")})
<1> DEFINE name == "aml_compute"
           used == Used({p \in told : p.scoped}, Window(name))
<1>1. name = "aml_compute" /\ told \in Answered(name)
  OBVIOUS
<1>2. Window(name) = WindowStart(name) .. TicksPerDay * Day(Now) - 1
  BY DEF Window, InWindow
<1>3. /\ told # None /\ Outcome(used, Covers(Days(used), 95, DaysExpected(name))) = "ZERO"
      /\ \A p \in {q \in told : q.scoped} : p.value # Junk
  BY <1>2 DEF ClusterMetric, DaysExpected
<1>4. name \in {"vnet_gateway", "ai_search", "aml_compute"} /\ name \notin {"sql_database", "app_service"}
  BY <1>1
<1> HIDE DEF name, used
<1>5. Covers(Days(used), 95, DaysExpected(name)) /\ \A p \in used : ~(p.value > 0)
  BY <1>3, ZeroFacts, Zenon
<1>6. \A p \in told : p.scoped => p.value \in Nat \cup {None}
  <2>1. \A p \in told : p.value \in Nat \cup {None, Junk}
    BY <1>1, <1>3, <1>4, AnsweredFacts
  <2> QED
    BY <1>3, <2>1
<1>7. used = Used({p \in told : p.scoped}, Window(name))
  BY DEF used
<1>8. told # None /\ 95 \in Nat \ {0}
  BY <1>3
<1>9. /\ \A p \in told : p.at \in Window(name) /\ p.scoped => p.value \in {0, None}
      /\ 100 * Cardinality({Day(t) : t \in Known(name, told)})
             >= 95 * Cardinality({Day(t) : t \in Window(name)})
  BY <1>1, <1>4, <1>5, <1>6, <1>7, <1>8, DailyMetricIsProof, Zenon
<1> QED
  BY <1>1, <1>9

-----------------------------------------------------------------------------
(* Metrics counted by the tick *)

\* Every tick of the window is expected, and the points that count are those of known ticks.
LEMMA TicksOfWindow ==
    ASSUME NEW name \in {"ml_endpoint", "openai", "registry"}, NEW told,
           \A p \in told : p.scoped = TRUE
    PROVE  /\ Window(name) = InWindow(name)
           /\ Times(Used(told, Window(name))) = Known(name, told)
           /\ Cardinality(Window(name)) = TicksPerDay * EffectiveIdleDays(name)
           /\ Cardinality(Window(name)) \in Nat /\ Cardinality(Known(name, told)) \in Nat
<1>1. name # "aml_compute"
  OBVIOUS
<1>2. Window(name) = InWindow(name)
  BY <1>1 DEF Window, InWindow
<1> DEFINE used == Used(told, Window(name))
<1>3. \A p : p \in used <=> p \in told /\ p.value \notin {None, Junk} /\ p.at \in Window(name)
  BY DEF Used, Numbers
<1>4. \A t : t \in Known(name, told) <=>
                 t \in Window(name) /\ \E p \in told : p.at = t /\ p.scoped /\ p.value \notin {None, Junk}
  BY DEF Known
<1> HIDE DEF used
<1>5. Times(used) = Known(name, told)
  BY <1>3, <1>4 DEF Times
<1> DEFINE ticks == TicksPerDay * EffectiveIdleDays(name)
<1>6. ticks \in Nat /\ Now \in Int /\ WindowStart(name) \in Int /\ WindowStart(name) = Now - ticks
  BY WindowFacts
<1> HIDE DEF ticks
<1>7. Now - 1 \in Int /\ Window(name) = WindowStart(name) .. Now - 1
  BY <1>2, <1>6 DEF InWindow
<1>8. /\ IsFiniteSet(Window(name))
      /\ Cardinality(Window(name)) =
             IF WindowStart(name) > Now - 1 THEN 0 ELSE Now - 1 - WindowStart(name) + 1
  BY <1>6, <1>7, FS_Interval
<1>9. Cardinality(Window(name)) = ticks
  BY <1>6, <1>8
<1>10. Known(name, told) \subseteq Window(name)
  BY DEF Known
<1>11. Cardinality(Known(name, told)) \in Nat
  BY <1>8, <1>10, FS_Subset, FS_CardinalityType
<1> QED
  BY <1>2, <1>5, <1>6, <1>9, <1>11 DEF used, ticks

\* A metric counted by the tick that is ZERO: no activity in the window, on enough of its ticks.
LEMMA TickMetricIsProof ==
    ASSUME NEW name \in {"ml_endpoint", "openai", "registry"}, NEW told,
           \A p \in told : p.scoped = TRUE /\ p.value \in Nat \cup {None},
           Covers(Times(Used(told, InWindow(name))), 80, TicksPerDay * EffectiveIdleDays(name)),
           \A p \in Used(told, InWindow(name)) : ~(p.value > 0)
    PROVE  /\ \A p \in told : p.at \in Window(name) => p.value \in {0, None}
           /\ 5 * Cardinality(Known(name, told)) >= 4 * Cardinality(Window(name))
<1>1. /\ Window(name) = InWindow(name)
      /\ Times(Used(told, Window(name))) = Known(name, told)
      /\ Cardinality(Window(name)) = TicksPerDay * EffectiveIdleDays(name)
      /\ Cardinality(Window(name)) \in Nat /\ Cardinality(Known(name, told)) \in Nat
  BY TicksOfWindow
<1>2. ASSUME NEW p \in told, p.at \in Window(name) PROVE p.value \in {0, None}
  <2>1. p.value \in {0, None, Junk}
    BY <1>1, <1>2, ZeroUsed
  <2> QED
    BY <2>1, MarksAssumption
<1>3. 100 * Cardinality(Known(name, told)) >= 80 * Cardinality(Window(name))
  BY <1>1 DEF Covers
<1> QED
  BY <1>1, <1>2, <1>3

LEMMA HighCoverageIsProof ==
    ASSUME NEW name \in {"ml_endpoint", "openai", "registry"}, NEW told,
           \A p \in told : p.scoped = TRUE, HighCoverage(name, told)
    PROVE  20 * Cardinality(Known(name, told)) >= 19 * Cardinality(Window(name))
<1>1. /\ Window(name) = InWindow(name)
      /\ Times(Used(told, Window(name))) = Known(name, told)
      /\ Cardinality(Window(name)) = TicksPerDay * EffectiveIdleDays(name)
      /\ Cardinality(Window(name)) \in Nat /\ Cardinality(Known(name, told)) \in Nat
  BY TicksOfWindow
<1>2. 100 * Cardinality(Known(name, told)) >= 95 * Cardinality(Window(name))
  BY <1>1 DEF Covers, HighCoverage
<1> QED
  BY <1>1, <1>2

\* What the points of an answer are where they are typed.
LEMMA PlainPoints ==
    ASSUME NEW name, name \notin {"ai_search", "aml_compute", "sql_database", "app_service"},
           NEW told \in Answered(name), told # None
    PROVE  \A p \in told : p.scoped = TRUE /\ p.value \in Nat \cup {None}
<1> SUFFICES ASSUME NEW p \in told PROVE p.scoped = TRUE /\ p.value \in Nat \cup {None}
  OBVIOUS
<1> QED
  BY AnsweredFacts

\* The two rules that ask for one metric.
LEMMA EndpointMetricIsProof ==
    ASSUME NEW told \in Answered("ml_endpoint"), EndpointMetric(told) = "ZERO"
    PROVE  /\ \A p \in told : p.at \in Window("ml_endpoint") => p.value \in {0, None}
           /\ 5 * Cardinality(Known("ml_endpoint", told)) >= 4 * Cardinality(Window("ml_endpoint"))
           /\ HighCoverage("ml_endpoint", told) =>
                  20 * Cardinality(Known("ml_endpoint", told)) >= 19 * Cardinality(Window("ml_endpoint"))
<1> DEFINE name == "ml_endpoint"
<1>1. told # None /\ Outcome(Used(told, InWindow(name)), EndpointCoverage(told)) = "ZERO"
  BY DEF EndpointMetric
<1>2. EndpointCoverage(told) /\ \A p \in Used(told, InWindow(name)) : ~(p.value > 0)
  BY <1>1, ZeroFacts, Zenon
<1>3. Covers(Times(Used(told, InWindow(name))), 80, TicksPerDay * EffectiveIdleDays(name))
  BY <1>2 DEF EndpointCoverage
<1>4. /\ name \in {"ml_endpoint", "openai", "registry"} /\ told \in Answered(name) /\ told # None
      /\ name \notin {"ai_search", "aml_compute", "sql_database", "app_service"}
  BY <1>1
<1> HIDE DEF name
<1>5. \A p \in told : p.scoped = TRUE /\ p.value \in Nat \cup {None}
  BY <1>4, PlainPoints
<1>6. /\ \A p \in told : p.at \in Window(name) => p.value \in {0, None}
      /\ 5 * Cardinality(Known(name, told)) >= 4 * Cardinality(Window(name))
  BY <1>2, <1>3, <1>4, <1>5, TickMetricIsProof
<1>7. HighCoverage(name, told) =>
          20 * Cardinality(Known(name, told)) >= 19 * Cardinality(Window(name))
  BY <1>4, <1>5, HighCoverageIsProof
<1> QED
  BY <1>6, <1>7 DEF name

LEMMA OpenAiMetricIsProof ==
    ASSUME NEW told \in Answered("openai"), OpenAiMetric(told) = "ZERO"
    PROVE  /\ \A p \in told : p.at \in Window("openai") => p.value \in {0, None}
           /\ 5 * Cardinality(Known("openai", told)) >= 4 * Cardinality(Window("openai"))
           /\ HighCoverage("openai", told) =>
                  20 * Cardinality(Known("openai", told)) >= 19 * Cardinality(Window("openai"))
<1> DEFINE name == "openai"
           used == Used(told, InWindow(name))
           covered == Covers(Times(used), 80, TicksPerDay * EffectiveIdleDays(name))
<1>1. told # None /\ Outcome(used, covered) = "ZERO"
  BY DEF OpenAiMetric
<1>2. covered /\ \A p \in used : ~(p.value > 0)
  BY <1>1, ZeroFacts, Zenon
<1>4. /\ name \in {"ml_endpoint", "openai", "registry"} /\ told \in Answered(name) /\ told # None
      /\ name \notin {"ai_search", "aml_compute", "sql_database", "app_service"}
  BY <1>1
<1> HIDE DEF name
<1>5. \A p \in told : p.scoped = TRUE /\ p.value \in Nat \cup {None}
  BY <1>4, PlainPoints
<1>6. /\ \A p \in told : p.at \in Window(name) => p.value \in {0, None}
      /\ 5 * Cardinality(Known(name, told)) >= 4 * Cardinality(Window(name))
  BY <1>2, <1>4, <1>5, TickMetricIsProof
<1>7. HighCoverage(name, told) =>
          20 * Cardinality(Known(name, told)) >= 19 * Cardinality(Window(name))
  BY <1>4, <1>5, HighCoverageIsProof
<1> QED
  BY <1>6, <1>7 DEF name

\* One answer of the registry rule, whichever points it has of those there are.
LEMMA RegistryAnswerIsProof ==
    ASSUME NEW points \in Answered("registry"), NEW told \in RegistryAnswers(points),
           told # None, RegistryAnswer(told) = "ZERO"
    PROVE  /\ \A p \in told : p.at \in Window("registry") => p.value \in {0, None}
           /\ 5 * Cardinality(Known("registry", told)) >= 4 * Cardinality(Window("registry"))
<1> DEFINE name == "registry"
           used == Used(told, InWindow(name))
           covered == Covers(Times(used), 80, TicksPerDay * EffectiveIdleDays(name))
           late(lag) == IF points = None THEN None ELSE {p \in points : p.at = None \/ p.at < Now - lag}
<1>1. Outcome(used, covered) = "ZERO"
  BY DEF RegistryAnswer
<1>2. covered /\ \A p \in used : ~(p.value > 0)
  BY <1>1, ZeroFacts, Zenon
<1>3. points # None /\ told \subseteq points
  <2>1. PICK answers \in [1 .. 3 -> {None} \cup {late(lag) : lag \in Lags}] : told = RegistryMetric(answers)
    BY DEF RegistryAnswers
  <2>2. told \in {None} \cup {late(lag) : lag \in Lags}
    <3> DEFINE known == {i \in DOMAIN answers : RegistryAnswer(answers[i]) # "UNKNOWN"}
               first == CHOOSE i \in known : \A j \in known : i <= j
    <3>1. known \subseteq 1 .. 3 /\ told = IF known = {} THEN None ELSE answers[first]
      BY <2>1 DEF RegistryMetric
    <3>2. known # {}
      BY <3>1
    <3>3. \E i \in known : \A j \in known : i <= j
      <4> HIDE DEF known
      <4>1. CASE 1 \in known
        BY <3>1, <4>1
      <4>2. CASE 1 \notin known /\ 2 \in known
        BY <3>1, <4>2
      <4>3. CASE 1 \notin known /\ 2 \notin known
        BY <3>1, <3>2, <4>3
      <4> QED
        BY <4>1, <4>2, <4>3
    <3>4. first \in 1 .. 3
      BY <3>1, <3>3
    <3> HIDE DEF known, first, late
    <3> QED
      BY <2>1, <3>1, <3>2, <3>4
  <2> QED
    BY <2>2
<1>4. /\ name \in {"ml_endpoint", "openai", "registry"} /\ points \in Answered(name)
      /\ name \notin {"ai_search", "aml_compute", "sql_database", "app_service"}
  OBVIOUS
<1> HIDE DEF name
<1>5. \A p \in told : p.scoped = TRUE /\ p.value \in Nat \cup {None}
  BY <1>3, <1>4, PlainPoints
<1>6. /\ \A p \in told : p.at \in Window(name) => p.value \in {0, None}
      /\ 5 * Cardinality(Known(name, told)) >= 4 * Cardinality(Window(name))
  BY <1>2, <1>4, <1>5, TickMetricIsProof
<1> QED
  BY <1>6 DEF name

-----------------------------------------------------------------------------
(* Metrics that only must not show activity *)

LEMMA SqlMetricIsProof ==
    ASSUME NEW told \in Answered("sql_database"), SqlMetric(told) = "ZERO"
    PROVE  told \notin {None, Absent, {}} /\ \A p \in told : p.value \in {0, None}
<1>1. told \notin {None, Absent, {}} /\ Outcome(Numbers(told), TRUE) = "ZERO"
  BY DEF SqlMetric
<1>2. \A p \in Numbers(told) : ~(p.value > 0)
  BY <1>1, ZeroFacts
<1>3. told \in SUBSET [at : Int \cup {None}, value : Nat \cup {None} \cup {}, scoped : {TRUE}]
  BY <1>1 DEF Answered
<1>4. \A p \in told : p.value \in Nat \cup {None}
  BY <1>3
<1> QED
  BY <1>1, <1>2, <1>4, MarksAssumption DEF Numbers

LEMMA AppMetricIsProof ==
    ASSUME NEW told \in Answered("app_service"), AppMetric(told) = "ZERO"
    PROVE  told # None /\ (told # Absent => \A p \in told : p.value \in {0, None})
<1>1. told # None /\ Outcome(IF told = Absent THEN {} ELSE Numbers(told), TRUE) = "ZERO"
  BY DEF AppMetric
<1> SUFFICES ASSUME told # Absent PROVE \A p \in told : p.value \in {0, None}
  BY <1>1
<1>2. \A p \in Numbers(told) : ~(p.value > 0)
  BY <1>1, ZeroFacts
<1>3. told \in SUBSET [at : Int \cup {None}, value : Nat \cup {None} \cup {}, scoped : {TRUE}]
  BY <1>1 DEF Answered
<1>4. \A p \in told : p.value \in Nat \cup {None}
  BY <1>3
<1> QED
  BY <1>2, <1>4, MarksAssumption DEF Numbers

-----------------------------------------------------------------------------
(* Idleness *)

\* What the property asks of one metric.
ProvenIdle(name, f, told) ==
    CASE name \in {"vnet_gateway", "ai_search", "aml_compute"} ->
            /\ \A p \in told : p.at \in Window(name) /\ p.scoped => p.value \in {0, None}
            /\ 100 * Cardinality({Day(t) : t \in Known(name, told)})
                   >= (IF name = "vnet_gateway" THEN 80 ELSE 95)
                          * Cardinality({Day(t) : t \in Window(name)})
      [] name \in {"ml_endpoint", "openai", "registry"} ->
            /\ \A p \in told : p.at \in Window(name) => p.value \in {0, None}
            /\ 5 * Cardinality(Known(name, told)) >= 4 * Cardinality(Window(name))
            /\ f.confidence = "high" /\ name # "registry"
                   => 20 * Cardinality(Known(name, told)) >= 19 * Cardinality(Window(name))
      [] name = "sql_database" -> told \notin {None, Absent, {}} /\ \A p \in told : p.value \in {0, None}
      [] OTHER -> told # None /\ (told # Absent => \A p \in told : p.value \in {0, None})

Told(name, s, f, m) == IF name = "registry" THEN f.detail.answers[m] ELSE s.telemetry[m]

\* A finding that is due rests on such metrics, whichever the rule asks for.
LEMMA DueIsProven ==
    ASSUME NEW name \in Rules, NEW s \in Subscriptions[name], NEW f, f.resource \in Resources,
           DueFor(name, s[f.resource], f), NEW m \in MetricsAsked(name, s[f.resource])
    PROVE  ProvenIdle(name, f, Told(name, s[f.resource], f, m))
<1> DEFINE x == s[f.resource]
           told == x.telemetry[m]
<1>1. told \in Answered(name)
  BY TelemetryAssumption
<1> HIDE DEF told
<1>2. DueFor(name, x, f) /\ m \in MetricsAsked(name, x) /\ told = x.telemetry[m]
  BY DEF told
<1> HIDE DEF x
<1>3. CASE name = "vnet_gateway"
  <2>1. m \in GatewayMetrics(x) /\ AllZero({VnetMetric(x.telemetry[n]) : n \in GatewayMetrics(x)})
    BY <1>2, <1>3 DEF DueFor, MetricsAsked
  <2>2. VnetMetric(told) = "ZERO"
    BY <1>2, <2>1 DEF AllZero
  <2>3. Told(name, x, f, m) = told
    BY <1>2, <1>3 DEF Told
  <2> QED
    BY <1>1, <1>3, <2>2, <2>3, VnetMetricIsProof DEF ProvenIdle, x
<1>4. CASE name = "ai_search"
  <2>1. m \in SearchMetrics /\ AllZero({SearchMetric(x.telemetry[n]) : n \in SearchMetrics})
    BY <1>2, <1>4 DEF DueFor, MetricsAsked
  <2>2. SearchMetric(told) = "ZERO"
    BY <1>2, <2>1 DEF AllZero
  <2>3. Told(name, x, f, m) = told
    BY <1>2, <1>4 DEF Told
  <2> QED
    BY <1>1, <1>4, <2>2, <2>3, SearchMetricIsProof DEF ProvenIdle, x
<1>5. CASE name = "aml_compute"
  <2>1. m = "Active Nodes" /\ ClusterMetric(x.telemetry["Active Nodes"]) = "ZERO"
    BY <1>2, <1>5 DEF DueFor, MetricsAsked
  <2>2. ClusterMetric(told) = "ZERO"
    BY <1>2, <2>1
  <2>3. Told(name, x, f, m) = told
    BY <1>2, <1>5 DEF Told
  <2> QED
    BY <1>1, <1>5, <2>2, <2>3, ClusterMetricIsProof DEF ProvenIdle, x
<1>6. CASE name = "ml_endpoint"
  <2>1. m = "RequestsPerMinute" /\ EndpointMetric(x.telemetry["RequestsPerMinute"]) = "ZERO"
        /\ (f.confidence = "high" => HighCoverage(name, x.telemetry["RequestsPerMinute"]))
    BY <1>2, <1>6 DEF DueFor, MetricsAsked
  <2>2. EndpointMetric(told) = "ZERO" /\ (f.confidence = "high" => HighCoverage(name, told))
    BY <1>2, <2>1
  <2>3. Told(name, x, f, m) = told
    BY <1>2, <1>6 DEF Told
  <2> QED
    BY <1>1, <1>6, <2>2, <2>3, EndpointMetricIsProof DEF ProvenIdle, x
<1>7. CASE name = "openai"
  <2>1. m = "AzureOpenAIRequests" /\ OpenAiMetric(x.telemetry["AzureOpenAIRequests"]) = "ZERO"
        /\ (f.confidence = "high" => HighCoverage(name, x.telemetry["AzureOpenAIRequests"]))
    BY <1>2, <1>7 DEF DueFor, MetricsAsked
  <2>2. OpenAiMetric(told) = "ZERO" /\ (f.confidence = "high" => HighCoverage(name, told))
    BY <1>2, <2>1
  <2>3. Told(name, x, f, m) = told
    BY <1>2, <1>7 DEF Told
  <2> QED
    BY <1>1, <1>7, <2>2, <2>3, OpenAiMetricIsProof DEF ProvenIdle, x
<1>8. CASE name = "sql_database"
  <2>1. m \in SqlMetrics /\ AllZero({SqlMetric(x.telemetry[n]) : n \in SqlMetrics})
    BY <1>2, <1>8 DEF DueFor, MetricsAsked
  <2>2. SqlMetric(told) = "ZERO"
    BY <1>2, <2>1 DEF AllZero
  <2>3. Told(name, x, f, m) = told
    BY <1>2, <1>8 DEF Told
  <2> QED
    BY <1>1, <1>8, <2>2, <2>3, SqlMetricIsProof DEF ProvenIdle, x
<1>9. CASE name = "app_service"
  <2>1. m \in AppMetrics /\ AllZero({AppMetric(x.telemetry[n]) : n \in AppMetrics})
    BY <1>2, <1>9 DEF DueFor, MetricsAsked
  <2>2. AppMetric(told) = "ZERO"
    BY <1>2, <2>1 DEF AllZero
  <2>3. Told(name, x, f, m) = told
    BY <1>2, <1>9 DEF Told
  <2> QED
    BY <1>1, <1>9, <2>2, <2>3, AppMetricIsProof DEF ProvenIdle, x
<1>10. CASE name = "registry"
  <2> DEFINE answer == f.detail.answers[m]
  <2>1. /\ answer \in RegistryAnswers(told)
        /\ answer # None /\ RegistryAnswer(answer) = "ZERO"
    BY <1>2, <1>10 DEF DueFor, MetricsAsked
  <2>2. Told(name, x, f, m) = answer
    BY <1>10 DEF Told
  <2> HIDE DEF answer
  <2> QED
    BY <1>1, <1>10, <2>1, <2>2, RegistryAnswerIsProof DEF ProvenIdle, x
<1>11. CASE name \notin {"vnet_gateway", "ai_search", "aml_compute", "ml_endpoint", "openai",
                        "sql_database", "app_service", "registry"}
  BY <1>2, <1>11 DEF MetricsAsked
<1> QED
  BY <1>3, <1>4, <1>5, <1>6, <1>7, <1>8, <1>9, <1>10, <1>11

\* "Activity metrics all zero" (sql_database_idle.py:429, app_service_idle.py:250), ">= 80%
\* daily bucket coverage" (vnet_gateway_idle.py:490): every finding that rests on metrics rests
\* on answers that show no activity in any part of the window and cover what the rule asks for.
THEOREM IdleProven == Spec => []IdleIsProven
<1>1. AllDue => IdleIsProven
  <2> SUFFICES ASSUME AllDue, NEW f \in findings, NEW m \in MetricsOf(f.resource)
               PROVE  ProvenIdle(rule, f, Told(rule, subscription[f.resource], f, m))
    BY DEF IdleIsProven, ProvenIdle, Told, Window, Known
  <2>1. rule \in Rules /\ subscription \in Subscriptions[rule] /\ f.resource \in Resources
    BY DEF AllDue
  <2>2. DueFor(rule, subscription[f.resource], f) /\ m \in MetricsAsked(rule, subscription[f.resource])
    BY DEF AllDue, Due, MetricsOf
  <2> QED
    BY <2>1, <2>2, DueIsProven
<1> QED
  BY <1>1, EveryFindingIsDue, PTL
=============================================================================
