------------------------------ MODULE VertexScan ------------------------------
(***************************************************************************)
(* The rules of providers/gcp/rules/ai on one project: feature stores,     *)
(* endpoints, training jobs, TPU nodes and Workbench instances.            *)
(*                                                                         *)
(* A rule lists collections page by page, for all locations at once or, if *)
(* the API refuses that, location by location; then it inspects what it    *)
(* listed, asking Cloud Monitoring about each candidate. Times are days    *)
(* (hours for jobs); None is a missing or unusable value. Of a finding the *)
(* model keeps what it rests on, and its risk and confidence.              *)
(***************************************************************************)
EXTENDS Integers, Sequences, FiniteSets

CONSTANTS
    Resources,
    Projects,        \* resource -> [collection, location, and its attributes]
    LocationList,    \* _VERTEX_LOCATIONS, _FEATURESTORE_LOCATIONS
    RegionOf,        \* zone of a TPU -> its region
    Now,
    IdleDays,        \* rule -> idle_days
    LongHours,       \* long_running_hours_threshold
    StoreAnswers,    \* what Cloud Monitoring may answer about a store
    EndpointAnswers, \* and about an endpoint
    None

Stages ==
    [featurestore |-> <<{"featurestores"}, {"featureOnlineStores"}>>,
     endpoint |-> <<{"endpoints"}>>,
     training |-> <<{"customJobs", "trainingPipelines"}>>,
     tpu |-> <<{"nodes"}>>,
     workbench |-> <<{"instances"}>>]
Rules == DOMAIN Stages
Collections == UNION {UNION {Stages[r][k] : k \in DOMAIN Stages[r]} : r \in Rules}

ASSUME NumbersAssumption ==
    Now \in Nat /\ LongHours \in Nat \ {0} /\ IdleDays \in [Rules -> 1 .. Now]
ASSUME NoneIsAside == None \notin Int /\ None \notin Resources \cup {"permission", "other"}
ASSUME LocationsAssumption ==
    LocationList \in Seq({LocationList[i] : i \in DOMAIN LocationList})
ASSUME ProjectsAssumption ==
    \A p \in Projects : DOMAIN p = Resources /\ \A r \in Resources : p[r].collection \in Collections

\* Attributes are dates, node counts and sets of models, or None where a field is missing
\* or cannot be read; what Cloud Monitoring answers are the ends of its buckets and counts.
TimeOrNone == Int \cup {None}
CountOrNone == Nat \cup {None}
ASSUME AttributesAssumption ==
    \A p \in Projects, r \in Resources :
        LET s == p[r]
        IN  /\ s.collection \in {"featurestores", "featureOnlineStores", "endpoints"} => s.created \in TimeOrNone
            /\ s.collection \in {"featurestores", "featureOnlineStores"} => s.updated \in TimeOrNone
            /\ s.collection = "featurestores" => s.fixed \in CountOrNone /\ s.scaling \in CountOrNone
            /\ s.collection = "featureOnlineStores" => s.min \in CountOrNone /\ s.max \in CountOrNone
            /\ s.collection = "endpoints" =>
                  /\ IsFiniteSet(s.models)
                  /\ \A m \in s.models : m.min \in CountOrNone /\ m.created \in TimeOrNone
ASSUME AnswersAssumption ==
    /\ StoreAnswers \subseteq
          [series : Nat, delta : BOOLEAN, points : Seq([end : Int, value : CountOrNone])]
    /\ EndpointAnswers \subseteq SUBSET [at : Int, value : CountOrNone]

VARIABLES
    rule, project, regionFilter,
    stage,         \* which of Stages[rule] is at work
    pc,            \* of the rule's thread
    lister,        \* of a collection: where it is
    left,          \* what the present enumeration has not returned yet
    results,       \* what it has
    todo,          \* locations not enumerated yet
    listed,        \* what the collection turned out to hold
    unsupported,   \* _wildcard_unsupported
    shown,         \* history: the resources that some page has shown
    refused,       \* history: those of the enumerations that were answered 404 or 400
    client,        \* monitoring_client
    inspected, findings,
    zoneErrors,
    warned, raised

history == <<shown, refused>>
listing == <<lister, left, results, todo, listed, unsupported, history>>
inspection == <<client, inspected, findings, zoneErrors>>
vars == <<rule, project, regionFilter, stage, pc, listing, inspection, warned, raised>>

Listers == {"waiting", "wildcard", "locations", "listed", "denied", "failed"}

In(c) == {r \in Resources : project[r].collection = c}
At(c, location) == {r \in In(c) : project[r].location = location}

Init ==
    /\ rule \in Rules
    /\ project \in Projects
    /\ \A r \in Resources : \E k \in DOMAIN Stages[rule] : project[r].collection \in Stages[rule][k]
    /\ regionFilter \in {None} \cup {LocationList[i] : i \in DOMAIN LocationList}
    /\ stage = 1
    /\ pc = "listing"
    /\ lister = [c \in Collections |-> "waiting"]
    /\ left = [c \in Collections |-> {}]
    /\ results = [c \in Collections |-> {}]
    /\ todo = [c \in Collections |-> LocationList]
    /\ listed = [c \in Collections |-> {}]
    \* A project that is named twice is scanned twice by one process.
    /\ unsupported \in SUBSET {"customJobs", "trainingPipelines"}
    /\ shown = {} /\ refused = {}
    /\ client \in IF rule \in {"featurestore", "endpoint", "tpu"} THEN {"none", "up"} ELSE {"up"}
    /\ inspected = {}
    /\ findings = {}
    /\ zoneErrors = {}
    /\ warned = (rule = "featurestore" /\ client = "none")
    /\ raised = None

-----------------------------------------------------------------------------
(* Listing a collection *)

Busy(c) == pc = "listing" /\ lister[c] \in {"wildcard", "locations"}

Goto(c, state) == lister' = [lister EXCEPT ![c] = state]

Enumerate(c, place) ==
    /\ left' = [left EXCEPT ![c] = place]
    /\ results' = [results EXCEPT ![c] = {}]

\* The next location, or the end of the list.
NextLocation(c, locations, found) ==
    /\ listed' = [listed EXCEPT ![c] = found]
    /\ IF locations = <<>>
       THEN Goto(c, "listed") /\ Enumerate(c, {}) /\ todo' = [todo EXCEPT ![c] = <<>>]
       ELSE /\ Goto(c, "locations")
            /\ Enumerate(c, At(c, Head(locations)))
            /\ todo' = [todo EXCEPT ![c] = Tail(locations)]

\* What _paginate returned, for all locations or for one, found being none for None.
EndEnumeration(c, found) ==
    IF lister[c] = "wildcard"
    THEN /\ Goto(c, "listed")
         /\ listed' = [listed EXCEPT ![c] = found]
         /\ Enumerate(c, {})
         /\ UNCHANGED todo
    ELSE NextLocation(c, todo[c], listed[c] \cup found)

\* Mutant: the request does not name the collection.
StartEverywhere(c) ==
    /\ pc = "listing" /\ lister[c] = "waiting" /\ c \in Stages[rule][stage]
    /\ Goto(c, "wildcard") /\ Enumerate(c, Resources) /\ UNCHANGED <<todo, listed>>
    /\ UNCHANGED <<rule, project, regionFilter, stage, pc, unsupported, history, inspection, warned, raised>>

Start(c) ==
    /\ pc = "listing"
    /\ lister[c] = "waiting"
    /\ c \in Stages[rule][stage]
    /\ IF c \in unsupported
       THEN NextLocation(c, LocationList, {})
       ELSE Goto(c, "wildcard") /\ Enumerate(c, In(c)) /\ UNCHANGED <<todo, listed>>
    /\ UNCHANGED <<rule, project, regionFilter, stage, pc, unsupported, history, inspection, warned, raised>>

\* 200: a page, the last one without a token.
Page(c) ==
    /\ Busy(c)
    /\ \E page \in SUBSET left[c] :
          /\ page # {} \/ left[c] = {}
          /\ shown' = shown \cup page
          /\ IF page = left[c]
             THEN EndEnumeration(c, results[c] \cup page)
             ELSE /\ left' = [left EXCEPT ![c] = @ \ page]
                  /\ results' = [results EXCEPT ![c] = @ \cup page]
                  /\ UNCHANGED <<lister, todo, listed>>
    /\ UNCHANGED <<rule, project, regionFilter, stage, pc, unsupported, refused, inspection, warned, raised>>

\* Nothing is taken of an enumeration, whatever its earlier pages showed.
Discard(c) ==
    /\ EndEnumeration(c, {})
    /\ refused' = refused \cup left[c] \cup results[c]

\* 403. An API that is not enabled is no missing permission for TPUs.
Denied(c) ==
    /\ Busy(c)
    /\ \/ Goto(c, "denied") /\ UNCHANGED <<left, results, todo, listed, refused>>
       \/ rule = "tpu" /\ Discard(c)
    /\ UNCHANGED <<rule, project, regionFilter, stage, pc, unsupported, shown, inspection, warned, raised>>

\* A job listing keeps the pages it has when a later one fails, but for a 403.
KeepsPages(c) == rule = "training" /\ results[c] # {}

\* 404, on whichever page: the API is taken not to be enabled, or the location to have
\* no such resources.
NotFound(c) ==
    /\ Busy(c) /\ ~KeepsPages(c)
    /\ Discard(c)
    /\ warned' = (warned \/ rule = "workbench")
    /\ UNCHANGED <<rule, project, regionFilter, stage, pc, unsupported, shown, inspection, raised>>

\* 400, on whichever page: the API is taken not to accept "-" for a location, or not to
\* know this one.
BadRequest(c) ==
    /\ Busy(c) /\ ~KeepsPages(c)
    /\ \/ /\ rule \in {"featurestore", "endpoint", "training"} /\ lister[c] = "wildcard"
          /\ NextLocation(c, LocationList, {})
          /\ unsupported' = unsupported \cup (IF rule = "training" THEN {c} ELSE {})
          /\ UNCHANGED <<refused, warned>>
       \/ /\ lister[c] = "locations" /\ Discard(c)
          /\ UNCHANGED <<unsupported, warned>>
       \/ /\ rule = "tpu" /\ Goto(c, "failed")
          /\ UNCHANGED <<left, results, todo, listed, unsupported, refused, warned>>
       \/ /\ rule = "workbench" /\ Discard(c) /\ warned' = TRUE
          /\ UNCHANGED unsupported
    /\ UNCHANGED <<rule, project, regionFilter, stage, pc, shown, inspection, raised>>

\* Mutant: pages that were kept are not said to be incomplete.
ServerErrorSilent(c) ==
    /\ Busy(c)
    /\ \/ Goto(c, "failed") /\ UNCHANGED <<left, results, todo, listed, warned>>
       \/ KeepsPages(c) /\ EndEnumeration(c, results[c]) /\ UNCHANGED warned
    /\ UNCHANGED <<rule, project, regionFilter, stage, pc, unsupported, history, inspection, raised>>

\* Any other status, for kept pages also 404 and 400, or no answer at all. Workbench
\* keeps what it has after a 5xx, a job listing after any status.
ServerError(c) ==
    /\ Busy(c)
    /\ \/ Goto(c, "failed") /\ UNCHANGED <<left, results, todo, listed, warned>>
       \/ /\ KeepsPages(c) \/ rule = "workbench"
          /\ EndEnumeration(c, results[c])
          /\ warned' = TRUE
    /\ UNCHANGED <<rule, project, regionFilter, stage, pc, unsupported, history, inspection, raised>>

AllListed == \A c \in Stages[rule][stage] : lister[c] \in {"listed", "denied", "failed"}
SomeLister(state) == \E c \in Stages[rule][stage] : lister[c] = state

\* The thread takes what its listers return or raise, both having ended.
CollectListers ==
    /\ pc = "listing" /\ AllListed
    /\ \/ SomeLister("denied") /\ pc' = "raised" /\ raised' = "permission"
          /\ UNCHANGED <<listed, warned>>
       \/ /\ ~SomeLister("denied") /\ SomeLister("failed") /\ rule \in {"endpoint", "tpu", "workbench"}
          /\ pc' = "raised" /\ raised' = "other"
          /\ UNCHANGED <<listed, warned>>
       \/ /\ ~SomeLister("denied")
          /\ SomeLister("failed") => rule \in {"featurestore", "training"}
          /\ pc' = "inspecting"
          /\ listed' = [c \in Collections |-> IF lister[c] = "failed" THEN {} ELSE listed[c]]
          /\ warned' = (warned \/ SomeLister("failed"))
          /\ UNCHANGED raised
    /\ UNCHANGED <<rule, project, regionFilter, stage, lister, left, results, todo, unsupported,
                   history, inspection>>

-----------------------------------------------------------------------------
(* Feature stores *)

WindowStart == Now - IdleDays[rule]
Usable(t) == t # None /\ t <= Now
Latest(times) == CHOOSE t \in times : \A u \in times : u <= t
InFilter(r) == regionFilter \in {None, project[r].location}

\* _resolve_reference_time: the later of both, of those that are not in the future.
ReferenceTime(s) ==
    LET usable == {t \in {s.created, s.updated} : Usable(t)}
    IN  IF usable = {} THEN None ELSE Latest(usable)

OldEnough(s) == ReferenceTime(s) # None /\ ReferenceTime(s) <= WindowStart

\* Nodes are None where the configuration does not parse.
LegacyFloor(s) ==
    IF None \in {s.fixed, s.scaling} \/ (s.fixed > 0 /\ s.scaling > 0) THEN 0
    ELSE s.fixed + s.scaling

LegacyCandidate(r) ==
    LET s == project[r]
    IN  InFilter(r) /\ s.stable /\ OldEnough(s) /\ LegacyFloor(s) > 0

OnlineCandidate(r) ==
    LET s == project[r]
    IN  /\ InFilter(r) /\ s.stable /\ OldEnough(s)
        /\ s.bigtable /\ ~s.optimized
        /\ None \notin {s.min, s.max} /\ s.min >= 1 /\ s.max >= s.min

\* Mutant: buckets may repeat.
StoreTelemetryRepeats(answer) ==
    LET points == answer.points
    IN  IF /\ answer.series = 1 /\ answer.delta /\ Len(points) = IdleDays[rule]
           /\ \A i \in DOMAIN points : points[i].end \in 1 .. IdleDays[rule] /\ points[i].value # None
        THEN IF \A i \in DOMAIN points : points[i].value = 0
             THEN "confirmed_zero" ELSE "positive_activity"
        ELSE "unresolved"

\* _query_store_activity: one series of exactly one value for each day of the window,
\* counts being none below zero. (Such buckets have no gap, which it checks as well.)
StoreTelemetry(answer) ==
    LET points == answer.points
        ends == {points[i].end : i \in DOMAIN points}
    IN  IF /\ answer.series = 1 /\ answer.delta /\ Len(points) = IdleDays[rule]
           /\ ends \subseteq 1 .. IdleDays[rule] /\ Cardinality(ends) = Len(points)
           /\ \A i \in DOMAIN points : points[i].value # None
        THEN IF \A i \in DOMAIN points : points[i].value = 0
             THEN "confirmed_zero" ELSE "positive_activity"
        ELSE "unresolved"

LegacyFinding(r, answer) ==
    [resource |-> r, basis |-> answer, floor |-> LegacyFloor(project[r]),
     risk |-> "high", confidence |-> "high"]
OnlineFinding(r, answer) ==
    [resource |-> r, basis |-> answer, floor |-> project[r].min,
     risk |-> "high", confidence |-> "high"]

ToInspect ==
    (UNION {listed[c] : c \in Stages[rule][stage]}) \ inspected

Inspects(rs) ==
    /\ inspected' = inspected \cup rs
    /\ UNCHANGED <<rule, project, regionFilter, stage, pc, listing, client, raised>>

InspectStore(r) ==
    LET legacy == project[r].collection = "featurestores"
        candidate == client = "up" /\ IF legacy THEN LegacyCandidate(r) ELSE OnlineCandidate(r)
    IN  /\ pc = "inspecting" /\ rule = "featurestore" /\ r \in ToInspect
        /\ Inspects({r})
        /\ UNCHANGED zoneErrors
        /\ \/ ~candidate /\ UNCHANGED <<findings, warned>>
           \/ candidate /\ warned' = TRUE /\ UNCHANGED findings  \* the query fails
           \/ /\ candidate
              /\ \E answer \in StoreAnswers :
                    findings' = findings \cup
                        IF StoreTelemetry(answer) # "confirmed_zero" THEN {}
                        ELSE IF legacy THEN {LegacyFinding(r, answer)} ELSE {OnlineFinding(r, answer)}
              /\ UNCHANGED warned

-----------------------------------------------------------------------------
(* Endpoints *)

\* _classify_deployed_models. A model has one of three kinds of resources, and a
\* malformed one makes its endpoint malformed.
InScope(m) == m.resources \in {"dedicated", "automatic"} /\ m.min # None /\ m.min >= 1
Malformed(m) ==
    \/ m.resources = None
    \/ m.resources \in {"dedicated", "automatic"} /\ m.min = None
    \/ InScope(m) /\ ~Usable(m.created)
Accelerated(m) == InScope(m) /\ m.resources = "dedicated" /\ m.accelerator

EndpointCandidate(r) ==
    LET e == project[r]
        inScope == {m \in e.models : InScope(m)}
    IN  /\ InFilter(r) /\ Usable(e.created)
        /\ \A m \in e.models : ~Malformed(m)
        /\ inScope # {}
        /\ Latest({e.created} \cup {m.created : m \in inScope}) <= WindowStart

\* _query_location_request_counts: the points in the window, one that is NaN as 0.
PointsUsed(points) ==
    {[at |-> p.at, value |-> IF p.value = None THEN 0 ELSE p.value] :
        p \in {q \in points : q.at \in WindowStart .. Now}}

\* _evaluate_endpoint_telemetry: no gap of more than half the window, before the
\* first point, between two points, or after the last one.
Covered(points) ==
    LET ends == {p.at : p \in points} \cup {WindowStart, Now}
    IN  /\ points # {}
        /\ \A a, b \in ends :
              a < b /\ (\A c \in ends : c <= a \/ c >= b) => 2 * (b - a) <= IdleDays[rule]

EndpointTelemetry(points) ==
    IF ~Covered(points) THEN "unresolved"
    ELSE IF \E p \in points : p.value > 0 THEN "observed_prediction_requests"
    ELSE "no_observed_prediction_requests"

EndpointFinding(r, answer) ==
    [resource |-> r, basis |-> answer,
     floor |-> Cardinality({m \in project[r].models : InScope(m)}),
     risk |-> IF \E m \in project[r].models : Accelerated(m) THEN "high" ELSE "medium",
     confidence |-> "high"]

\* One query for the candidates of a location.
InspectLocation(location) ==
    LET here == {r \in ToInspect : project[r].location = location}
        candidates == {r \in here : EndpointCandidate(r)}
    IN  /\ pc = "inspecting" /\ rule = "endpoint" /\ client = "up" /\ here # {}
        /\ Inspects(here)
        /\ UNCHANGED zoneErrors
        /\ \/ candidates # {} /\ warned' = TRUE /\ UNCHANGED findings  \* the query fails
           \/ /\ \E answer \in [candidates -> EndpointAnswers] :
                    findings' = findings \cup
                        {EndpointFinding(r, answer[r]) : r \in
                            {q \in candidates : EndpointTelemetry(PointsUsed(answer[q]))
                                                    = "no_observed_prediction_requests"}}
              /\ UNCHANGED warned

\* MetricServiceClient() raises: there is no fallback.
NoEndpointClient ==
    /\ pc = "inspecting" /\ rule = "endpoint" /\ client = "none"
    /\ pc' = "returned"
    /\ warned' = (warned \/ ToInspect # {})
    /\ UNCHANGED <<rule, project, regionFilter, stage, listing, inspection, raised>>

-----------------------------------------------------------------------------
(* Training jobs *)

\* Malformed names, unexpected states and unusable start times are counted and warned of.
JobUnusable(j) == ~j.named \/ ~j.running \/ j.elapsed = None \/ j.elapsed < 0
JobCandidate(r) == InFilter(r) /\ ~JobUnusable(project[r]) /\ project[r].elapsed >= LongHours
Runaway(j) == j.elapsed >= 3 * LongHours

\* _parse_worker_pools and _has_accelerator_hardware: pools that do not parse are
\* dropped. Machines of some families hold accelerators without naming them.
AcceleratedJob(j) ==
    \E p \in j.pools : p.parses /\ ((p.accelerator /\ p.count > 0) \/ p.bundled)

JobFinding(r) ==
    LET j == project[r]
    IN  [resource |-> r, basis |-> j.elapsed, floor |-> Cardinality({p \in j.pools : p.parses}),
         risk |-> IF ~Runaway(j) THEN "medium"
                  ELSE IF AcceleratedJob(j) THEN "critical" ELSE "high",
         confidence |-> IF Runaway(j) THEN "high" ELSE "medium"]

InspectJob(r) ==
    LET j == project[r]
    IN  /\ pc = "inspecting" /\ rule = "training" /\ r \in ToInspect
        /\ Inspects({r})
        /\ findings' = findings \cup (IF JobCandidate(r) THEN {JobFinding(r)} ELSE {})
        /\ warned' = (warned \/ ~j.named \/ (InFilter(r) /\ JobUnusable(j)))
        /\ UNCHANGED zoneErrors

-----------------------------------------------------------------------------
(* TPU nodes and Workbench instances: rules that end without a finding *)

TpuCandidate(r) ==
    LET n == project[r]
    IN  /\ regionFilter \in {None, RegionOf[n.location]}
        /\ n.ready /\ Usable(n.created) /\ n.created <= WindowStart /\ n.standalone

\* The metric cannot be attributed to a node: its telemetry is "unresolved", and what
\* follows in the code is never reached. A zone is probed once, and not after an error.
InspectNode(r) ==
    LET zone == project[r].location
    IN  /\ pc = "inspecting" /\ rule = "tpu" /\ r \in ToInspect
        /\ Inspects({r})
        /\ UNCHANGED findings
        /\ \/ UNCHANGED zoneErrors /\ warned' = (warned \/ client = "none")
           \/ /\ client = "up" /\ TpuCandidate(r) /\ zone \notin zoneErrors
              /\ zoneErrors' = zoneErrors \cup {zone}
              /\ warned' = TRUE

WorkbenchCandidate(r) == InFilter(r) /\ project[r].named /\ project[r].active

\* Candidates and malformed instances are warned of.
InspectInstance(r) ==
    /\ pc = "inspecting" /\ rule = "workbench" /\ r \in ToInspect
    /\ Inspects({r})
    /\ warned' = (warned \/ ~project[r].named \/ WorkbenchCandidate(r))
    /\ UNCHANGED <<findings, zoneErrors>>

EndStage ==
    /\ pc = "inspecting" /\ ToInspect = {}
    /\ IF stage < Len(Stages[rule])
       THEN pc' = "listing" /\ stage' = stage + 1
       ELSE pc' = "returned" /\ UNCHANGED stage
    /\ UNCHANGED <<rule, project, regionFilter, listing, inspection, warned, raised>>

-----------------------------------------------------------------------------
List(c) ==
    \/ Start(c)
    \/ Page(c)
    \/ Denied(c)
    \/ NotFound(c)
    \/ BadRequest(c)
    \/ ServerError(c)

Next ==
    \/ \E c \in Collections : List(c)
    \/ CollectListers
    \/ \E r \in Resources : InspectStore(r) \/ InspectJob(r) \/ InspectNode(r) \/ InspectInstance(r)
    \/ \E r \in Resources : InspectLocation(project[r].location)
    \/ NoEndpointClient
    \/ EndStage

Spec == Init /\ [][Next]_vars

-----------------------------------------------------------------------------
(* Properties *)

TypeOK ==
    /\ pc \in {"listing", "inspecting", "returned", "raised"}
    /\ stage \in DOMAIN Stages[rule]
    /\ lister \in [Collections -> Listers]
    /\ \A c \in Collections : left[c] \cup results[c] \cup listed[c] \subseteq In(c)
    /\ inspected \subseteq Resources
    /\ {f.resource : f \in findings} \subseteq inspected
    /\ warned \in BOOLEAN
    /\ (pc = "raised") = (raised \in {"permission", "other"})

\* featurestore_idle.py:13-43: a store is a finding only if it was there, and was not
\* changed, throughout the window, and Monitoring gave a zero for every day of it.
\* vertex_endpoint_idle.py:385-442: an endpoint is one only if its always-on replicas were
\* there throughout the window and no number in it counts a request; where all its datapoints
\* are numbers, there is one inside every stretch of more than half the window. One that is not
\* a number fills such a stretch too, against docs/specs/gcp/ai/vertex_endpoint_idle.md:389.
IdleIsProven ==
    \A f \in findings :
        LET s == project[f.resource]
            days == IdleDays[rule]
        IN  CASE rule = "featurestore" ->
                    LET values(d) == {f.basis.points[i].value :
                                         i \in {j \in DOMAIN f.basis.points : f.basis.points[j].end = d}}
                    IN  /\ s.created # None \/ s.updated # None
                        /\ \A t \in {s.created, s.updated} : t = None \/ t > Now \/ t <= WindowStart
                        /\ \A d \in 1 .. days : values(d) = {0}
                        /\ f.floor >= 1
              [] rule = "endpoint" ->
                    LET inWindow == {p \in f.basis : p.at >= WindowStart /\ p.at <= Now}
                        numbers == {p \in inWindow : p.value # None}
                    IN  /\ f.floor >= 1
                        /\ \A m \in s.models : InScope(m) => m.created <= Now - days
                        /\ \A p \in numbers : p.value = 0
                        /\ inWindow = numbers =>
                              \A a, b \in WindowStart .. Now :
                                 2 * (b - a) > days => \E p \in numbers : a < p.at /\ p.at < b
              [] OTHER -> TRUE

\* "except PermissionError: raise" (featurestore_idle.py:461, :637 and the like): a rule
\* that was denied one of its listings never returns findings, as if it had seen all.
\* "findings may be incomplete" (vertex_training_job_long_running.py:565 and the like): what one
\* that returns without a warning has not looked at is in a location it does not know when it had
\* to ask for each of them, or in an enumeration that was answered 404 or 400; and of these a
\* job listing gives up none that a page has shown. The other listings do, in silence, against
\* docs/specs/gcp/ai/featurestore_idle.md:494.
SilentMeansComplete ==
    pc = "returned" =>
        /\ \A c \in Collections : lister[c] # "denied"
        /\ ~warned =>
              \A r \in Resources \ inspected :
                  /\ rule = "training" => r \notin shown
                  /\ \/ r \in refused
                     \/ /\ todo[project[r].collection] = <<>>
                        /\ \A i \in DOMAIN LocationList : LocationList[i] # project[r].location
=============================================================================
