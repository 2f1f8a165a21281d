------------------------------- MODULE AwsScan -------------------------------
(***************************************************************************)
(* One rule of providers/aws/rules on one region, while the region goes    *)
(* on: what uses a resource (its network interfaces, instances, launch     *)
(* templates and configurations, route tables or targets) comes and goes   *)
(* between the calls of the rule. What the rule reads before it looks at   *)
(* the resources (launch templates) or after it has listed them (network   *)
(* interfaces) is of another moment than the rest.                         *)
(***************************************************************************)
EXTENDS AwsRules

CONSTANTS
    Resources,
    Accounts,         \* rule -> what a region may hold: resource -> record
    Interfaces,       \* network interfaces
    Templates,        \* launch templates
    Configurations,   \* launch configurations
    TemplateGuard,    \* _LT_INDEX_GUARD
    ConfigurationGuard, \* _LC_INDEX_GUARD
    MaxChanges        \* bounds what happens in the region during the rule

Rules == {"elb", "nat", "rds", "redshift", "opensearch", "sagemaker", "sg", "ami"}

\* What may use a resource.
UsersOf(name) ==
    CASE name = "sg" -> Interfaces
      [] name = "ami" -> Templates \cup Configurations \cup {"instance"}
      [] name = "nat" -> {"routeTable"}
      [] name = "elb" -> {"target"}
      [] OTHER -> {}

ASSUME AccountsAssumption ==
    \A rule \in Rules : \A a \in Accounts[rule] :
        /\ DOMAIN a = Resources
        /\ \A r \in Resources : a[r].users \subseteq UsersOf(rule)

\* What CloudWatch answers: it has one point at most for each day that a load balancer's rule
\* asks about, and none for an hour outside the window that a domain's rule asks about.
Count == Nat \cup {None}
Metric == Seq([at : Int, value : Count])
HoursAsked == IdleDays["opensearch"] * HoursPerDay
ASSUME TelemetryAssumption ==
    /\ IdleDays["elb"] \in Nat /\ HoursAsked \in Nat
    /\ \A rule \in {"elb", "nat", "rds", "redshift", "opensearch"} :
          \A a \in Accounts[rule], r \in Resources :
              \A m \in DOMAIN a[r].telemetry : a[r].telemetry[m] \in Metric
    /\ \A a \in Accounts["elb"], r \in Resources :
          LET t == a[r].telemetry
          IN  /\ a[r].family \in DOMAIN ElbMetrics =>
                    \A i \in DOMAIN ElbMetrics[a[r].family] : ElbMetrics[a[r].family][i] \in DOMAIN t
              /\ \A m \in DOMAIN t : \A i, j \in DOMAIN t[m] : t[m][i].at = t[m][j].at => i = j
    /\ \A a \in Accounts["nat"], r \in Resources : DOMAIN a[r].telemetry = NatMetrics
    /\ \A a \in Accounts["rds"], r \in Resources : DOMAIN a[r].telemetry = {"DatabaseConnections"}
    /\ \A a \in Accounts["redshift"], r \in Resources :
          DOMAIN a[r].telemetry = {"DatabaseConnections", "ReadIOPS", "WriteIOPS"}
    /\ \A a \in Accounts["opensearch"], r \in Resources :
          LET t == a[r].telemetry
          IN  /\ DOMAIN t = {"OpenSearchRequests", "SearchRate", "IndexingRate"}
              /\ \A i \in DOMAIN t["OpenSearchRequests"] : t["OpenSearchRequests"][i].at \in 1 .. HoursAsked
    /\ \A a \in Accounts["sagemaker"], r \in Resources :
          \A v \in a[r].variants :
              v.invocations \in Metric /\ v.instances \in Count /\ v.concurrency \in Count

ASSUME BoundsAssumption == MaxChanges \in Nat
ASSUME NoneAssumption == None \notin {"permission", "other"} /\ None # {}

VARIABLES
    rule,
    account,      \* what the region holds
    users,        \* resource -> what uses it now
    since,        \* and what has used it ever since the rule began
    changes,
    pc, family,   \* where the rule is; "classic" is the second half of elb
    atListing,    \* users, of the listing
    unread,       \* launch templates, or network interfaces, not read yet
    index,        \* resource -> the users found in advance
    indexFailed,  \* lt_index_failed, lc_index_failed
    inspected,
    findings,
    broken,       \* the families whose listing or metrics failed
    firstExc, raised

region == <<account, users, since, changes>>
vars == <<rule, region, pc, family, atListing, unread, index, indexFailed, inspected, findings,
          broken, firstExc, raised>>

FamilyOf(r) == IF rule = "elb" /\ account[r].family = "clb" THEN "classic" ELSE "only"

Init ==
    /\ rule \in Rules
    /\ account \in Accounts[rule]
    /\ users = [r \in Resources |-> account[r].users]
    /\ since = users
    /\ changes = 0
    /\ pc = (IF rule = "ami" THEN "templates" ELSE "listing")
    /\ family = "only"
    /\ atListing = [r \in Resources |-> {}]
    /\ unread = None
    /\ index = [r \in Resources |-> {}]
    /\ indexFailed = {}
    /\ inspected = {}
    /\ findings = {}
    /\ broken = {}
    /\ firstExc = None
    /\ raised = None

-----------------------------------------------------------------------------
(* The region goes on *)

Attach(r, user) ==
    /\ raised = None /\ pc # "returned"
    /\ changes < MaxChanges /\ user \notin users[r]
    /\ users' = [users EXCEPT ![r] = @ \cup {user}]
    /\ changes' = changes + 1
    /\ UNCHANGED <<rule, account, since, pc, family, atListing, unread, index, indexFailed, inspected,
                   findings, broken, firstExc, raised>>

Detach(r, user) ==
    /\ raised = None /\ pc # "returned"
    /\ changes < MaxChanges /\ user \in users[r]
    /\ users' = [users EXCEPT ![r] = @ \ {user}]
    /\ since' = [since EXCEPT ![r] = @ \ {user}]
    /\ changes' = changes + 1
    /\ UNCHANGED <<rule, account, pc, family, atListing, unread, index, indexFailed, inspected,
                   findings, broken, firstExc, raised>>

-----------------------------------------------------------------------------
(* How the rule ends *)

\* Mutant: what is raised is what had failed before.
SettleBefore(exc) ==
    IF rule = "elb" /\ family = "only"
    THEN pc' = "listing" /\ family' = "classic" /\ UNCHANGED raised
    ELSE /\ pc' = (IF exc = None THEN "returned" ELSE "raised")
         /\ raised' = firstExc
         /\ UNCHANGED family

\* Both families of load balancers are scanned; what failed is raised after that.
Settle(exc) ==
    IF rule = "elb" /\ family = "only"
    THEN pc' = "listing" /\ family' = "classic" /\ UNCHANGED raised
    ELSE /\ pc' = (IF exc = None THEN "returned" ELSE "raised")
         /\ raised' = exc
         /\ UNCHANGED family

\* Mutant: what fails in the second family is not raised.
FailInFirst(kind) ==
    /\ broken' = broken \cup {family}
    /\ firstExc' = IF firstExc = None /\ family = "only" THEN kind ELSE firstExc
    /\ findings' = {f \in findings : FamilyOf(f.resource) # family}
    /\ Settle(firstExc')
    /\ UNCHANGED <<rule, region, atListing, unread, index, indexFailed, inspected>>

\* An exception: what the family has found so far is gone.
Fail(kind) ==
    /\ broken' = broken \cup {family}
    /\ firstExc' = IF firstExc = None THEN kind ELSE firstExc
    /\ findings' = {f \in findings : FamilyOf(f.resource) # family}
    /\ Settle(firstExc')
    /\ UNCHANGED <<rule, region, atListing, unread, index, indexFailed, inspected>>

Todo == {r \in Resources : FamilyOf(r) = family} \ inspected

EndFamily ==
    /\ pc = "inspecting" /\ Todo = {}
    /\ Settle(firstExc)
    /\ UNCHANGED <<rule, region, atListing, unread, index, indexFailed, inspected, findings,
                   broken, firstExc>>

-----------------------------------------------------------------------------
(* What is read in advance *)

Found(seen) == index' = [r \in Resources |-> index[r] \cup (users[r] \cap seen)]

\* What there is of a kind: what is in use, and maybe more.
Existing(kind) == {es \in SUBSET kind : \A r \in Resources : users[r] \cap kind \subseteq es}

\* Guards cut both lists short, which is as bad as a failure.
ListTemplates ==
    /\ pc = "templates" /\ unread = None
    /\ \/ \E existing \in Existing(Templates) :
              /\ unread' \in IF Cardinality(existing) > TemplateGuard
                             THEN {ts \in SUBSET existing : Cardinality(ts) = TemplateGuard}
                             ELSE {existing}
              /\ indexFailed' = IF Cardinality(existing) > TemplateGuard THEN {"templates"} ELSE {}
       \/ unread' = {} /\ indexFailed' = {"templates"}
    /\ UNCHANGED <<rule, region, pc, family, atListing, index, inspected, findings, broken, firstExc,
                   raised>>

\* A template whose versions cannot be read is passed over, without a word.
ReadTemplate ==
    /\ pc = "templates" /\ unread # None
    /\ \E t \in unread : unread' = unread \ {t} /\ (Found({t}) \/ UNCHANGED index)
    /\ UNCHANGED <<rule, region, pc, family, atListing, indexFailed, inspected, findings, broken,
                   firstExc, raised>>

ReadConfigurations ==
    /\ pc = "templates" /\ unread = {}
    /\ \/ \E existing \in Existing(Configurations) :
              IF Cardinality(existing) >= ConfigurationGuard
              THEN /\ \E cs \in SUBSET existing : Cardinality(cs) = ConfigurationGuard /\ Found(cs)
                   /\ indexFailed' = indexFailed \cup {"configurations"}
              ELSE Found(existing) /\ UNCHANGED indexFailed
       \/ UNCHANGED index /\ indexFailed' = indexFailed \cup {"configurations"}
    /\ pc' = "listing"
    /\ UNCHANGED <<rule, region, family, atListing, unread, inspected, findings, broken, firstExc, raised>>

\* Security groups, if there are any, wait for the network interfaces.
List ==
    /\ pc = "listing"
    /\ atListing' = users
    /\ pc' = (IF rule = "sg" /\ \E r \in Resources : account[r].named THEN "interfaces" ELSE "inspecting")
    /\ unread' = (IF rule = "sg" THEN Interfaces ELSE unread)
    /\ UNCHANGED <<rule, region, family, index, indexFailed, inspected, findings, broken, firstExc, raised>>

\* A page of network interfaces.
ReadInterfaces ==
    /\ pc = "interfaces" /\ unread # {}
    /\ \E page \in (SUBSET unread) \ {{}} :
          /\ Found(page)
          /\ unread' = unread \ page
    /\ UNCHANGED <<rule, region, pc, family, atListing, indexFailed, inspected, findings, broken,
                   firstExc, raised>>

\* Mutant: the interfaces up to a malformed one are all there are.
BuildUsageToMalformed ==
    /\ pc = "interfaces" /\ unread = {}
    /\ pc' = "inspecting"
    /\ index' \in {index, [r \in Resources |-> {}]}
    /\ UNCHANGED <<rule, region, family, atListing, unread, indexFailed, inspected, findings, broken,
                   firstExc, raised>>

\* _build_eni_usage. (A malformed interface ends the rule: ListingFails.)
BuildUsage ==
    /\ pc = "interfaces" /\ unread = {}
    /\ pc' = "inspecting"
    /\ UNCHANGED <<rule, region, family, atListing, unread, index, indexFailed, inspected, findings,
                   broken, firstExc, raised>>

\* Images are listed page by page, while they are inspected.
ListingFails ==
    /\ pc \in {"listing", "interfaces"} \/ (pc = "inspecting" /\ rule = "ami")
    /\ Fail("permission") \/ Fail("other")

-----------------------------------------------------------------------------
(* The handling of a resource *)

Turn(name, r) == rule = name /\ pc = "inspecting" /\ r \in Todo

Report(r, condition, finding) ==
    /\ inspected' = inspected \cup {r}
    /\ findings' = IF condition THEN findings \cup {finding} ELSE findings
    /\ UNCHANGED <<rule, region, pc, family, atListing, unread, index, indexFailed, broken, firstExc,
                   raised>>

\* A call that the rule depends on fails.
CallFails(condition) == condition /\ (Fail("permission") \/ Fail("other"))

\* What is only good to know may fail to be read.
BestEffort(answer) == {answer, None}
BackendContext(r) == BestEffort(users[r])
RouteTables(r) == BestEffort(users[r])
ActiveInstances(r) == BestEffort("instance" \in users[r])

InspectV2(r) ==
    LET lb == account[r]
        traffic == IF ElbV2Candidate(lb) THEN ElbTraffic(lb) ELSE "active"
    IN  /\ Turn("elb", r) /\ family = "only"
        /\ \/ /\ traffic # "incomplete"
              /\ \E targets \in BackendContext(r) : Report(r, traffic = "idle", ElbFinding(r, lb, targets))
           \/ traffic = "incomplete" /\ Fail("other")
           \/ CallFails(ElbV2Candidate(lb))

\* The instances of a classic load balancer are in the listing.
InspectClassic(r) ==
    LET lb == account[r]
    IN  /\ Turn("elb", r) /\ family = "classic"
        /\ \/ Report(r, ElbClassicCandidate(lb) /\ ElbTraffic(lb) = "idle",
                     ElbFinding(r, lb, atListing[r]))
           \/ CallFails(ElbClassicCandidate(lb))

InspectNat(r) ==
    LET gw == account[r]
    IN  /\ Turn("nat", r)
        /\ \/ \E routeTables \in RouteTables(r) :
                  Report(r, NatCandidate(gw) /\ NatIdle(gw), NatFinding(r, routeTables))
           \/ CallFails(NatCandidate(gw))

InspectDatabase(r) ==
    LET db == account[r]
    IN  /\ Turn("rds", r)
        /\ Report(r, RdsCandidate(db) /\ RdsIdle(db), RdsFinding(r)) \/ CallFails(RdsCandidate(db))

InspectCluster(r) ==
    LET c == account[r]
    IN  /\ Turn("redshift", r)
        /\ \/ \E reads \in BestEffort(c.telemetry["ReadIOPS"]), writes \in BestEffort(c.telemetry["WriteIOPS"]) :
                  Report(r, RedshiftCandidate(c) /\ RedshiftIdle(c), RedshiftFinding(r, c, reads, writes))
           \/ CallFails(RedshiftCandidate(c))

\* A domain is described before anything is known of it. It may be gone by then.
InspectDomain(r) ==
    LET d == account[r]
    IN  /\ Turn("opensearch", r)
        /\ \/ \E searches \in BestEffort(d.telemetry["SearchRate"]),
                 indexings \in BestEffort(d.telemetry["IndexingRate"]) :
                  Report(r, DomainCandidate(d) /\ DomainIdle(d), DomainFinding(r, d, searches, indexings))
           \/ Report(r, FALSE, None)
           \/ CallFails(TRUE)

\* Of what an endpoint needs, only missing permissions end the rule.
InspectEndpoint(r) ==
    LET e == account[r]
    IN  /\ Turn("sagemaker", r)
        /\ \/ Report(r, EndpointListed(e) /\ EndpointDescribed(e) /\ EndpointIdle(e), EndpointFinding(r, e))
           \/ Report(r, FALSE, None)
           \/ EndpointListed(e) /\ Fail("permission")

InspectGroup(r) ==
    /\ Turn("sg", r)
    /\ Report(r, GroupCandidate(account[r]) /\ index[r] = {}, GroupFinding(r, account))

InspectImage(r) ==
    LET i == account[r]
    IN  /\ Turn("ami", r)
        /\ \E launchUnknown \in BOOLEAN, found \in ActiveInstances(r) :
              LET launched == IF launchUnknown THEN None ELSE i.launched
              IN  Report(r, ImageCandidate(i) /\ ImageReported(i, launched, found),
                         ImageFinding(r, i, launched, launchUnknown, found, index[r], indexFailed))

-----------------------------------------------------------------------------
Inspect(r) ==
    \/ InspectV2(r) \/ InspectClassic(r) \/ InspectNat(r)
    \/ InspectDatabase(r) \/ InspectCluster(r) \/ InspectDomain(r) \/ InspectEndpoint(r)
    \/ InspectGroup(r) \/ InspectImage(r)

Next ==
    \/ \E r \in Resources, user \in UsersOf(rule) : Attach(r, user) \/ Detach(r, user)
    \/ ListTemplates \/ ReadTemplate \/ ReadConfigurations
    \/ List \/ ReadInterfaces \/ BuildUsage \/ ListingFails
    \/ \E r \in Resources : Inspect(r)
    \/ EndFamily

Spec == Init /\ [][Next]_vars

-----------------------------------------------------------------------------
(* Properties *)

TypeOK ==
    /\ rule \in Rules
    /\ users \in [Resources -> SUBSET UsersOf(rule)]
    /\ since \in [Resources -> SUBSET UsersOf(rule)]
    /\ \A r \in Resources : since[r] \subseteq users[r]
    /\ changes \in 0 .. MaxChanges
    /\ pc \in {"templates", "listing", "interfaces", "inspecting", "returned", "raised"}
    /\ family \in {"only", "classic"}
    /\ atListing \in [Resources -> SUBSET UsersOf(rule)]
    /\ index \in [Resources -> SUBSET UsersOf(rule)]
    /\ indexFailed \subseteq {"templates", "configurations"}
    /\ inspected \subseteq Resources
    /\ {f.resource : f \in findings} \subseteq inspected
    /\ broken \subseteq {"only", "classic"}
    /\ firstExc \in {None, "permission", "other"}
    /\ raised \in {None, "permission", "other"} /\ (raised = None) = (pc # "raised")

\* "No ENI associations found" (ec2_sg_unused.py:293), "No registered targets found"
\* (elb_idle.py:493), "No VPC route table references this NAT Gateway" (nat_gateway_idle.py:308):
\* what has been used by the same thing ever since the rule began is not said to be unused, however
\* late the rule looks and whatever it fails to read. An image is not scored as unused while an
\* instance of it runs, and a launch configuration of it lowers the confidence, unless the
\* finding says that they were not checked.
UsedThroughoutIsNotReported ==
    \A f \in findings :
        LET used == since[f.resource]
        IN  /\ rule = "sg" => used = {}
            /\ rule \in {"elb", "nat"} => used = {} \/ f.confidence = "medium"
            /\ rule = "ami" /\ ~f.detail.deprecated =>
                  /\ "instance" \in used => "instances" \in f.detail.notChecked /\ f.confidence = "low"
                  /\ used \cap Configurations # {} =>
                        \/ "configurations" \in f.detail.notChecked
                        \/ used \cap Configurations \subseteq f.detail.references /\ f.confidence = "low"

Covered(points, n) == Cardinality({points[i].at : i \in DOMAIN points}) >= n
Quiet(points) == \A i \in DOMAIN points : points[i].value \in {0, None}

\* "returned datapoints and are zero" (nat_gateway_idle.py:324), "coverage is incomplete, cannot
\* confirm zero traffic" (elb_idle.py:297), "Sum was 0 across all hourly datapoints"
\* (opensearch_idle.py:438): no metric shows any activity of what is reported, and there is
\* as much of the metric as its rule calls for; confidence is high only where every metric is there.
IdleIsProven ==
    \A f \in findings :
        LET s == account[f.resource]
        IN  CASE rule = "elb" ->
                    \A i \in DOMAIN ElbMetrics[s.family] :
                        LET points == s.telemetry[ElbMetrics[s.family][i]]
                        IN  Quiet(points) /\ (s.family = "nlb" => Covered(points, IdleDays["elb"]))
              [] rule = "nat" -> \A m \in NatMetrics : Quiet(s.telemetry[m]) /\ Covered(s.telemetry[m], 1)
              [] rule \in {"rds", "redshift"} ->
                    /\ Quiet(s.telemetry["DatabaseConnections"]) /\ Covered(s.telemetry["DatabaseConnections"], 1)
                    /\ f.confidence = "high" => \A m \in DOMAIN s.telemetry : Quiet(s.telemetry[m])
              [] rule = "opensearch" ->
                    LET points == s.telemetry["OpenSearchRequests"]
                        silent == {h \in 1 .. IdleDays["opensearch"] * HoursPerDay :
                                      \A i \in DOMAIN points : points[i].at # h}
                    IN  /\ 20 * Cardinality(silent) <= IdleDays["opensearch"] * HoursPerDay
                        /\ \A i \in DOMAIN points :
                              points[i].value \in {0, None} \/ \E j \in DOMAIN points :
                                  j > i /\ points[j].at = points[i].at /\ points[j].value \in {0, None}
                        /\ f.confidence = "high" =>
                              Quiet(s.telemetry["SearchRate"]) /\ Quiet(s.telemetry["IndexingRate"])
              [] rule = "sagemaker" ->
                    \A v \in s.variants :
                        v.named /\ {v.instances, v.concurrency} \cap {None, 0} # {v.instances, v.concurrency}
                            => Quiet(v.invocations) /\ (f.confidence = "high" => Covered(v.invocations, 1))
              [] OTHER -> TRUE

\* "if first_exc is not None: raise first_exc" (elb_idle.py:723): a rule that returns has looked at
\* everything it listed and nothing it depends on has failed, of either family of load balancers;
\* one that raises says what failed first.
SilentMeansComplete ==
    /\ pc = "returned" => broken = {} /\ inspected = Resources
    /\ pc = "raised" => broken # {} /\ raised = firstExc
=============================================================================
