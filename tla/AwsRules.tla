------------------------------- MODULE AwsRules -------------------------------
(***************************************************************************)
(* What eight rules of providers/aws/rules make of a resource: whether it  *)
(* is a candidate, what CloudWatch says of it, and what its finding says.  *)
(*                                                                         *)
(* Ages are whole days: -1 is in the future and never old enough, None is  *)
(* missing or unusable. A metric is a sequence of points [at, value]:      *)
(* value is None where the statistic is missing, and never negative.       *)
(***************************************************************************)
EXTENDS Integers, Sequences, FiniteSets

CONSTANTS
    None,
    IdleDays,            \* rule -> its threshold
    HoursPerDay,         \* 24
    RecentlyActiveDays,  \* _RECENTLY_ACTIVE_DAYS
    LargeCluster,        \* nodes of a Redshift cluster of high risk, 4
    LargeDomain          \* instances of an OpenSearch domain of high risk, 3

OldEnough(rule, age) == age # None /\ age >= IdleDays[rule]

NoData(points) == points = <<>>
Active(points) == \E i \in DOMAIN points : points[i].value # None /\ points[i].value > 0

\* A best-effort metric: known, and zero.
KnownZero(points) == points # None /\ ~NoData(points) /\ ~Active(points)

Finding(r, risk, confidence, detail) ==
    [resource |-> r, risk |-> risk, confidence |-> confidence, detail |-> detail]

-----------------------------------------------------------------------------
(* Load balancers *)

ElbMetrics ==
    [alb |-> <<"RequestCount", "ProcessedBytes", "ActiveConnectionCount">>,
     nlb |-> <<"NewFlowCount", "ProcessedBytes", "ActiveFlowCount">>,
     clb |-> <<"RequestCount", "EstimatedProcessedBytes">>]

ElbV2Candidate(lb) ==
    /\ lb.named /\ lb.family \in {"alb", "nlb"}
    /\ OldEnough("elb", lb.age)
    /\ lb.state \in {"active", "active_impaired"}
    /\ lb.dimension
ElbClassicCandidate(lb) == lb.named /\ lb.family = "clb" /\ OldEnough("elb", lb.age)

\* Only a network load balancer must have a point for every day.
Incomplete(lb, points) == lb.family = "nlb" /\ Len(points) < IdleDays["elb"]

\* Mutant: as for the other families, no point is no traffic.
ElbTrafficOfAny(lb) ==
    IF \E i \in DOMAIN ElbMetrics[lb.family] : Active(lb.telemetry[ElbMetrics[lb.family][i]])
    THEN "active" ELSE "idle"

\* _check_alb_traffic, _check_nlb_traffic, _check_clb_traffic: the first metric that decides.
ElbTraffic(lb) ==
    LET points(i) == lb.telemetry[ElbMetrics[lb.family][i]]
        decides == {i \in DOMAIN ElbMetrics[lb.family] : Incomplete(lb, points(i)) \/ Active(points(i))}
        first == CHOOSE i \in decides : \A j \in decides : i <= j
    IN  IF decides = {} THEN "idle"
        ELSE IF Incomplete(lb, points(first)) THEN "incomplete" ELSE "active"

\* targets is None where they could not be read.
ElbFinding(r, lb, targets) ==
    Finding(r, "medium", IF targets = {} THEN "high" ELSE "medium", [family |-> lb.family])

-----------------------------------------------------------------------------
(* NAT gateways *)

NatMetrics == {"BytesOutToDestination", "BytesInFromSource", "BytesInFromDestination",
               "BytesOutToSource", "ActiveConnectionCount"}

NatCandidate(gw) ==
    gw.named /\ gw.state = "available" /\ OldEnough("nat", gw.age)
NatIdle(gw) == \A m \in NatMetrics : KnownZero(gw.telemetry[m])
NatFinding(r, routeTables) ==
    Finding(r, "medium", IF routeTables = {} THEN "high" ELSE "medium", [referenced |-> routeTables # {}])

-----------------------------------------------------------------------------
(* Databases and clusters *)

RdsCandidate(db) ==
    /\ db.named /\ db.status = "available"
    /\ OldEnough("rds", db.age)
    /\ ~db.inCluster /\ ~db.replica
RdsIdle(db) == KnownZero(db.telemetry["DatabaseConnections"])
RdsFinding(r) == Finding(r, "medium", "medium", [standalone |-> TRUE])

\* A creation less than five minutes ahead is of today.
RedshiftAge(c) == IF c.age = -1 THEN (IF c.skewed THEN 0 ELSE None) ELSE c.age
RedshiftCandidate(c) ==
    /\ c.named /\ c.status = "available"
    /\ c.availability \notin {"Unavailable", "Maintenance", "Failed"}
    /\ OldEnough("redshift", RedshiftAge(c))
RedshiftIdle(c) == KnownZero(c.telemetry["DatabaseConnections"])
RedshiftFinding(r, c, reads, writes) ==
    Finding(r, IF c.nodes # None /\ c.nodes >= LargeCluster THEN "high" ELSE "medium",
            IF KnownZero(reads) /\ KnownZero(writes) THEN "high" ELSE "medium", [nodes |-> c.nodes])

-----------------------------------------------------------------------------
(* OpenSearch domains *)

DomainCandidate(d) ==
    /\ d.complete
    /\ d.status = "Active" /\ d.created = TRUE /\ d.deleted # TRUE
    /\ d.account

\* Hours are counted once, with their last value.
LastOf(points, hour) == CHOOSE i \in DOMAIN points :
    points[i].at = hour /\ \A j \in DOMAIN points : points[j].at = hour => j <= i
Hourly(points) == {points[LastOf(points, hour)] : hour \in {points[i].at : i \in DOMAIN points}}
DomainIdle(d) ==
    LET hours == Hourly(d.telemetry["OpenSearchRequests"])
        expected == IdleDays["opensearch"] * HoursPerDay
    IN  /\ hours # {} /\ expected > 0
        /\ 100 * Cardinality(hours) >= 95 * expected
        /\ \A p \in hours : p.value \in {0, None}
DomainFinding(r, d, searches, indexings) ==
    Finding(r, IF (d.instances # None /\ d.instances >= LargeDomain) \/ d.warm \/ d.master
               THEN "high" ELSE "medium",
            IF KnownZero(searches) /\ KnownZero(indexings) THEN "high" ELSE "medium",
            [instances |-> d.instances])

-----------------------------------------------------------------------------
(* SageMaker endpoints *)

\* _choose_period, in seconds: CloudWatch refuses to answer with more than 1440 points.
Ceil(n, d) == (n + d - 1) \div d
Granularity(days) == IF days <= 15 THEN 60 ELSE IF days <= 63 THEN 300 ELSE 3600
SecondsPerDay == 86400
MaxPoints == 1440
ChoosePeriod(days) ==
    Ceil(Ceil(days * SecondsPerDay, MaxPoints), Granularity(days)) * Granularity(days)

\* Of the listing: the later of creation and last change.
EndpointAge(e) ==
    IF None \in {e.created, e.modified} THEN None
    ELSE IF e.created <= e.modified THEN e.created ELSE e.modified
EndpointListed(e) ==
    e.named /\ OldEnough("sagemaker", EndpointAge(e))

\* Of the descriptions of the endpoint and its configuration.
Positive(number) == number # None /\ number > 0
Billable(e) == {v \in e.variants : v.named /\ (Positive(v.instances) \/ Positive(v.concurrency))}
EndpointDescribed(e) == e.status = "InService" /\ e.configured /\ ~e.async /\ Billable(e) # {}

EndpointIdle(e) == \A v \in Billable(e) : ~Active(v.invocations)
EndpointFinding(r, e) ==
    Finding(r, IF \E v \in Billable(e) : v.gpu THEN "high" ELSE "medium",
            IF \E v \in Billable(e) : NoData(v.invocations) THEN "medium" ELSE "high",
            [instances |-> {v \in Billable(e) : Positive(v.instances)} # {},
             serverless |-> {v \in Billable(e) : Positive(v.concurrency)} # {}])

-----------------------------------------------------------------------------
(* Security groups *)

\* A group without an id is passed over, with its rules.
Referenced(groups) == UNION {groups[g].refersTo : g \in {h \in DOMAIN groups : groups[h].named}}

GroupCandidate(g) == g.named /\ ~g.default
GroupFinding(r, groups) == Finding(r, "low", "medium", [referenced |-> r \in Referenced(groups)])

-----------------------------------------------------------------------------
(* Images *)

ImageCandidate(i) == i.named /\ i.state = "available" /\ i.age # None

\* DeprecationTime is past; one that does not parse is none.
Deprecated(i) == i.deprecated = "past"

\* launched: days since the last launch, None if it is not known.
Stale(launched) == launched # None /\ launched >= IdleDays["ami"]
Score(i, launched) ==
    (IF OldEnough("ami", i.age) THEN 1 ELSE 0) + (IF Stale(launched) THEN 1 ELSE 0)

\* found: of the instance check, None if it failed.
ScoredCandidate(i, launched, found) ==
    /\ launched # None => launched >= RecentlyActiveDays
    /\ found # TRUE
    /\ Score(i, launched) > 0
    /\ found = None => Score(i, launched) > 1

ImageReported(i, launched, found) == Deprecated(i) \/ ScoredCandidate(i, launched, found)

ImageConfidence(i, launched, found, references) ==
    IF Deprecated(i) THEN "high"
    ELSE IF Score(i, launched) = 2 /\ references = {} /\ found # None THEN "medium" ELSE "low"
ImageRisk(i, launched, found) ==
    IF Deprecated(i) THEN (IF found = TRUE THEN "high" ELSE "medium")
    ELSE IF Score(i, launched) = 2 THEN "medium" ELSE "low"

\* _build_evidence: what was seen of its users, and signals_not_checked.
ImageFinding(r, i, launched, launchUnknown, found, references, indexFailed) ==
    Finding(r, ImageRisk(i, launched, found), ImageConfidence(i, launched, found, references),
            [deprecated |-> Deprecated(i),
             instances |-> found, references |-> references,
             notChecked |-> indexFailed
                            \cup (IF launchUnknown THEN {"launches"} ELSE {})
                            \cup (IF found = None THEN {"instances"} ELSE {})])
=============================================================================
