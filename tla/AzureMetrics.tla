----------------------------- MODULE AzureMetrics -----------------------------
(***************************************************************************)
(* How the rules of providers/azure/rules read Azure Monitor. What it       *)
(* answers about a metric is a set of points: a time, or None if it is      *)
(* missing or no time; a value, None if it is missing, or Junk if it is no  *)
(* number; and whether the series is that of the resource. An answer that  *)
(* has no list of metrics is None, and one without the metric Absent.      *)
(***************************************************************************)
EXTENDS AzureViews

Numbers(points) == {p \in points : p.value \notin {None, Junk}}
Used(points, times) == {p \in Numbers(points) : p.at \in times}
Times(points) == {p.at : p \in points}
Days(points) == {Day(p.at) : p \in points}

\* At least percent of the expected buckets, and one of them.
Covers(buckets, percent, expected) ==
    buckets # {} /\ 100 * Cardinality(buckets) >= percent * expected

Outcome(points, covered) ==
    IF ~covered THEN "UNKNOWN"
    ELSE IF \E p \in points : p.value > 0 THEN "ACTIVE" ELSE "ZERO"

\* Days from the one the window begins in up to now, its parts included.
DaysUpToNow(rule) ==
    ((Now - TicksPerDay * Day(WindowStart(rule))) + TicksPerDay - 1) \div TicksPerDay

\* vnet_gateway_idle: a point without a time makes the metric unknown.
VnetMetric(points) ==
    LET used == Used(points, InWindow("vnet_gateway"))
    IN  IF points = None \/ \E p \in points : p.at = None THEN "UNKNOWN"
        ELSE Outcome(used, Covers(Days(used), 80, DaysUpToNow("vnet_gateway")))

\* ai_search_idle: so does a value that is no number.
SearchMetric(points) ==
    LET used == Used(points, InWindow("ai_search"))
    IN  IF points = None \/ \E p \in points : p.at = None \/ p.value = Junk THEN "UNKNOWN"
        ELSE Outcome(used, Covers(Days(used), 95, DaysUpToNow("ai_search")))

\* Mutant: series of other clusters count.
ClusterMetricAny(points) ==
    LET midnight == TicksPerDay * Day(Now)
        used == Used(points, WindowStart("aml_compute") .. midnight - 1)
    IN  IF points = None THEN "UNKNOWN"
        ELSE Outcome(used, Covers(Days(used), 95, Day(Now) - Day(WindowStart("aml_compute"))))

\* aml_compute_idle: of the series of the cluster, up to the last midnight.
ClusterMetric(points) ==
    LET midnight == TicksPerDay * Day(Now)
        own == {p \in points : p.scoped}
        used == Used(own, WindowStart("aml_compute") .. midnight - 1)
    IN  IF points = None \/ \E p \in own : p.at = None \/ p.value = Junk THEN "UNKNOWN"
        ELSE Outcome(used, Covers(Days(used), 95, Day(Now) - Day(WindowStart("aml_compute"))))

\* ml_online_endpoint_idle: a bucket for each tick, and the first request decides.
EndpointCoverage(points) ==
    LET used == Used(points, InWindow("ml_endpoint"))
    IN  Covers(Times(used), 80, TicksPerDay * EffectiveIdleDays("ml_endpoint"))
EndpointMetric(points) ==
    IF points = None THEN "UNKNOWN"
    ELSE Outcome(Used(points, InWindow("ml_endpoint")), EndpointCoverage(points))

\* openai_provisioned_idle: the points of a tick add up.
OpenAiMetric(points) ==
    LET used == Used(points, InWindow("openai"))
    IN  IF points = None THEN "UNKNOWN"
        ELSE Outcome(used, Covers(Times(used), 80, TicksPerDay * EffectiveIdleDays("openai")))

\* HIGH confidence of the last two.
HighCoverage(rule, points) ==
    Covers(Times(Used(points, InWindow(rule))), 95, TicksPerDay * EffectiveIdleDays(rule))

\* sql_database_idle: points without a value are as good as zeros.
SqlMetric(points) ==
    IF points \in {None, Absent, {}} THEN "UNKNOWN"
    ELSE Outcome(Numbers(points), TRUE)

\* app_service_idle: so is a metric without points.
AppMetric(points) ==
    IF points = None THEN "UNKNOWN"
    ELSE Outcome(IF points = Absent THEN {} ELSE Numbers(points), TRUE)

\* container_registry_unused: one answer, with a bucket for each tick.
RegistryAnswer(points) ==
    LET used == Used(points, InWindow("registry"))
    IN  IF points = None THEN "UNKNOWN"
        ELSE Outcome(used, Covers(Times(used), 80, TicksPerDay * EffectiveIdleDays("registry")))

\* _evaluate_metric: of up to three answers the first that covers enough, or None.
RegistryMetric(answers) ==
    LET known == {i \in DOMAIN answers : RegistryAnswer(answers[i]) # "UNKNOWN"}
    IN  IF known = {} THEN None ELSE answers[CHOOSE i \in known : \A j \in known : i <= j]
=============================================================================
