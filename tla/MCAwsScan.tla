------------------------------ MODULE MCAwsScan ------------------------------
(***************************************************************************)
(* Regions of two resources: a plain finding that differs in at most       *)
(* MaxOdd attributes from one, and a plain one.                            *)
(***************************************************************************)
EXTENDS AwsScan

CONSTANTS r1, r2, t1, t2, c1, c2, e1, e2, MaxOdd

MCIdleDays == [elb |-> 2, nat |-> 2, rds |-> 2, redshift |-> 2, opensearch |-> 10,
               sagemaker |-> 2, sg |-> 0, ami |-> 3]

Distance(s, t) == Cardinality({k \in DOMAIN s : s[k] # t[k]})
Odd(plain, all) == {s \in all : Distance(s, plain) <= MaxOdd}

Point(at, value) == [at |-> at, value |-> value]
Zeros(n) == [i \in 1 .. n |-> Point(i, 0)]
Series == {<<>>, Zeros(1), Zeros(2), <<Point(1, 0), Point(2, 1)>>, <<Point(1, None), Point(2, 0)>>}
\* All quiet but for at most two metrics.
Telemetry(metrics) ==
    {t \in [metrics -> Series] : Cardinality({m \in metrics : t[m] # Zeros(2)}) <= 2}
Plain(metrics) == [m \in metrics |-> Zeros(2)]
MetricsOf(kind) == {ElbMetrics[kind][i] : i \in DOMAIN ElbMetrics[kind]}

Ages == {None, -1, 0, 2}

PlainLb(kind) ==
    [named |-> TRUE, family |-> kind, age |-> 2, state |-> "active", dimension |-> TRUE,
     users |-> {}, telemetry |-> Plain(MetricsOf(kind))]
Lbs(kind) ==
    Odd(PlainLb(kind),
        [named : BOOLEAN, family : {kind, "unsupported"}, age : Ages,
         state : {"active", "active_impaired", "failed", None}, dimension : BOOLEAN,
         users : SUBSET {"target"}, telemetry : Telemetry(MetricsOf(kind))])

PlainNat == [named |-> TRUE, state |-> "available", age |-> 2, users |-> {}, telemetry |-> Plain(NatMetrics)]
Nats == Odd(PlainNat,
            [named : BOOLEAN, state : {"available", "deleting", None}, age : Ages,
             users : SUBSET {"routeTable"}, telemetry : Telemetry(NatMetrics)])

PlainDb ==
    [named |-> TRUE, status |-> "available", age |-> 2, inCluster |-> FALSE, replica |-> FALSE,
     users |-> {}, telemetry |-> Plain({"DatabaseConnections"})]
Dbs == Odd(PlainDb,
           [named : BOOLEAN, status : {"available", "stopped"}, age : Ages, inCluster : BOOLEAN,
            replica : BOOLEAN, users : {{}}, telemetry : Telemetry({"DatabaseConnections"})])

ClusterMetrics == {"DatabaseConnections", "ReadIOPS", "WriteIOPS"}
PlainCluster ==
    [named |-> TRUE, status |-> "available", availability |-> None, age |-> 2, skewed |-> FALSE,
     nodes |-> None, users |-> {}, telemetry |-> Plain(ClusterMetrics)]
Clusters ==
    Odd(PlainCluster,
        [named : BOOLEAN, status : {"available", "paused"},
         availability : {None, "Available", "Maintenance"}, age : Ages, skewed : BOOLEAN,
         nodes : {None, 1, LargeCluster}, users : {{}}, telemetry : Telemetry(ClusterMetrics)])

\* Of 20 hours, one or two may be missing or known twice.
Hours == 20
Requests ==
    {<<>>, Zeros(Hours), Zeros(Hours - 1), Zeros(Hours - 2), Zeros(Hours - 2) \o <<Point(1, 0)>>,
     <<Point(1, 1)>> \o Zeros(Hours), Zeros(Hours) \o <<Point(1, 1)>>, Zeros(Hours - 1) \o <<Point(20, None)>>}
PlainDomain ==
    [complete |-> TRUE, status |-> "Active", created |-> TRUE, deleted |-> FALSE, account |-> TRUE,
     instances |-> 1, warm |-> FALSE, master |-> FALSE, users |-> {},
     telemetry |-> [OpenSearchRequests |-> Zeros(Hours), SearchRate |-> Zeros(1), IndexingRate |-> Zeros(1)]]
Domains ==
    Odd(PlainDomain,
        [complete : BOOLEAN, status : {"Active", "Deleting"}, created : BOOLEAN,
         deleted : BOOLEAN, account : BOOLEAN, instances : {None, 1, LargeDomain},
         warm : BOOLEAN, master : BOOLEAN, users : {{}},
         telemetry : [OpenSearchRequests : Requests, SearchRate : Series, IndexingRate : {<<>>, Zeros(1)}]])

Variant(n, named, instances, concurrency, gpu, invocations) ==
    [id |-> n, named |-> named, instances |-> instances, concurrency |-> concurrency, gpu |-> gpu,
     invocations |-> invocations]
PlainVariant == Variant(1, TRUE, 1, None, FALSE, Zeros(2))
Variants == {PlainVariant} \cup
    {Variant(2, named, instances, concurrency, gpu, invocations) :
         named \in BOOLEAN, instances \in {None, 0, 1}, concurrency \in {None, 1}, gpu \in BOOLEAN,
         invocations \in Series}
PlainEndpoint ==
    [named |-> TRUE, created |-> 2, modified |-> 2, status |-> "InService", configured |-> TRUE,
     async |-> FALSE, users |-> {}, variants |-> {PlainVariant}]
Endpoints ==
    Odd(PlainEndpoint,
        [named : BOOLEAN, created : Ages, modified : Ages, status : {"InService", "Updating"},
         configured : BOOLEAN, async : BOOLEAN, users : {{}},
         variants : {{}} \cup {{v} : v \in Variants} \cup {{PlainVariant, v} : v \in Variants}])

PlainGroup == [named |-> TRUE, default |-> FALSE, refersTo |-> {}, users |-> {}]
Groups == Odd(PlainGroup,
              [named : BOOLEAN, default : BOOLEAN, refersTo : SUBSET {r1, r2}, users : SUBSET {e1, e2}])

PlainImage ==
    [named |-> TRUE, state |-> "available", age |-> 3, deprecated |-> "none", launched |-> 3, users |-> {}]
Images == Odd(PlainImage,
              [named : BOOLEAN, state : {"available", "failed"}, age : Ages \cup {3},
               deprecated : {"none", "past", "future"}, launched : {None, 0, 2, 3},
               users : SUBSET {"instance", t1, t2, c1, c2}])

Pair(all, plain) == {[r \in {r1, r2} |-> IF r = r1 THEN s ELSE plain] : s \in all}

MCAccounts ==
    [name \in Rules |->
        CASE name = "elb" -> UNION {Pair(Lbs(f), PlainLb(IF f = "clb" THEN "nlb" ELSE "clb")) :
                                       f \in {"alb", "nlb", "clb"}}
          [] name = "nat" -> Pair(Nats, PlainNat)
          [] name = "rds" -> Pair(Dbs, PlainDb)
          [] name = "redshift" -> Pair(Clusters, PlainCluster)
          [] name = "opensearch" -> Pair(Domains, PlainDomain)
          [] name = "sagemaker" -> Pair(Endpoints, PlainEndpoint)
          [] name = "sg" -> Pair(Groups, PlainGroup)
          [] name = "ami" -> Pair(Images, PlainImage)]
=============================================================================
