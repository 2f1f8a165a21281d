----------------------------- MODULE MCVertexScan -----------------------------
(***************************************************************************)
(* Projects of two resources. The first is a plain finding that differs in *)
(* at most MaxOdd attributes from one; the second is plain, elsewhere or   *)
(* not.                                                                    *)
(***************************************************************************)
EXTENDS VertexScan

CONSTANTS r1, r2, MaxOdd

MCLocationList == <<"a", "b">>
MCIdleDays == [featurestore |-> 2, endpoint |-> 4, training |-> 1, tpu |-> 2, workbench |-> 1]
MCRegionOf == [l \in {"a", "b", "x"} |-> IF l = "x" THEN "a" ELSE l]

Distance(s, t) == Cardinality({k \in DOMAIN s : s[k] # t[k]})
Odd(plain, all) == {s \in all : Distance(s, plain) <= MaxOdd}

Times == {0, 3, Now, Now + 1, None}
Places == {"a", "b", "x"}

Model(resources, min, created, accelerator) ==
    [resources |-> resources, min |-> min, created |-> created, accelerator |-> accelerator]
Floor == Model("dedicated", 1, 0, TRUE)
Models == {Floor, Model("automatic", 2, 1, FALSE), Model("automatic", 1, 3, FALSE),
           Model("dedicated", 0, 3, FALSE), Model("dedicated", None, 0, FALSE),
           Model("shared", None, 3, FALSE), Model(None, None, 0, FALSE),
           Model("dedicated", 1, Now + 1, FALSE)}

Pool(parses, accelerator, count, bundled) ==
    [parses |-> parses, accelerator |-> accelerator, count |-> count, bundled |-> bundled]
Pools == {Pool(TRUE, TRUE, 1, FALSE), Pool(TRUE, TRUE, 0, FALSE), Pool(TRUE, FALSE, 0, TRUE),
          Pool(FALSE, TRUE, 1, FALSE)}

PlainOf(c) ==
    CASE c = "featurestores" ->
             [collection |-> c, location |-> "a", stable |-> TRUE, created |-> 0, updated |-> 0,
              fixed |-> 1, scaling |-> 0]
      [] c = "featureOnlineStores" ->
             [collection |-> c, location |-> "a", stable |-> TRUE, created |-> 0, updated |-> 0,
              bigtable |-> TRUE, optimized |-> FALSE, min |-> 1, max |-> 1]
      [] c = "endpoints" ->
             [collection |-> c, location |-> "a", created |-> 0, models |-> {Floor}]
      [] c \in {"customJobs", "trainingPipelines"} ->
             [collection |-> c, location |-> "a", named |-> TRUE, running |-> TRUE,
              elapsed |-> LongHours, pools |-> {}]
      [] c = "nodes" ->
             [collection |-> c, location |-> "a", ready |-> TRUE, created |-> 0, standalone |-> TRUE]
      [] c = "instances" -> [collection |-> c, location |-> "a", named |-> TRUE, active |-> TRUE]

Kinds(c) ==
    CASE c = "featurestores" ->
             [collection : {c}, location : Places, stable : BOOLEAN, created : Times,
              updated : Times, fixed : {0, 1, None}, scaling : {0, 1, None}]
      [] c = "featureOnlineStores" ->
             [collection : {c}, location : Places, stable : BOOLEAN, created : Times,
              updated : Times, bigtable : BOOLEAN, optimized : BOOLEAN, min : {0, 1, 2, None},
              max : {0, 1, None}]
      [] c = "endpoints" ->
             [collection : {c}, location : Places, created : Times,
              models : {ms \in SUBSET Models : Cardinality(ms) <= 2}]
      [] c \in {"customJobs", "trainingPipelines"} ->
             [collection : {c}, location : Places, named : BOOLEAN, running : BOOLEAN,
              elapsed : {None, -1, 0, LongHours, 3 * LongHours},
              pools : {ps \in SUBSET Pools : Cardinality(ps) <= 2}]
      [] c = "nodes" ->
             [collection : {c}, location : Places, ready : BOOLEAN, created : Times,
              standalone : BOOLEAN]
      [] c = "instances" ->
             [collection : {c}, location : Places, named : BOOLEAN, active : BOOLEAN]

Siblings(c) ==
    CASE c = "featurestores" -> {"featurestores", "featureOnlineStores"}
      [] c = "trainingPipelines" -> {"trainingPipelines", "customJobs"}
      [] OTHER -> {c}

MCProjects ==
    UNION {UNION {{[r \in {r1, r2} |-> IF r = r1 THEN s ELSE [PlainOf(d) EXCEPT !.location = place]] :
                      s \in Odd(PlainOf(c), Kinds(c)), place \in {"a", "b", "x"}} :
                  d \in Siblings(c)} :
           c \in Collections}

Point(end, value) == [end |-> end, value |-> value]
Buckets == {Point(e, v) : e \in 0 .. 2, v \in {0, 1, None}}
MCStoreAnswers ==
    {[series |-> 1, delta |-> TRUE, points |-> <<p, q>>] : p, q \in Buckets}
    \cup {[series |-> n, delta |-> d, points |-> ps] :
             n \in 0 .. 2, d \in BOOLEAN,
             ps \in {<<>>, <<Point(1, 0)>>, <<Point(2, 0), Point(1, 0)>>,
                     <<Point(1, 0), Point(2, 0), Point(2, 0)>>}}

MCEndpointAnswers ==
    {ps \in SUBSET [at : {0, 2, 3, 5}, value : {0, 1, None}] : Cardinality(ps) <= 2}
=============================================================================
