------------------------------ MODULE AppGateway ------------------------------
(***************************************************************************)
(* azure/rules/app_gateway_no_backends.py: which backend pools of a gateway *)
(* its active routing rules lead to, and what the rule says about them.    *)
(*                                                                         *)
(* A reference is an id, None where the field is not there, or Broken      *)
(* where it is but has no id. An object that has neither an id nor a name  *)
(* has None for its id. Names of objects in a list default to their place. *)
(***************************************************************************)
EXTENDS AzureViews, Sequences

Usable(ref) == ref \notin {None, Broken}

\* _build_pool_lookup and its like: a later entry replaces an earlier one.
LastById(objects) ==
    LET ids == {objects[i].id : i \in DOMAIN objects} \ {None}
    IN  [id \in ids |-> objects[CHOOSE i \in DOMAIN objects :
                                    /\ objects[i].id = id
                                    /\ \A j \in DOMAIN objects : objects[j].id = id => j <= i]]

Pools(g) == LastById(g.pools)
PathMaps(g) == LastById(g.maps)
Policies(g) == LastById(g.policies)

\* Both collections of rules, an earlier entry staying.
TopRules(g) ==
    LET rules == g.requestRules \o g.routingRules
        ids == {rules[i].id : i \in DOMAIN rules} \ {None}
    IN  [id \in ids |-> rules[CHOOSE i \in DOMAIN rules :
                                  /\ rules[i].id = id
                                  /\ \A j \in DOMAIN rules : rules[j].id = id => i <= j]]

KeyOf(objects, i) == IF objects[i].name # None THEN <<objects[i].name>> ELSE <<"index", i>>

Route(rule, hops, pool) == [rule |-> rule, hops |-> hops, pool |-> pool]
Note(kind, object, parent) == [kind |-> kind, object |-> object, parent |-> parent]

\* Routes through a reference to a pool, and what is noted of it.
PoolRoutes(g, rule, hops, ref) ==
    IF Usable(ref) /\ ref \in DOMAIN Pools(g) THEN {Route(rule, hops, ref)} ELSE {}
PoolNotes(g, ref, parent) ==
    IF ref = Broken THEN {Note("malformed_object", None, parent)}
    ELSE IF ref # None /\ ref \notin DOMAIN Pools(g) THEN {Note("unresolved_reference", ref, parent)}
    ELSE {}

\* _traverse_load_distribution_policy. A target must have a pool.
PolicyTargets(g, ref) ==
    IF Usable(ref) /\ ref \in DOMAIN Policies(g) THEN Policies(g)[ref].targets ELSE <<>>
PolicyRoutes(g, rule, hops, ref) ==
    LET targets == PolicyTargets(g, ref)
    IN  UNION {PoolRoutes(g, rule, hops \o <<ref>> \o KeyOf(targets, i), targets[i].pool) :
                  i \in DOMAIN targets}
PolicyNotes(g, rule, ref) ==
    LET targets == PolicyTargets(g, ref)
    IN  (UNION {IF targets[i].pool = None THEN {Note("malformed_object", None, ref)}
                ELSE PoolNotes(g, targets[i].pool, ref) : i \in DOMAIN targets})
        \cup (IF Usable(ref) /\ ref \notin DOMAIN Policies(g)
              THEN {Note("unresolved_reference", ref, rule)} ELSE {})

\* Mutant: a path map's default is all it has.
PathMapRoutesDefault(g, rule, ref) ==
    IF Usable(ref) /\ ref \in DOMAIN PathMaps(g)
    THEN PoolRoutes(g, rule, <<ref, "default">>, PathMaps(g)[ref].pool) ELSE {}

\* _traverse_url_path_map
PathMapRoutes(g, rule, ref) ==
    IF ~Usable(ref) \/ ref \notin DOMAIN PathMaps(g) THEN {}
    ELSE LET map == PathMaps(g)[ref]
             paths == map.rules
         IN  PoolRoutes(g, rule, <<ref, "default">>, map.pool)
             \cup PolicyRoutes(g, rule, <<ref, "default">>, map.policy)
             \cup UNION {PoolRoutes(g, rule, <<ref>> \o KeyOf(paths, i), paths[i].pool)
                         \cup PolicyRoutes(g, rule, <<ref>> \o KeyOf(paths, i), paths[i].policy) :
                            i \in DOMAIN paths}
PathMapNotes(g, rule, ref) ==
    IF ref \notin DOMAIN PathMaps(g) THEN {Note("unresolved_reference", ref, rule)}
    ELSE LET map == PathMaps(g)[ref]
             paths == map.rules
         IN  PoolNotes(g, map.pool, IF map.pool = Broken THEN rule ELSE ref)
             \cup PolicyNotes(g, rule, map.policy)
             \cup UNION {PoolNotes(g, paths[i].pool, ref) \cup PolicyNotes(g, rule, paths[i].policy) :
                            i \in DOMAIN paths}

\* A redirect, and no way to a pool: what is malformed counts as not there.
RedirectOnly(rule) ==
    /\ rule.redirect # None
    /\ ~Usable(rule.pool) /\ ~Usable(rule.map) /\ ~Usable(rule.policy)

\* _traverse_gateway, for one rule. A path map makes a rule path-based whatever it is.
RuleRoutes(g, id) ==
    LET rule == TopRules(g)[id]
    IN  IF RedirectOnly(rule) THEN {}
        ELSE PoolRoutes(g, id, <<"direct">>, rule.pool)
             \cup PolicyRoutes(g, id, <<>>, rule.policy)
             \cup PathMapRoutes(g, id, rule.map)

RuleNotes(g, id) ==
    LET rule == TopRules(g)[id]
    IN  (IF Broken \in {rule.map, rule.redirect, rule.policy}
         THEN {Note("malformed_object", None, id)} ELSE {})
        \cup (IF Usable(rule.map) /\ ~rule.pathBased
              THEN {Note("unsupported_inconsistent_rule_shape", id, None)} ELSE {})
        \cup PoolNotes(g, rule.pool, id)
        \cup PolicyNotes(g, id, rule.policy)
        \cup (IF Usable(rule.map) THEN PathMapNotes(g, id, rule.map) ELSE {})

Routes(g) == UNION {RuleRoutes(g, id) : id \in DOMAIN TopRules(g)}

\* _build_snc: the notes of the rules that lead to the pool. Those of the gateway itself
\* never name a pool, and are left out.
SignalsNotChecked(g, pool) ==
    UNION {RuleNotes(g, route.rule) : route \in {x \in Routes(g) : x.pool = pool}}

\* One finding for each pool that is led to and has no targets.
GatewayFindings(r, g) ==
    {[resource |-> r, risk |-> "medium", confidence |-> "high", detail |->
         [pool |-> pool, routes |-> {x \in Routes(g) : x.pool = pool},
          notChecked |-> SignalsNotChecked(g, pool)]] :
        pool \in {p \in DOMAIN Pools(g) : /\ \E x \in Routes(g) : x.pool = p
                                          /\ Pools(g)[p].targets = 0}}

-----------------------------------------------------------------------------
(* What a gateway leads to, for reference: the pools at the end of a path of *)
(* references that begins at a rule.                                        *)

MapRefs(map, field) == {map[field]} \cup {map.rules[i][field] : i \in DOMAIN map.rules}
TargetRefs(policy) == {policy.targets[i].pool : i \in DOMAIN policy.targets}

RuleEdges(rules) == UNION {{<<id, rules[id][field]>> : field \in {"pool", "map", "policy"}} : id \in DOMAIN rules}
MapEdges(maps) ==
    UNION {{<<id, ref>> : ref \in MapRefs(maps[id], "pool") \cup MapRefs(maps[id], "policy")} : id \in DOMAIN maps}
PolicyEdges(policies) == UNION {{<<id, ref>> : ref \in TargetRefs(policies[id])} : id \in DOMAIN policies}
Edges(g) == RuleEdges(TopRules(g)) \cup MapEdges(PathMaps(g)) \cup PolicyEdges(Policies(g))

\* The ids of path maps, policies and pools, and the references to them.
MapIds(g) == DOMAIN PathMaps(g) \cup {TopRules(g)[id].map : id \in DOMAIN TopRules(g)}
PolicyIds(g) ==
    DOMAIN Policies(g) \cup {TopRules(g)[id].policy : id \in DOMAIN TopRules(g)}
    \cup UNION {MapRefs(PathMaps(g)[id], "policy") : id \in DOMAIN PathMaps(g)}
PoolIds(g) ==
    DOMAIN Pools(g) \cup {TopRules(g)[id].pool : id \in DOMAIN TopRules(g)}
    \cup (UNION {MapRefs(PathMaps(g)[id], "pool") : id \in DOMAIN PathMaps(g)})
    \cup UNION {TargetRefs(Policies(g)[id]) : id \in DOMAIN Policies(g)}

\* None of them is one of another kind: they have the kind in them, those made up from a
\* name too.
IdsTellKinds(g) ==
    /\ Broken \notin DOMAIN TopRules(g) \cup DOMAIN PathMaps(g) \cup DOMAIN Policies(g) \cup DOMAIN Pools(g)
    /\ DOMAIN TopRules(g) \cap (MapIds(g) \cup PolicyIds(g) \cup PoolIds(g)) = {}
    /\ MapIds(g) \cap PolicyIds(g) \subseteq {None, Broken}
    /\ MapIds(g) \cap PoolIds(g) \subseteq {None, Broken}
    /\ PolicyIds(g) \cap PoolIds(g) \subseteq {None, Broken}

Step(edges, nodes) == nodes \cup {e[2] : e \in {d \in edges : d[1] \in nodes}}
Reached(g, rules) ==
    LET one == Step(Edges(g), rules)
        two == Step(Edges(g), one)
    IN  Step(Edges(g), two)

EmptyPoolsLedTo(g) ==
    LET active == {id \in DOMAIN TopRules(g) : ~RedirectOnly(TopRules(g)[id])}
    IN  {p \in DOMAIN Pools(g) \cap Reached(g, active) : Pools(g)[p].targets = 0}

LeadNowhere(g, rule) ==
    Reached(g, {rule})
        \ ({None, Broken, rule} \cup DOMAIN Pools(g) \cup DOMAIN PathMaps(g) \cup DOMAIN Policies(g))
=============================================================================
