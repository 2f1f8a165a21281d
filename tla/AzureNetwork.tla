----------------------------- MODULE AzureNetwork -----------------------------
(***************************************************************************)
(* lb_no_backends, public_ip_unused, app_service_plan_empty,               *)
(* unattached_managed_disks, vm_stopped_not_deallocated and the            *)
(* configuration gates of vnet_gateway_idle, each on one resource.         *)
(***************************************************************************)
EXTENDS AzureViews

MinUnattachedDays == 7

-----------------------------------------------------------------------------
(* Load balancers *)

LbState(lb) == Either(lb.state)
BillableRules(lb) == OrEmpty(Either(lb.balancing)) \cup OrEmpty(Either(lb.outbound))
BackendPools(lb) == Either(lb.pools)

\* A rule names one pool, some, or both.
PoolRefs(rule) == ({Either(rule.single)} \ {None}) \cup OrEmpty(Either(rule.multi))

\* By network interface or by address; null is none.
HasMembers(pool) == Either(pool.nics) \notin {None, 0} \/ Either(pool.addresses) \notin {None, 0}

\* _collect_referenced_pool_ids: None if a rule refers to what cannot be told.
ReferencedPools(lb) ==
    IF \E rule \in BillableRules(lb) : PoolRefs(rule) = {} \/ Broken \in PoolRefs(rule) THEN None
    ELSE UNION {PoolRefs(rule) : rule \in BillableRules(lb)}

LbCandidate(lb) ==
    LET refs == ReferencedPools(lb)
        pools == BackendPools(lb)
    IN  /\ LbState(lb) = "Succeeded" /\ lb.standard
        /\ BillableRules(lb) # {}
        /\ refs # None /\ refs \subseteq DOMAIN pools
        /\ \A id \in refs : ~HasMembers(pools[id])

LbFinding(r, lb) == Finding(r, "low", "high", [relevant |-> Cardinality(ReferencedPools(lb))])

-----------------------------------------------------------------------------
(* Public addresses and plans *)

PublicIpState(ip) == Either(ip.state)

\* One of four links, with an id or without: then the attachment cannot be told.
Linked(ip) == \E link \in DOMAIN ip.links : Either(ip.links[link]) # None

\* A dynamic address that none was given is a placeholder.
Placeholder(ip) == Either(ip.allocation) = "Dynamic" /\ Either(ip.address) = None

PublicIpCandidate(ip) == PublicIpState(ip) = "Succeeded" /\ ~Linked(ip) /\ ~Placeholder(ip)
PublicIpFinding(r, ip) == Finding(r, "low", "high", [address |-> Either(ip.address)])

\* Before its apps are listed: a number of sites that is not known is not trusted.
PlanCandidate(plan) ==
    plan.state = "Succeeded" /\ plan.paid /\ (plan.sites = None \/ plan.sites <= 0)

\* The cost is a tier's price for each instance.
PlanFinding(r, plan) ==
    Finding(r, "low", "high",
            [priced |-> plan.capacity # None /\ plan.capacity > 0, reportedEmpty |-> plan.sites = 0])

-----------------------------------------------------------------------------
(* Disks and machines *)

DiskState(d) == IF Agreed(d.provisioning) = "Succeeded" THEN Agreed(d.state) ELSE None

\* _resolve_managed_by, with Absent if the owner cannot be told. An empty id is none.
ManagedBy(d) ==
    LET known == {d.managedBy[1], d.managedBy[2]} \ {Absent}
        owners == {IF o = "" THEN None ELSE o : o \in known}
    IN  IF Cardinality(owners) = 1 THEN CHOOSE o \in owners : TRUE ELSE Absent

\* _resolve_managed_by_extended, as the number of owners; Broken is no list.
ManagedByExtended(d) ==
    LET known == {d.managedByExtended[1], d.managedByExtended[2]} \ {Absent}
        counts == {IF n = None THEN 0 ELSE n : n \in known}
    IN  IF counts = {} \/ Broken \in counts \/ (0 \in counts /\ counts # {0}) THEN Absent
        ELSE CHOOSE n \in counts : TRUE

\* A value that is no number, or no boolean, makes the field unknown.
MaxShares(d) == IF Broken \in {d.maxShares[1], d.maxShares[2]} THEN None ELSE Agreed(d.maxShares)
FrequentAttach(d) ==
    IF Broken \in {d.frequentAttach[1], d.frequentAttach[2]} THEN None ELSE Agreed(d.frequentAttach)

\* _resolve_age_anchor: the last change of ownership, or the creation if there is none.
AgeAnchor(d) ==
    LET anchor == IF Either(d.ownership) # None THEN Either(d.ownership) ELSE Either(d.created)
    IN  IF anchor = Broken THEN None ELSE anchor

DiskCandidate(d) ==
    /\ DiskState(d) = "Unattached"
    /\ ManagedBy(d) = None
    /\ ManagedByExtended(d) = 0
    /\ MaxShares(d) # None /\ MaxShares(d) <= 1
    /\ FrequentAttach(d) = "no"
    /\ Past(AgeAnchor(d)) /\ Now - AgeAnchor(d) >= MinUnattachedDays * TicksPerDay
DiskFinding(r, d) ==
    Finding(r, "low", "medium",
            [anchor |-> IF Either(d.ownership) # None THEN "ownership" ELSE "created"])

VmState(vm) == Agreed(vm.state)

\* The codes of the instance view that are power states.
PowerState(codes) == IF Cardinality(codes) = 1 THEN CHOOSE c \in codes : TRUE ELSE None
VmFinding(r, vm) == Finding(r, "high", "high", [powerState |-> PowerState(vm.power)])

-----------------------------------------------------------------------------
(* Virtual network gateways *)

GatewayState(gw) == Agreed(gw.state)
GatewayType(gw) == Agreed(gw.type)
ConnectionType(c) == Agreed(c.type)

\* _resolve_express_route_bypass: what is there must be a boolean, null is none.
Bypass(c) ==
    LET known == {c.bypass[1], c.bypass[2]} \ {Absent}
    IN  IF Cardinality(known) = 1 THEN CHOOSE b \in known : TRUE ELSE None

InScopeTypes == {"IPsec", "Vnet2Vnet", "ExpressRoute"}

\* Mutant: null is taken for no connection type.
UnconnectedNull(gw, type) ==
    \A c \in gw.connections :
        /\ Either(c.type) \notin InScopeTypes
        /\ type = "ExpressRoute" => Bypass(c) = "no"

\* _connections_gate: of no known kind that carries traffic, nor a bypass of the gateway.
Unconnected(gw, type) ==
    \A c \in gw.connections :
        /\ ConnectionType(c) \notin {None} \cup InScopeTypes
        /\ type = "ExpressRoute" => Bypass(c) = "no"

\* _resolve_p2s_configured: "mixed" is a configuration whose spellings differ.
PointToSite(gw) ==
    LET flat == gw.p2s[1]
        nested == gw.p2s[2]
        config == IF flat # Absent THEN flat ELSE nested
    IN  IF config = Absent THEN None
        ELSE IF Absent \notin {flat, nested} /\ (flat = None) # (nested = None) THEN None
        ELSE IF config \in {None, "empty"} THEN "no"
        ELSE IF config = "mixed" THEN None ELSE "yes"

VirtualWan(gw) == "yes" \in {gw.wan[1], gw.wan[2]}

\* _gateway_admin_state_disabled
AdminState(gw) ==
    LET known == {gw.admin[1], gw.admin[2]} \ {Absent}
        state == CHOOSE a \in known : TRUE
    IN  IF Cardinality(known) # 1 \/ state = "" THEN None ELSE state

\* _er_metric_family, and the metrics of a VPN gateway.
GatewayMetrics(gw) ==
    IF GatewayType(gw) = "Vpn" THEN {"AverageBandwidth", "InboundFlowsCount", "OutboundFlowsCount"}
    ELSE IF gw.tier = None THEN {}
    ELSE IF gw.tier = "ErGwScale"
         THEN {"ScalableBitsPerSecond", "ScalablePacketsPerSecond", "ScalableActiveFlows"}
         ELSE {"BitsPerSecond", "PacketsPerSecond", "ActiveFlows"}

\* Up to its connections, which take a call of their own.
GatewayInService(gw) ==
    /\ GatewayState(gw) = "Succeeded"
    /\ GatewayType(gw) \in {"Vpn", "ExpressRoute"}
    /\ ~VirtualWan(gw)
    /\ GatewayType(gw) = "ExpressRoute" => AdminState(gw) \notin {None, "Disabled"}
    /\ GatewayType(gw) = "Vpn" => PointToSite(gw) = "no"
GatewayFinding(r, gw) == Finding(r, "high", "high", [metrics |-> GatewayMetrics(gw)])
=============================================================================
