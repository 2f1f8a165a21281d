---------------------------- MODULE AwsScan_proofs ----------------------------
(***************************************************************************)
(* Proofs about AwsScan, for every region, whatever it holds and whatever  *)
(* happens in it while a rule is at work.                                  *)
(***************************************************************************)
EXTENDS AwsScan, FiniteSetTheorems, WellFoundedInduction, TLAPS

USE AccountsAssumption, BoundsAssumption, NoneAssumption

-----------------------------------------------------------------------------
(* The steps that look at a resource come down to two *)

\* A resource has been looked at, with findings about nothing else.
Looked(r) ==
    /\ inspected' = inspected \cup {r}
    /\ findings \subseteq findings'
    /\ \A f \in findings' \ findings : f.resource = r
    /\ UNCHANGED <<rule, region, pc, family, atListing, unread, index, indexFailed, broken, firstExc,
                   raised>>

Failed == Fail("permission") \/ Fail("other")

\* What a finding is about.
LEMMA FindingResource ==
    ASSUME NEW r, NEW risk, NEW confidence, NEW detail
    PROVE  /\ Finding(r, risk, confidence, detail).resource = r
           /\ Finding(r, risk, confidence, detail).confidence = confidence
           /\ Finding(r, risk, confidence, detail).detail = detail
BY DEF Finding

\* Every handling of a resource ends with a look at it or with an exception.
LEMMA InspectShape ==
    ASSUME NEW r \in Resources, Inspect(r)
    PROVE  pc = "inspecting" /\ r \in Todo /\ (Looked(r) \/ Failed)
<1>1. pc = "inspecting" /\ r \in Todo
  BY DEF Inspect, InspectV2, InspectClassic, InspectNat, InspectDatabase, InspectCluster,
         InspectDomain, InspectEndpoint, InspectGroup, InspectImage, Turn
<1>2. CASE InspectV2(r)
  <2>1. \A targets : ElbFinding(r, account[r], targets).resource = r
    BY FindingResource DEF ElbFinding
  <2> QED
    BY <1>1, <1>2, <2>1 DEF InspectV2, Report, CallFails, Looked, Failed
<1>3. CASE InspectClassic(r)
  <2>1. \A targets : ElbFinding(r, account[r], targets).resource = r
    BY FindingResource DEF ElbFinding
  <2> QED
    BY <1>1, <1>3, <2>1 DEF InspectClassic, Report, CallFails, Looked, Failed
<1>4. CASE InspectNat(r)
  <2>1. \A routeTables : NatFinding(r, routeTables).resource = r
    BY FindingResource DEF NatFinding
  <2> QED
    BY <1>1, <1>4, <2>1 DEF InspectNat, Report, CallFails, Looked, Failed
<1>5. CASE InspectDatabase(r)
  <2>1. RdsFinding(r).resource = r
    BY FindingResource DEF RdsFinding
  <2> QED
    BY <1>1, <1>5, <2>1 DEF InspectDatabase, Report, CallFails, Looked, Failed
<1>6. CASE InspectCluster(r)
  <2>1. \A reads, writes : RedshiftFinding(r, account[r], reads, writes).resource = r
    BY FindingResource DEF RedshiftFinding
  <2> QED
    BY <1>1, <1>6, <2>1 DEF InspectCluster, Report, CallFails, Looked, Failed
<1>7. CASE InspectDomain(r)
  <2>1. \A searches, indexings : DomainFinding(r, account[r], searches, indexings).resource = r
    BY FindingResource DEF DomainFinding
  <2> QED
    BY <1>1, <1>7, <2>1 DEF InspectDomain, Report, CallFails, Looked, Failed
<1>8. CASE InspectEndpoint(r)
  <2>1. EndpointFinding(r, account[r]).resource = r
    BY FindingResource DEF EndpointFinding
  <2> QED
    BY <1>1, <1>8, <2>1 DEF InspectEndpoint, Report, CallFails, Looked, Failed
<1>9. CASE InspectGroup(r)
  <2>1. GroupFinding(r, account).resource = r
    BY FindingResource DEF GroupFinding
  <2> QED
    BY <1>1, <1>9, <2>1 DEF InspectGroup, Report, CallFails, Looked, Failed
<1>10. CASE InspectImage(r)
  <2>1. \A launched, launchUnknown, found :
           ImageFinding(r, account[r], launched, launchUnknown, found, index[r], indexFailed).resource = r
    BY FindingResource DEF ImageFinding
  <2> QED
    BY <1>1, <1>10, <2>1 DEF InspectImage, Report, CallFails, Looked, Failed
<1> QED
  BY <1>1, <1>2, <1>3, <1>4, <1>5, <1>6, <1>7, <1>8, <1>9, <1>10 DEF Inspect

-----------------------------------------------------------------------------
(* Type correctness *)

\* The users of a resource fit the rule.
LEMMA FoundType ==
    ASSUME TypeOK, NEW seen, Found(seen)
    PROVE  /\ index' \in [Resources -> SUBSET UsersOf(rule)]
           /\ \A r \in Resources : index'[r] = index[r] \cup (users[r] \cap seen)
BY DEF Found, TypeOK

LEMMA TypeInit == Init => TypeOK
<1> SUFFICES ASSUME Init PROVE TypeOK
  OBVIOUS
<1>1. users \in [Resources -> SUBSET UsersOf(rule)]
  BY DEF Init
<1> QED
  BY <1>1 DEF Init, TypeOK

LEMMA FailType ==
    ASSUME TypeOK, Failed, pc \notin {"returned", "raised"}
    PROVE  TypeOK' /\ UNCHANGED <<rule, account>>
<1>1. PICK kind \in {"permission", "other"} : Fail(kind)
  BY DEF Failed
<1>2. firstExc' \in {"permission", "other"} /\ broken' \subseteq {"only", "classic"}
  BY <1>1 DEF Fail, TypeOK
<1>3. findings' \subseteq findings /\ UNCHANGED <<rule, region, atListing, unread, index, indexFailed, inspected>>
  BY <1>1 DEF Fail
<1>4. /\ pc' \in {"listing", "raised"} /\ family' \in {"only", "classic"}
      /\ raised' \in {None, "permission", "other"} /\ (raised' = None) = (pc' # "raised")
  BY <1>1, <1>2 DEF Fail, Settle, TypeOK
<1> QED
  BY <1>2, <1>3, <1>4 DEF TypeOK, region

LEMMA LookedType ==
    ASSUME TypeOK, NEW r \in Resources, Looked(r)
    PROVE  TypeOK' /\ UNCHANGED <<rule, account>>
<1>1. {f.resource : f \in findings'} \subseteq inspected'
  BY DEF Looked, TypeOK
<1> QED
  BY <1>1 DEF Looked, TypeOK, region

LEMMA TypeStep ==
    ASSUME TypeOK, [Next]_vars
    PROVE  TypeOK' /\ UNCHANGED <<rule, account>>
<1>1. ASSUME NEW r \in Resources, NEW user \in UsersOf(rule), Attach(r, user)
      PROVE  TypeOK' /\ UNCHANGED <<rule, account>>
  <2>1. users' \in [Resources -> SUBSET UsersOf(rule)] /\ \A q \in Resources : users[q] \subseteq users'[q]
    BY <1>1 DEF Attach, TypeOK
  <2>2. changes' \in 0 .. MaxChanges
    BY <1>1 DEF Attach, TypeOK
  <2> QED
    BY <1>1, <2>1, <2>2 DEF Attach, TypeOK
<1>2. ASSUME NEW r \in Resources, NEW user \in UsersOf(rule), Detach(r, user)
      PROVE  TypeOK' /\ UNCHANGED <<rule, account>>
  <2>1. /\ users' \in [Resources -> SUBSET UsersOf(rule)]
        /\ since' \in [Resources -> SUBSET UsersOf(rule)]
        /\ \A q \in Resources : since'[q] \subseteq users'[q]
    BY <1>2 DEF Detach, TypeOK
  <2>2. changes' \in 0 .. MaxChanges
    BY <1>2 DEF Detach, TypeOK
  <2> QED
    BY <1>2, <2>1, <2>2 DEF Detach, TypeOK
<1>3. CASE ListTemplates
  BY <1>3 DEF ListTemplates, TypeOK, region
<1>4. CASE ReadTemplate
  <2>1. index' \in [Resources -> SUBSET UsersOf(rule)]
    BY <1>4, FoundType DEF ReadTemplate, TypeOK
  <2> QED
    BY <1>4, <2>1 DEF ReadTemplate, TypeOK, region
<1>5. CASE ReadConfigurations
  <2>1. index' \in [Resources -> SUBSET UsersOf(rule)]
    BY <1>5, FoundType DEF ReadConfigurations, TypeOK
  <2> QED
    BY <1>5, <2>1 DEF ReadConfigurations, TypeOK, region
<1>6. CASE List
  BY <1>6 DEF List, TypeOK, region
<1>7. CASE ReadInterfaces
  <2>1. index' \in [Resources -> SUBSET UsersOf(rule)]
    BY <1>7, FoundType DEF ReadInterfaces
  <2> QED
    BY <1>7, <2>1 DEF ReadInterfaces, TypeOK, region
<1>8. CASE BuildUsage
  BY <1>8 DEF BuildUsage, TypeOK, region
<1>9. CASE ListingFails
  BY <1>9, FailType DEF ListingFails, Failed
<1>10. ASSUME NEW r \in Resources, Inspect(r)
       PROVE  TypeOK' /\ UNCHANGED <<rule, account>>
  BY <1>10, InspectShape, LookedType, FailType
<1>11. CASE EndFamily
  <2>1. /\ pc' \in {"listing", "returned", "raised"} /\ family' \in {"only", "classic"}
        /\ raised' \in {None, "permission", "other"} /\ (raised' = None) = (pc' # "raised")
    BY <1>11 DEF EndFamily, Settle, TypeOK
  <2> QED
    BY <1>11, <2>1 DEF EndFamily, TypeOK, region
<1>12. CASE UNCHANGED vars
  BY <1>12 DEF vars, TypeOK, region
<1> QED
  BY <1>1, <1>2, <1>3, <1>4, <1>5, <1>6, <1>7, <1>8, <1>9, <1>10, <1>11, <1>12 DEF Next

\* Every state of a scan has the types of TypeOK: nothing is reported that was not looked at, an
\* exception is raised exactly where the rule ends with one (elb_idle.py:723), and what has been
\* in use all along is in use.
THEOREM TypeCorrect == Spec => []TypeOK
<1>1. TypeOK /\ [Next]_vars => TypeOK'
  BY TypeStep
<1> QED
  BY TypeInit, <1>1, PTL DEF Spec

-----------------------------------------------------------------------------
(* What a rule that returns has seen *)

OfFamily(name) == {r \in Resources : FamilyOf(r) = name}

\* What failed is remembered, and the second family comes after the first.
Silent ==
    /\ (firstExc = None) = (broken = {})
    /\ family = "classic" => rule = "elb"
    /\ family = "classic" /\ broken = {} => OfFamily("only") \subseteq inspected
    /\ SilentMeansComplete

LEMMA Families ==
    /\ Resources = OfFamily("only") \cup OfFamily("classic")
    /\ rule # "elb" => OfFamily("only") = Resources
BY DEF OfFamily, FamilyOf

\* What the rule may do once it has ended: nothing.
LEMMA SilentFrame ==
    ASSUME Silent, pc \notin {"returned", "raised"}, pc' \notin {"returned", "raised"},
           UNCHANGED <<rule, account, family, broken, firstExc>>, inspected \subseteq inspected'
    PROVE  Silent'
BY DEF Silent, SilentMeansComplete, OfFamily, FamilyOf

LEMMA FailSilent ==
    ASSUME TypeOK, Silent, Failed, pc \notin {"returned", "raised"}
    PROVE  Silent'
<1>1. PICK kind \in {"permission", "other"} : Fail(kind)
  BY DEF Failed
<1>2. firstExc' # None /\ broken' # {}
  BY <1>1 DEF Fail
<1>3. family' = "classic" => rule' = "elb"
  BY <1>1 DEF Fail, Settle, Silent
<1>4. pc' # "returned" /\ (pc' = "raised" => raised' = firstExc')
  BY <1>1, <1>2 DEF Fail, Settle
<1> QED
  BY <1>2, <1>3, <1>4 DEF Silent, SilentMeansComplete

LEMMA EndSilent ==
    ASSUME TypeOK, Silent, EndFamily
    PROVE  Silent'
<1>1. OfFamily(family) \subseteq inspected
  BY DEF EndFamily, Todo, OfFamily
<1>2. CASE rule = "elb" /\ family = "only"
  BY <1>1, <1>2 DEF EndFamily, Settle, Silent, SilentMeansComplete, OfFamily, FamilyOf, region
<1>3. CASE ~(rule = "elb" /\ family = "only")
  <2>1. broken = {} => Resources = inspected
    BY <1>1, <1>3, Families DEF Silent, TypeOK
  <2> QED
    BY <1>3, <2>1 DEF EndFamily, Settle, Silent, SilentMeansComplete, OfFamily, FamilyOf, region
<1> QED
  BY <1>2, <1>3

LEMMA SilentStep ==
    ASSUME TypeOK, Silent, [Next]_vars
    PROVE  Silent'
<1>0. UNCHANGED <<rule, account>>
  BY TypeStep
<1>1. ASSUME NEW r \in Resources, NEW user \in UsersOf(rule), Attach(r, user) \/ Detach(r, user)
      PROVE  Silent'
  BY <1>1, SilentFrame DEF Attach, Detach, TypeOK
<1>2. CASE ListTemplates \/ ReadTemplate \/ ReadConfigurations \/ List \/ ReadInterfaces \/ BuildUsage
  BY <1>2, SilentFrame
     DEF ListTemplates, ReadTemplate, ReadConfigurations, List, ReadInterfaces, BuildUsage, region
<1>3. CASE ListingFails
  BY <1>3, FailSilent DEF ListingFails, Failed
<1>4. ASSUME NEW r \in Resources, Inspect(r)
      PROVE  Silent'
  <2>1. pc = "inspecting" /\ (Looked(r) \/ Failed)
    BY <1>4, InspectShape
  <2>2. CASE Looked(r)
    BY <2>1, <2>2, SilentFrame DEF Looked, region
  <2> QED
    BY <2>1, <2>2, FailSilent
<1>5. CASE EndFamily
  BY <1>5, EndSilent
<1>6. CASE UNCHANGED vars
  BY <1>6 DEF vars, Silent, SilentMeansComplete, OfFamily, FamilyOf, region
<1> QED
  BY <1>1, <1>2, <1>3, <1>4, <1>5, <1>6 DEF Next

\* A rule that returns has looked at all it listed, of both families of load balancers, and one
\* that failed raises what failed first (elb_idle.py:723).
THEOREM SilenceIsComplete == Spec => []SilentMeansComplete
<1>1. Init => Silent
  BY DEF Init, Silent, SilentMeansComplete
<1>2. TypeOK /\ Silent /\ [Next]_vars => Silent'
  BY SilentStep
<1>3. Silent => SilentMeansComplete
  BY DEF Silent
<1> QED
  BY TypeCorrect, <1>1, <1>2, <1>3, PTL DEF Spec

-----------------------------------------------------------------------------
(* What has been in use all along *)

\* One finding of UsedThroughoutIsNotReported.
UsedOK(f) ==
    LET used == since[f.resource]
    IN  /\ rule = "sg" => used = {}
        /\ rule \in {"elb", "nat"} => used = {} \/ f.confidence = "medium"
        /\ rule = "ami" /\ ~f.detail.deprecated =>
              /\ "instance" \in used => "instances" \in f.detail.notChecked /\ f.confidence = "low"
              /\ used \cap Configurations # {} =>
                    \/ "configurations" \in f.detail.notChecked
                    \/ used \cap Configurations \subseteq f.detail.references /\ f.confidence = "low"

\* What the rule has read by now covers what has been in use since it began.
Covers ==
    /\ pc = "templates" => rule = "ami"
    /\ pc = "interfaces" => rule = "sg" /\ \A r \in Resources : since[r] \subseteq index[r] \cup unread
    /\ pc = "inspecting" /\ rule = "sg" =>
          \A r \in Resources : account[r].named => since[r] \subseteq index[r]
    /\ pc \in {"interfaces", "inspecting"} => \A r \in Resources : since[r] \subseteq atListing[r]
    /\ pc \in {"listing", "inspecting"} /\ rule = "ami" =>
          \/ "configurations" \in indexFailed
          \/ \A r \in Resources : since[r] \cap Configurations \subseteq index[r]

LEMMA InterfacesOnly == UsersOf("sg") = Interfaces
BY DEF UsersOf

\* Users only leave.
SinceShrinks == \A r \in Resources : since'[r] \subseteq since[r]

LEMMA SinceStep ==
    ASSUME TypeOK, [Next]_vars
    PROVE  SinceShrinks
<1>1. ASSUME NEW r \in Resources, NEW user \in UsersOf(rule), Detach(r, user)
      PROVE  SinceShrinks
  BY <1>1 DEF Detach, TypeOK, SinceShrinks
<1>2. ASSUME NEW r \in Resources, NEW user \in UsersOf(rule), Attach(r, user)
      PROVE  SinceShrinks
  BY <1>2 DEF Attach, SinceShrinks
<1>3. CASE ListTemplates \/ ReadTemplate \/ ReadConfigurations \/ List \/ ReadInterfaces \/ BuildUsage
  BY <1>3 DEF ListTemplates, ReadTemplate, ReadConfigurations, List, ReadInterfaces, BuildUsage,
              region, SinceShrinks
<1>4. CASE Failed \/ ListingFails
  BY <1>4 DEF Failed, ListingFails, Fail, region, SinceShrinks
<1>5. ASSUME NEW r \in Resources, Inspect(r)
      PROVE  SinceShrinks
  BY <1>5, <1>4, InspectShape DEF Looked, region, SinceShrinks
<1>6. CASE EndFamily \/ UNCHANGED vars
  BY <1>6 DEF EndFamily, vars, region, SinceShrinks
<1> QED
  BY <1>1, <1>2, <1>3, <1>4, <1>5, <1>6 DEF Next

LEMMA CoversInit == Init => Covers
BY DEF Init, Covers

LEMMA CoversStep ==
    ASSUME TypeOK, Covers, [Next]_vars
    PROVE  Covers'
<1>0. SinceShrinks /\ UNCHANGED <<rule, account>> /\ \A r \in Resources : since[r] \subseteq users[r]
  BY TypeStep, SinceStep DEF TypeOK
<1>1. ASSUME UNCHANGED <<pc, atListing, unread, index, indexFailed>>
      PROVE  Covers'
  BY <1>0, <1>1 DEF Covers, SinceShrinks
<1>2. ASSUME NEW r \in Resources, NEW user \in UsersOf(rule), Attach(r, user) \/ Detach(r, user)
      PROVE  Covers'
  BY <1>1, <1>2 DEF Attach, Detach
<1>3. CASE ListTemplates
  BY <1>0, <1>3 DEF ListTemplates, Covers
<1>4. CASE ReadTemplate
  BY <1>0, <1>4 DEF ReadTemplate, Covers
<1>5. CASE ReadConfigurations
  <2>1. pc' = "listing" /\ rule' = "ami"
    BY <1>0, <1>5 DEF ReadConfigurations, Covers
  <2>2. "configurations" \in indexFailed' \/ \E existing \in Existing(Configurations) : Found(existing)
    BY <1>5 DEF ReadConfigurations
  <2>3. ASSUME NEW existing \in Existing(Configurations), Found(existing)
        PROVE  \A r \in Resources : since'[r] \cap Configurations \subseteq index'[r]
    BY <1>0, <2>3, FoundType DEF Existing, SinceShrinks
  <2> QED
    BY <2>1, <2>2, <2>3 DEF Covers
<1>6. CASE List
  <2>1. /\ \A r \in Resources : since'[r] \subseteq atListing'[r]
        /\ UNCHANGED <<index, indexFailed>>
    BY <1>0, <1>6 DEF List, SinceShrinks
  <2>2. CASE pc' = "interfaces"
    <3>1. rule' = "sg" /\ unread' = Interfaces
      BY <1>0, <1>6, <2>2 DEF List
    <3>2. \A r \in Resources : since'[r] \subseteq unread'
      BY <1>0, <3>1, InterfacesOnly DEF TypeOK, SinceShrinks
    <3> QED
      BY <1>0, <2>1, <2>2, <3>1, <3>2 DEF Covers
  <2>3. CASE pc' # "interfaces"
    <3>1. pc' = "inspecting" /\ (rule = "sg" => \A r \in Resources : ~account[r].named)
      BY <1>6, <2>3 DEF List
    <3> QED
      BY <1>0, <1>6, <2>1, <3>1 DEF List, Covers, SinceShrinks
  <2> QED
    BY <2>2, <2>3
<1>7. CASE ReadInterfaces
  <2>1. PICK page \in SUBSET unread : Found(page) /\ unread' = unread \ page
    BY <1>7 DEF ReadInterfaces
  <2>2. \A r \in Resources : since'[r] \subseteq index'[r] \cup unread'
    BY <1>0, <1>7, <2>1, FoundType DEF ReadInterfaces, Covers, SinceShrinks
  <2> QED
    BY <1>0, <1>7, <2>2 DEF ReadInterfaces, Covers, SinceShrinks
<1>8. CASE BuildUsage
  <2>1. \A r \in Resources : since'[r] \subseteq index'[r]
    BY <1>0, <1>8 DEF BuildUsage, Covers, SinceShrinks
  <2>2. \A r \in Resources : since'[r] \subseteq atListing'[r]
    BY <1>0, <1>8 DEF BuildUsage, Covers, SinceShrinks
  <2> QED
    BY <1>0, <1>8, <2>1, <2>2 DEF BuildUsage, Covers
<1>9. CASE Failed \/ ListingFails \/ EndFamily
  <2>1. /\ UNCHANGED <<atListing, unread, index, indexFailed>>
        /\ pc' \in {"returned", "raised"} \/ (pc' = "listing" /\ rule = "elb")
    BY <1>9 DEF Failed, ListingFails, EndFamily, Fail, Settle
  <2> QED
    BY <1>0, <2>1 DEF Covers
<1>10. ASSUME NEW r \in Resources, Inspect(r)
       PROVE  Covers'
  BY <1>1, <1>9, <1>10, InspectShape DEF Looked
<1>11. CASE UNCHANGED vars
  BY <1>1, <1>11 DEF vars
<1> QED
  BY <1>2, <1>3, <1>4, <1>5, <1>6, <1>7, <1>8, <1>9, <1>10, <1>11 DEF Next

LEMMA UsedStays ==
    ASSUME SinceShrinks, UNCHANGED rule, NEW f, f.resource \in Resources, UsedOK(f)
    PROVE  UsedOK(f)'
BY DEF SinceShrinks, UsedOK

\* A look that reports nothing but what is UsedOK.
LEMMA ReportUsed ==
    ASSUME NEW r \in Resources, NEW condition, NEW f, Report(r, condition, f), condition => UsedOK(f)
    PROVE  \A g \in findings' \ findings : UsedOK(g)
BY DEF Report

LEMMA InspectUsed ==
    ASSUME TypeOK, Covers, NEW r \in Resources, Inspect(r)
    PROVE  \A f \in findings' \ findings : UsedOK(f)
<1> DEFINE NewOK == \A f \in findings' \ findings : UsedOK(f)
<1>0. since[r] \subseteq users[r] /\ pc = "inspecting"
  BY InspectShape DEF TypeOK
<1>1. ASSUME Failed PROVE NewOK
  BY <1>1 DEF Failed, Fail
<1>2. CASE InspectV2(r)
  <2>1. rule = "elb"
    BY <1>2 DEF InspectV2, Turn
  <2>2. ASSUME NEW targets \in BackendContext(r)
        PROVE  UsedOK(ElbFinding(r, account[r], targets))
    BY <1>0, <2>1, FindingResource DEF BackendContext, BestEffort, ElbFinding, UsedOK
  <2> QED
    BY <1>1, <1>2, <2>2 DEF InspectV2, Report, CallFails, Failed
<1>3. CASE InspectClassic(r)
  <2>1. rule = "elb" /\ since[r] \subseteq atListing[r]
    BY <1>0, <1>3 DEF InspectClassic, Turn, Covers
  <2>2. UsedOK(ElbFinding(r, account[r], atListing[r]))
    BY <2>1, FindingResource DEF ElbFinding, UsedOK
  <2> QED
    BY <1>1, <1>3, <2>2 DEF InspectClassic, Report, CallFails, Failed
<1>4. CASE InspectNat(r)
  <2>1. rule = "nat"
    BY <1>4 DEF InspectNat, Turn
  <2>2. ASSUME NEW routeTables \in RouteTables(r)
        PROVE  UsedOK(NatFinding(r, routeTables))
    BY <1>0, <2>1, FindingResource DEF RouteTables, BestEffort, NatFinding, UsedOK
  <2> QED
    BY <1>1, <1>4, <2>2 DEF InspectNat, Report, CallFails, Failed
<1>5. CASE InspectDatabase(r) \/ InspectCluster(r) \/ InspectDomain(r) \/ InspectEndpoint(r)
  <2>1. rule \notin {"sg", "elb", "nat", "ami"}
    BY <1>5 DEF InspectDatabase, InspectCluster, InspectDomain, InspectEndpoint, Turn
  <2> QED
    BY <2>1 DEF UsedOK
<1>6. CASE InspectGroup(r)
  <2>1. GroupCandidate(account[r]) /\ index[r] = {} => UsedOK(GroupFinding(r, account))
    <3> SUFFICES ASSUME GroupCandidate(account[r]), index[r] = {}
                 PROVE  UsedOK(GroupFinding(r, account))
      OBVIOUS
    <3>1. rule = "sg" /\ since[r] = {}
      BY <1>0, <1>6 DEF InspectGroup, Turn, Covers, GroupCandidate
    <3> QED
      BY <3>1, FindingResource DEF GroupFinding, UsedOK
  <2> QED
    BY <1>6, <2>1 DEF InspectGroup, Report
<1>7. CASE InspectImage(r)
  <2>1. rule = "ami" /\ ("configurations" \in indexFailed \/ since[r] \cap Configurations \subseteq index[r])
    BY <1>0, <1>7 DEF InspectImage, Turn, Covers
  <2>2. ASSUME NEW launchUnknown \in BOOLEAN, NEW found \in ActiveInstances(r), NEW launched,
               ImageReported(account[r], launched, found)
        PROVE  UsedOK(ImageFinding(r, account[r], launched, launchUnknown, found, index[r], indexFailed))
    <3> DEFINE f == ImageFinding(r, account[r], launched, launchUnknown, found, index[r], indexFailed)
    <3>1. f.resource = r /\ f.detail.deprecated = Deprecated(account[r])
      BY FindingResource DEF ImageFinding
    <3>2. f.confidence = ImageConfidence(account[r], launched, found, index[r])
      BY FindingResource DEF ImageFinding
    <3>3. /\ f.detail.references = index[r]
          /\ indexFailed \subseteq f.detail.notChecked
          /\ found = None => "instances" \in f.detail.notChecked
      BY FindingResource DEF ImageFinding
    <3> SUFFICES UsedOK(f)
      OBVIOUS
    <3> HIDE DEF f
    <3>4. SUFFICES ASSUME ~Deprecated(account[r])
                   PROVE  /\ "instance" \in since[r] =>
                                "instances" \in f.detail.notChecked /\ f.confidence = "low"
                          /\ since[r] \cap Configurations # {} =>
                                \/ "configurations" \in f.detail.notChecked
                                \/ since[r] \cap Configurations \subseteq f.detail.references /\ f.confidence = "low"
      BY <2>1, <3>1 DEF UsedOK
    <3>5. found # TRUE
      BY <2>2, <3>4 DEF ImageReported, ScoredCandidate
    <3>6. "instance" \in since[r] => found = None
      BY <1>0, <2>2, <3>5 DEF ActiveInstances, BestEffort
    <3>7. found = None \/ index[r] # {} => f.confidence = "low"
      BY <3>2, <3>4 DEF ImageConfidence
    <3> QED
      BY <2>1, <3>3, <3>6, <3>7
  <2> QED
    BY <1>7, <2>2 DEF InspectImage, Report
<1> QED
  BY <1>2, <1>3, <1>4, <1>5, <1>6, <1>7 DEF Inspect

LEMMA UsedStep ==
    ASSUME TypeOK, Covers, UsedThroughoutIsNotReported, [Next]_vars
    PROVE  UsedThroughoutIsNotReported'
<1>0. SinceShrinks /\ UNCHANGED rule /\ TypeOK'
  BY TypeStep, SinceStep
<1>1. \A f \in findings : UsedOK(f)
  BY DEF UsedThroughoutIsNotReported, UsedOK
<1>2. \A f \in findings' \ findings : UsedOK(f)
  <2>1. ASSUME NEW r \in Resources, NEW user \in UsersOf(rule), Attach(r, user) \/ Detach(r, user)
        PROVE  findings' \subseteq findings
    BY <2>1 DEF Attach, Detach
  <2>2. CASE ListTemplates \/ ReadTemplate \/ ReadConfigurations \/ List \/ ReadInterfaces \/ BuildUsage
    BY <2>2 DEF ListTemplates, ReadTemplate, ReadConfigurations, List, ReadInterfaces, BuildUsage
  <2>3. CASE ListingFails \/ EndFamily \/ UNCHANGED vars
    BY <2>3 DEF ListingFails, Fail, EndFamily, vars
  <2> QED
    BY <2>1, <2>2, <2>3, InspectUsed DEF Next
<1>3. \A f \in findings' : UsedOK(f)'
  <2> SUFFICES ASSUME NEW f \in findings' PROVE UsedOK(f)'
    OBVIOUS
  <2>1. UsedOK(f) /\ f.resource \in Resources
    BY <1>0, <1>1, <1>2 DEF TypeOK
  <2> QED
    BY <1>0, <2>1, UsedStays
<1> QED
  BY <1>3 DEF UsedThroughoutIsNotReported, UsedOK

\* Nothing is said to be unused that has been used by the same thing ever since the rule began
\* (ec2_sg_unused.py:293, elb_idle.py:493, nat_gateway_idle.py:308), and no image loses the
\* notice of what uses it, for any number of resources, users, changes and failing calls.
THEOREM UsedIsSeen == Spec => []UsedThroughoutIsNotReported
<1>1. Init => UsedThroughoutIsNotReported
  BY DEF Init, UsedThroughoutIsNotReported
<1>2. TypeOK /\ Covers /\ [Next]_vars => Covers'
  BY CoversStep
<1>3. TypeOK /\ Covers /\ UsedThroughoutIsNotReported /\ [Next]_vars => UsedThroughoutIsNotReported'
  BY UsedStep
<1> QED
  BY TypeCorrect, CoversInit, <1>1, <1>2, <1>3, PTL DEF Spec

-----------------------------------------------------------------------------
(* What a finding rests on *)

\* What IdleIsProven says of one finding.
Proven(f) ==
    LET s == account[f.resource]
    IN  CASE rule = "elb" ->
                \A i \in DOMAIN ElbMetrics[s.family] :
                    LET points == s.telemetry[ElbMetrics[s.family][i]]
                    IN  Quiet(points) /\ (s.family = "nlb" => Covered(points, IdleDays["elb"]))
          [] rule = "nat" -> \A m \in NatMetrics : Quiet(s.telemetry[m]) /\ Covered(s.telemetry[m], 1)
          [] rule \in {"rds", "redshift"} ->
                /\ Quiet(s.telemetry["DatabaseConnections"]) /\ Covered(s.telemetry["DatabaseConnections"], 1)
                /\ f.confidence = "high" => \A m \in DOMAIN s.telemetry : Quiet(s.telemetry[m])
          [] rule = "opensearch" ->
                LET points == s.telemetry["OpenSearchRequests"]
                    silent == {h \in 1 .. IdleDays["opensearch"] * HoursPerDay :
                                  \A i \in DOMAIN points : points[i].at # h}
                IN  /\ 20 * Cardinality(silent) <= IdleDays["opensearch"] * HoursPerDay
                    /\ \A i \in DOMAIN points :
                          points[i].value \in {0, None} \/ \E j \in DOMAIN points :
                              j > i /\ points[j].at = points[i].at /\ points[j].value \in {0, None}
                    /\ f.confidence = "high" =>
                          Quiet(s.telemetry["SearchRate"]) /\ Quiet(s.telemetry["IndexingRate"])
          [] rule = "sagemaker" ->
                \A v \in s.variants :
                    v.named /\ {v.instances, v.concurrency} \cap {None, 0} # {v.instances, v.concurrency}
                        => Quiet(v.invocations) /\ (f.confidence = "high" => Covered(v.invocations, 1))
          [] OTHER -> TRUE

LEMMA ProvenFacts == IdleIsProven <=> \A f \in findings : Proven(f)
BY DEF IdleIsProven, Proven

LEMMA ProvenStays ==
    ASSUME UNCHANGED <<rule, account>>, NEW f, Proven(f)
    PROVE  Proven(f)'
BY DEF Proven

Instants(points) == {points[i].at : i \in DOMAIN points}

LEMMA PointFacts ==
    ASSUME NEW points \in Metric
    PROVE  /\ Len(points) \in Nat /\ DOMAIN points = 1 .. Len(points)
           /\ \A i \in DOMAIN points : points[i].at \in Int /\ points[i].value \in Count
<1> DEFINE Point == [at : Int, value : Count]
<1>1. points \in Seq(Point)
  BY DEF Metric
<1>2. \A p \in Point : p.at \in Int /\ p.value \in Count
  OBVIOUS
<1> HIDE DEF Point
<1>3. Len(points) \in Nat /\ DOMAIN points = 1 .. Len(points) /\ \A i \in DOMAIN points : points[i] \in Point
  BY <1>1
<1> QED
  BY <1>2, <1>3

\* The instants of a metric are finitely many, one for each point if no two are of the same.
LEMMA InstantsFacts ==
    ASSUME NEW points \in Metric
    PROVE  /\ IsFiniteSet(Instants(points)) /\ Cardinality(Instants(points)) \in Nat
           /\ points # <<>> => Cardinality(Instants(points)) >= 1
           /\ (\A i, j \in DOMAIN points : points[i].at = points[j].at => i = j) =>
                 Cardinality(Instants(points)) = Len(points)
<1> DEFINE S == 1 .. Len(points)
           T == Instants(points)
           at == [i \in S |-> points[i].at]
<1>1. Len(points) \in Nat /\ DOMAIN points = S
  BY DEF Metric
<1>2. IsFiniteSet(S) /\ Cardinality(S) = Len(points)
  <2>1. 1 \in Int /\ Len(points) \in Int
    BY <1>1
  <2> QED
    BY <1>1, <2>1, FS_Interval
<1>3. at \in Surjection(S, T)
  BY <1>1 DEF Surjection, Instants
<1>4. IsFiniteSet(T) /\ (at \in Injection(S, T) => Cardinality(T) = Cardinality(S))
  <2> HIDE DEF at, S, T
  <2> QED
    BY <1>2, <1>3, FS_Surjection
<1>5. Cardinality(T) \in Nat /\ (T # {} => Cardinality(T) # 0)
  <2> HIDE DEF T
  <2> QED
    BY <1>4, FS_CardinalityType, FS_EmptySet
<1>6. points # <<>> => T # {}
  <2> SUFFICES ASSUME points # <<>> PROVE T # {}
    OBVIOUS
  <2>1. 1 \in DOMAIN points
    BY <1>1 DEF Metric
  <2>2. points[1].at \in T
    BY <2>1 DEF Instants
  <2> QED
    BY <2>2
<1>7. ASSUME \A i, j \in DOMAIN points : points[i].at = points[j].at => i = j
      PROVE  at \in Injection(S, T)
  BY <1>1, <1>3, <1>7 DEF Injection, IsInjective, Surjection
<1> HIDE DEF at, S
<1>8. (\A i, j \in DOMAIN points : points[i].at = points[j].at => i = j) => Cardinality(T) = Len(points)
  BY <1>2, <1>4, <1>7
<1> HIDE DEF T
<1>9. points # <<>> => Cardinality(T) >= 1
  BY <1>5, <1>6
<1> QED
  BY <1>4, <1>5, <1>8, <1>9 DEF T

\* What is not active is quiet.
LEMMA QuietFacts ==
    ASSUME NEW points \in Metric, ~Active(points)
    PROVE  Quiet(points) /\ (~NoData(points) => Covered(points, 1))
<1>1. ASSUME NEW i \in DOMAIN points
      PROVE  points[i].value \in {0, None}
  <2>1. points[i].value \in Count
    BY PointFacts
  <2>2. points[i].value = None \/ ~(points[i].value > 0)
    BY DEF Active
  <2> QED
    BY <2>1, <2>2 DEF Count
<1>2. ~NoData(points) => Covered(points, 1)
  BY InstantsFacts DEF NoData, Covered, Instants
<1> QED
  BY <1>1, <1>2 DEF Quiet

LEMMA ZeroFacts ==
    ASSUME NEW points \in Metric, KnownZero(points)
    PROVE  Quiet(points) /\ Covered(points, 1)
BY QuietFacts DEF KnownZero

\* Of the points of an hour there is a last one.
LEMMA LastFacts ==
    ASSUME NEW points \in Metric, NEW i \in DOMAIN points
    PROVE  LET m == LastOf(points, points[i].at)
           IN  m \in DOMAIN points /\ points[m].at = points[i].at /\ i <= m
<1> DEFINE hour == points[i].at
           S == {j \in DOMAIN points : points[j].at = hour}
           T == {Len(points) - j : j \in S}
<1>1. Len(points) \in Nat /\ DOMAIN points = 1 .. Len(points)
  BY PointFacts
<1>2. \A j \in S : j \in Int /\ Len(points) - j \in Nat
  BY <1>1
<1>3. (\A t \in T : \E j \in S : t = Len(points) - j) /\ (\A j \in S : Len(points) - j \in T)
  OBVIOUS
<1>4. i \in S
  OBVIOUS
<1> HIDE DEF T
<1>5. T \subseteq Nat /\ T # {}
  <2>1. T \subseteq Nat
    <3> HIDE DEF S
    <3> QED
      BY <1>2, <1>3
  <2>2. T # {}
    BY <1>3, <1>4
  <2> QED
    BY <2>1, <2>2
<1>6. PICK n \in T : \A m \in T : <<m, n>> \notin OpToRel(<, Nat)
  BY <1>5, WFMin, NatLessThanWellFounded, Zenon
<1>7. \A m \in T : ~(m < n)
  <2> SUFFICES ASSUME NEW m \in T, m < n PROVE FALSE
    OBVIOUS
  <2>1. <<m, n>> \in Nat \X Nat /\ <<m, n>>[1] = m /\ <<m, n>>[2] = n
    BY <1>5
  <2>2. <<m, n>> \in OpToRel(<, Nat)
    BY <2>1, Zenon DEF OpToRel
  <2> QED
    BY <1>6, <2>2
<1> HIDE DEF S
<1>8. PICK k \in S : n = Len(points) - k
  BY <1>3
<1>9. \A j \in S : j <= k
  <2> SUFFICES ASSUME NEW j \in S PROVE j <= k
    OBVIOUS
  <2>1. Len(points) - j \in T /\ ~(Len(points) - j < Len(points) - k)
    BY <1>3, <1>7, <1>8
  <2>2. j \in Int /\ k \in Int
    BY <1>2
  <2> QED
    BY <1>1, <2>1, <2>2
<1>10. k \in DOMAIN points /\ points[k].at = hour /\ \A j \in DOMAIN points : points[j].at = hour => j <= k
  BY <1>9 DEF S
<1>11. /\ LastOf(points, hour) \in DOMAIN points /\ points[LastOf(points, hour)].at = hour
       /\ \A j \in DOMAIN points : points[j].at = hour => j <= LastOf(points, hour)
  <2> HIDE DEF hour
  <2> QED
    BY <1>10 DEF LastOf
<1> QED
  BY <1>11

\* A domain whose hours are nearly all there, and whose last values are zero, is idle.
LEMMA DomainFacts ==
    ASSUME NEW points \in Metric, \A i \in DOMAIN points : points[i].at \in 1 .. HoursAsked,
           100 * Cardinality(Hourly(points)) >= 95 * HoursAsked,
           \A p \in Hourly(points) : p.value \in {0, None}
    PROVE  /\ 20 * Cardinality({h \in 1 .. HoursAsked : \A i \in DOMAIN points : points[i].at # h}) <= HoursAsked
           /\ \A i \in DOMAIN points :
                 points[i].value \in {0, None} \/ \E j \in DOMAIN points :
                     j > i /\ points[j].at = points[i].at /\ points[j].value \in {0, None}
<1> DEFINE all == 1 .. HoursAsked
           ats == Instants(points)
           last == [h \in ats |-> points[LastOf(points, h)]]
           silent == {h \in all : \A i \in DOMAIN points : points[i].at # h}
<1>1. HoursAsked \in Nat /\ IsFiniteSet(all) /\ Cardinality(all) = HoursAsked
  <2>1. HoursAsked \in Nat
    BY TelemetryAssumption
  <2>2. 1 \in Int /\ HoursAsked \in Int /\ (IF 1 > HoursAsked THEN 0 ELSE HoursAsked - 1 + 1) = HoursAsked
    BY <2>1
  <2> QED
    BY <2>1, <2>2, FS_Interval
<1>2. IsFiniteSet(ats) /\ Cardinality(ats) \in Nat
  BY InstantsFacts
<1>3. last \in Surjection(ats, Hourly(points))
  BY DEF Surjection, Hourly, Instants
<1>4. IsFiniteSet(Hourly(points)) /\ Cardinality(Hourly(points)) <= Cardinality(ats)
  <2> HIDE DEF last, ats
  <2> QED
    BY <1>2, <1>3, FS_Surjection
<1>5. all \cap ats = ats /\ silent = all \ ats
  BY DEF Instants
<1> HIDE DEF silent, ats, all
<1>6. Cardinality(silent) = HoursAsked - Cardinality(ats)
  BY <1>1, <1>5, FS_Difference
<1>7. Cardinality(Hourly(points)) \in Nat
  BY <1>4, FS_CardinalityType
<1>8. 20 * Cardinality(silent) <= HoursAsked
  BY <1>1, <1>2, <1>4, <1>6, <1>7
<1>9. ASSUME NEW i \in DOMAIN points
      PROVE  points[i].value \in {0, None} \/ \E j \in DOMAIN points :
                 j > i /\ points[j].at = points[i].at /\ points[j].value \in {0, None}
  <2> DEFINE m == LastOf(points, points[i].at)
  <2>1. m \in DOMAIN points /\ points[m].at = points[i].at /\ i <= m
    BY LastFacts
  <2>2. points[m] \in Hourly(points)
    BY DEF Hourly
  <2>3. points[m].value \in {0, None}
    <3> HIDE DEF m
    <3> QED
      BY <2>2
  <2> HIDE DEF m
  <2>4. i \in Int /\ m \in Int
    BY <2>1, PointFacts
  <2> QED
    BY <2>1, <2>3, <2>4
<1> QED
  BY <1>8, <1>9 DEF silent, all

\* The telemetry of a resource, of the rules that have it by metric.
LEMMA TelemetryFacts ==
    ASSUME rule \in {"elb", "nat", "rds", "redshift", "opensearch"}, account \in Accounts[rule],
           NEW r \in Resources, NEW m \in DOMAIN account[r].telemetry
    PROVE  account[r].telemetry[m] \in Metric
BY TelemetryAssumption

LEMMA ElbProven ==
    ASSUME rule = "elb", account \in Accounts[rule], NEW r \in Resources, NEW f, f.resource = r,
           account[r].family \in DOMAIN ElbMetrics, ElbTraffic(account[r]) = "idle"
    PROVE  Proven(f)
<1> DEFINE lb == account[r]
           names == ElbMetrics[lb.family]
<1>1. \A i \in DOMAIN names : ~Incomplete(lb, lb.telemetry[names[i]]) /\ ~Active(lb.telemetry[names[i]])
  BY DEF ElbTraffic
<1>2. \A i \in DOMAIN names : names[i] \in DOMAIN lb.telemetry
  BY TelemetryAssumption
<1>3. \A i \in DOMAIN names : lb.telemetry[names[i]] \in Metric
  BY <1>2, TelemetryFacts
<1>4. \A m \in DOMAIN lb.telemetry : \A i, j \in DOMAIN lb.telemetry[m] :
          lb.telemetry[m][i].at = lb.telemetry[m][j].at => i = j
  BY TelemetryAssumption
<1>5. ASSUME NEW i \in DOMAIN names
      PROVE  /\ Quiet(lb.telemetry[names[i]])
             /\ lb.family = "nlb" => Covered(lb.telemetry[names[i]], IdleDays["elb"])
  <2> DEFINE points == lb.telemetry[names[i]]
  <2>1. points \in Metric /\ ~Active(points)
    BY <1>1, <1>3
  <2>2. Quiet(points)
    <3> HIDE DEF points
    <3> QED
      BY <2>1, QuietFacts
  <2>3. ASSUME lb.family = "nlb" PROVE Covered(points, IdleDays["elb"])
    <3>1. ~(Len(points) < IdleDays["elb"])
      BY <1>1, <2>3 DEF Incomplete
    <3>2. \A k, j \in DOMAIN points : points[k].at = points[j].at => k = j
      BY <1>2, <1>4
    <3> HIDE DEF points
    <3>3. Cardinality(Instants(points)) = Len(points) /\ Len(points) \in Nat
      BY <2>1, <3>2, InstantsFacts, PointFacts
    <3>4. IdleDays["elb"] \in Nat
      BY TelemetryAssumption
    <3> QED
      BY <3>1, <3>3, <3>4 DEF Covered, Instants
  <2> QED
    BY <2>2, <2>3
<1> HIDE DEF names
<1>6. \A i \in DOMAIN ElbMetrics[account[f.resource].family] :
          LET points == account[f.resource].telemetry[ElbMetrics[account[f.resource].family][i]]
          IN  Quiet(points) /\ (account[f.resource].family = "nlb" => Covered(points, IdleDays["elb"]))
  BY <1>5 DEF names
<1> QED
  BY <1>6 DEF Proven

LEMMA NatProven ==
    ASSUME rule = "nat", account \in Accounts[rule], NEW r \in Resources, NEW f, f.resource = r,
           NatIdle(account[r])
    PROVE  Proven(f)
<1>1. DOMAIN account[r].telemetry = NatMetrics
  BY TelemetryAssumption
<1>2. \A m \in NatMetrics : account[r].telemetry[m] \in Metric
  BY <1>1, TelemetryFacts
<1>3. \A m \in NatMetrics : Quiet(account[r].telemetry[m]) /\ Covered(account[r].telemetry[m], 1)
  BY <1>2, ZeroFacts DEF NatIdle
<1> QED
  BY <1>3 DEF Proven

LEMMA RdsProven ==
    ASSUME rule = "rds", account \in Accounts[rule], NEW r \in Resources, RdsIdle(account[r])
    PROVE  Proven(RdsFinding(r))
<1>1. RdsFinding(r).resource = r /\ RdsFinding(r).confidence # "high"
  BY FindingResource DEF RdsFinding
<1>2. "DatabaseConnections" \in DOMAIN account[r].telemetry
  BY TelemetryAssumption
<1>3. account[r].telemetry["DatabaseConnections"] \in Metric
  BY <1>2, TelemetryFacts
<1>4. /\ Quiet(account[r].telemetry["DatabaseConnections"])
      /\ Covered(account[r].telemetry["DatabaseConnections"], 1)
  BY <1>3, ZeroFacts DEF RdsIdle
<1> QED
  BY <1>1, <1>4 DEF Proven

LEMMA RedshiftProven ==
    ASSUME rule = "redshift", account \in Accounts[rule], NEW r \in Resources, RedshiftIdle(account[r]),
           NEW reads \in BestEffort(account[r].telemetry["ReadIOPS"]),
           NEW writes \in BestEffort(account[r].telemetry["WriteIOPS"])
    PROVE  Proven(RedshiftFinding(r, account[r], reads, writes))
<1> DEFINE f == RedshiftFinding(r, account[r], reads, writes)
           t == account[r].telemetry
<1>1. f.resource = r /\ (f.confidence = "high" => KnownZero(reads) /\ KnownZero(writes))
  BY FindingResource DEF RedshiftFinding
<1>2. DOMAIN t = {"DatabaseConnections", "ReadIOPS", "WriteIOPS"}
  BY TelemetryAssumption
<1>3. \A m \in DOMAIN t : t[m] \in Metric
  BY TelemetryFacts
<1>4. Quiet(t["DatabaseConnections"]) /\ Covered(t["DatabaseConnections"], 1)
  BY <1>2, <1>3, ZeroFacts DEF RedshiftIdle
<1>5. f.confidence = "high" => KnownZero(t["ReadIOPS"]) /\ KnownZero(t["WriteIOPS"])
  BY <1>1 DEF BestEffort, KnownZero
<1> HIDE DEF f
<1>6. f.confidence = "high" => \A m \in DOMAIN t : Quiet(t[m])
  BY <1>2, <1>3, <1>4, <1>5, ZeroFacts
<1> HIDE DEF t
<1>7. Proven(f)
  BY <1>1, <1>4, <1>6 DEF Proven, t
<1> QED
  BY <1>7 DEF f

LEMMA DomainProven ==
    ASSUME rule = "opensearch", account \in Accounts[rule], NEW r \in Resources, DomainIdle(account[r]),
           NEW searches \in BestEffort(account[r].telemetry["SearchRate"]),
           NEW indexings \in BestEffort(account[r].telemetry["IndexingRate"])
    PROVE  Proven(DomainFinding(r, account[r], searches, indexings))
<1> DEFINE f == DomainFinding(r, account[r], searches, indexings)
           t == account[r].telemetry
           points == t["OpenSearchRequests"]
<1>1. f.resource = r /\ (f.confidence = "high" => KnownZero(searches) /\ KnownZero(indexings))
  BY FindingResource DEF DomainFinding
<1>2. /\ DOMAIN t = {"OpenSearchRequests", "SearchRate", "IndexingRate"}
      /\ \A i \in DOMAIN points : points[i].at \in 1 .. HoursAsked
  BY TelemetryAssumption
<1>3. \A m \in DOMAIN t : t[m] \in Metric
  BY TelemetryFacts
<1>4. f.confidence = "high" => Quiet(t["SearchRate"]) /\ Quiet(t["IndexingRate"])
  <2>1. f.confidence = "high" => KnownZero(t["SearchRate"]) /\ KnownZero(t["IndexingRate"])
    BY <1>1 DEF BestEffort, KnownZero
  <2> HIDE DEF f
  <2> QED
    BY <1>2, <1>3, <2>1, ZeroFacts
<1>5. 100 * Cardinality(Hourly(points)) >= 95 * HoursAsked /\ \A p \in Hourly(points) : p.value \in {0, None}
  BY DEF DomainIdle, HoursAsked
<1>6. points \in Metric
  BY <1>2, <1>3
<1>7. /\ 20 * Cardinality({h \in 1 .. HoursAsked : \A i \in DOMAIN points : points[i].at # h}) <= HoursAsked
      /\ \A i \in DOMAIN points :
            points[i].value \in {0, None} \/ \E j \in DOMAIN points :
                j > i /\ points[j].at = points[i].at /\ points[j].value \in {0, None}
  <2> HIDE DEF points
  <2> QED
    BY <1>2, <1>5, <1>6, DomainFacts
<1> HIDE DEF f
<1>8. Proven(f)
  BY <1>1, <1>4, <1>7 DEF Proven, HoursAsked
<1> QED
  BY <1>8 DEF f

LEMMA EndpointProven ==
    ASSUME rule = "sagemaker", account \in Accounts[rule], NEW r \in Resources, EndpointIdle(account[r])
    PROVE  Proven(EndpointFinding(r, account[r]))
<1> DEFINE e == account[r]
           f == EndpointFinding(r, e)
<1>1. f.resource = r /\ (f.confidence = "high" => \A v \in Billable(e) : ~NoData(v.invocations))
  BY FindingResource DEF EndpointFinding
<1>2. \A v \in e.variants : v.invocations \in Metric /\ v.instances \in Count /\ v.concurrency \in Count
  BY TelemetryAssumption
<1>3. ASSUME NEW v \in e.variants, v.named,
             {v.instances, v.concurrency} \cap {None, 0} # {v.instances, v.concurrency}
      PROVE  Quiet(v.invocations) /\ (f.confidence = "high" => Covered(v.invocations, 1))
  <2>1. v.instances \notin {None, 0} \/ v.concurrency \notin {None, 0}
    BY <1>3
  <2>2. v \in Billable(e)
    BY <1>2, <1>3, <2>1 DEF Billable, Positive, Count
  <2>3. ~Active(v.invocations)
    BY <2>2 DEF EndpointIdle
  <2> QED
    BY <1>1, <1>2, <2>2, <2>3, QuietFacts
<1> HIDE DEF f
<1>4. Proven(f)
  BY <1>1, <1>3 DEF Proven
<1> QED
  BY <1>4 DEF f

LEMMA InspectProven ==
    ASSUME TypeOK, account \in Accounts[rule], NEW r \in Resources, Inspect(r)
    PROVE  \A f \in findings' \ findings : Proven(f)
<1> DEFINE NewOK == \A f \in findings' \ findings : Proven(f)
<1>1. ASSUME Failed PROVE NewOK
  BY <1>1 DEF Failed, Fail
<1>2. CASE InspectV2(r) \/ InspectClassic(r)
  <2>1. rule = "elb"
    BY <1>2 DEF InspectV2, InspectClassic, Turn
  <2>2. \A targets : ElbFinding(r, account[r], targets).resource = r
    BY FindingResource DEF ElbFinding
  <2>3. ElbV2Candidate(account[r]) \/ ElbClassicCandidate(account[r]) => account[r].family \in DOMAIN ElbMetrics
    BY DEF ElbV2Candidate, ElbClassicCandidate, ElbMetrics
  <2>4. \/ Failed
        \/ \E condition \in BOOLEAN : \E targets :
              /\ Report(r, condition, ElbFinding(r, account[r], targets))
              /\ condition => /\ ElbV2Candidate(account[r]) \/ ElbClassicCandidate(account[r])
                              /\ ElbTraffic(account[r]) = "idle"
    BY <1>2 DEF InspectV2, InspectClassic, CallFails, Failed
  <2>5. ASSUME NEW condition \in BOOLEAN, NEW targets,
               Report(r, condition, ElbFinding(r, account[r], targets)),
               condition => /\ ElbV2Candidate(account[r]) \/ ElbClassicCandidate(account[r])
                            /\ ElbTraffic(account[r]) = "idle"
        PROVE  NewOK
    <3>1. condition => Proven(ElbFinding(r, account[r], targets))
      BY <2>1, <2>2, <2>3, <2>5, ElbProven
    <3> QED
      BY <2>5, <3>1 DEF Report
  <2> QED
    BY <1>1, <2>4, <2>5
<1>3. CASE InspectNat(r)
  <2>1. rule = "nat"
    BY <1>3 DEF InspectNat, Turn
  <2>2. \A routeTables : NatFinding(r, routeTables).resource = r
    BY FindingResource DEF NatFinding
  <2>3. \A routeTables : NatIdle(account[r]) => Proven(NatFinding(r, routeTables))
    BY <2>1, <2>2, NatProven
  <2> QED
    BY <1>1, <1>3, <2>3 DEF InspectNat, Report, CallFails, Failed
<1>4. CASE InspectDatabase(r)
  <2>1. rule = "rds"
    BY <1>4 DEF InspectDatabase, Turn
  <2>2. RdsIdle(account[r]) => Proven(RdsFinding(r))
    BY <2>1, RdsProven
  <2> QED
    BY <1>1, <1>4, <2>2 DEF InspectDatabase, Report, CallFails, Failed
<1>5. CASE InspectCluster(r)
  <2>1. rule = "redshift"
    BY <1>5 DEF InspectCluster, Turn
  <2>2. ASSUME NEW reads \in BestEffort(account[r].telemetry["ReadIOPS"]),
               NEW writes \in BestEffort(account[r].telemetry["WriteIOPS"]), RedshiftIdle(account[r])
        PROVE  Proven(RedshiftFinding(r, account[r], reads, writes))
    BY <2>1, <2>2, RedshiftProven
  <2> QED
    BY <1>1, <1>5, <2>2 DEF InspectCluster, Report, CallFails, Failed
<1>6. CASE InspectDomain(r)
  <2>1. rule = "opensearch"
    BY <1>6 DEF InspectDomain, Turn
  <2>2. ASSUME NEW searches \in BestEffort(account[r].telemetry["SearchRate"]),
               NEW indexings \in BestEffort(account[r].telemetry["IndexingRate"]), DomainIdle(account[r])
        PROVE  Proven(DomainFinding(r, account[r], searches, indexings))
    BY <2>1, <2>2, DomainProven
  <2> QED
    BY <1>1, <1>6, <2>2 DEF InspectDomain, Report, CallFails, Failed
<1>7. CASE InspectEndpoint(r)
  <2>1. rule = "sagemaker"
    BY <1>7 DEF InspectEndpoint, Turn
  <2>2. EndpointIdle(account[r]) => Proven(EndpointFinding(r, account[r]))
    BY <2>1, EndpointProven
  <2> QED
    BY <1>1, <1>7, <2>2 DEF InspectEndpoint, Report, Failed
<1>8. CASE InspectGroup(r) \/ InspectImage(r)
  <2>1. rule \in {"sg", "ami"}
    BY <1>8 DEF InspectGroup, InspectImage, Turn
  <2> QED
    BY <2>1 DEF Proven
<1> QED
  BY <1>2, <1>3, <1>4, <1>5, <1>6, <1>7, <1>8 DEF Inspect

LEMMA ProvenStep ==
    ASSUME TypeOK, account \in Accounts[rule], IdleIsProven, [Next]_vars
    PROVE  IdleIsProven'
<1>1. \A f \in findings : Proven(f)
  BY ProvenFacts
<1>2. \A f \in findings' \ findings : Proven(f)
  <2>1. ASSUME NEW r \in Resources, NEW user \in UsersOf(rule), Attach(r, user) \/ Detach(r, user)
        PROVE  findings' \subseteq findings
    BY <2>1 DEF Attach, Detach
  <2>2. CASE ListTemplates \/ ReadTemplate \/ ReadConfigurations \/ List \/ ReadInterfaces \/ BuildUsage
    BY <2>2 DEF ListTemplates, ReadTemplate, ReadConfigurations, List, ReadInterfaces, BuildUsage
  <2>3. CASE ListingFails \/ EndFamily \/ UNCHANGED vars
    BY <2>3 DEF ListingFails, Fail, EndFamily, vars
  <2> QED
    BY <2>1, <2>2, <2>3, InspectProven DEF Next
<1>3. \A f \in findings' : Proven(f)'
  <2>1. UNCHANGED <<rule, account>>
    BY TypeStep
  <2> QED
    BY <1>1, <1>2, <2>1, ProvenStays
<1> QED
  BY <1>3 DEF IdleIsProven, Proven

\* nat_gateway_idle.py:324, elb_idle.py:297, opensearch_idle.py:438: what is reported as idle shows
\* no activity in any metric its rule looks at, of which there is as much as the rule calls for,
\* and is of high confidence only where every metric is there; for any telemetry.
THEOREM IdleProven == Spec => []IdleIsProven
<1>1. Init => IdleIsProven /\ account \in Accounts[rule]
  BY DEF Init, IdleIsProven
<1>2. TypeOK /\ account \in Accounts[rule] /\ [Next]_vars => (account \in Accounts[rule])'
  BY TypeStep
<1>3. TypeOK /\ account \in Accounts[rule] /\ IdleIsProven /\ [Next]_vars => IdleIsProven'
  BY ProvenStep
<1> QED
  BY TypeCorrect, <1>1, <1>2, <1>3, PTL DEF Spec

-----------------------------------------------------------------------------
(* The period of a CloudWatch query *)

LEMMA CeilBounds ==
    ASSUME NEW n \in Nat, NEW d \in Nat \ {0}
    PROVE  /\ Ceil(n, d) \in Nat
           /\ n <= Ceil(n, d) * d
           /\ Ceil(n, d) * d < n + d
<1> DEFINE q == (n + d - 1) \div d
           rest == (n + d - 1) % d
<1>1. n + d - 1 \in Nat
  OBVIOUS
<1>2. q \in Nat
  BY <1>1
<1>3. rest \in 0 .. d - 1
  BY <1>1
<1>4. n + d - 1 = d * q + rest
  BY <1>1
<1>5. d * q = q * d /\ d * q \in Nat
  BY <1>2
<1> HIDE DEF q, rest
<1>6. n <= q * d /\ q * d < n + d
  BY <1>2, <1>3, <1>4, <1>5
<1> QED
  BY <1>2, <1>6 DEF Ceil, q

LEMMA CeilLeast ==
    ASSUME NEW n \in Nat, NEW d \in Nat \ {0}, NEW m \in Nat, n <= m * d
    PROVE  Ceil(n, d) <= m
<1> DEFINE q == Ceil(n, d)
<1>1. q \in Nat /\ q * d < n + d
  BY CeilBounds
<1> HIDE DEF q
<1>2. m * d \in Nat /\ q * d \in Nat /\ (m + 1) * d = m * d + d
  BY <1>1
<1>3. q * d < (m + 1) * d
  BY <1>1, <1>2
<1>4. ASSUME m + 1 <= q PROVE (m + 1) * d <= q * d
  BY <1>1, <1>4
<1> QED
  BY <1>1, <1>2, <1>3, <1>4 DEF q

\* Rounding up twice is no more than rounding up once, to a multiple.
LEMMA CeilTwice ==
    ASSUME NEW n \in Nat, NEW p \in Nat \ {0}, NEW g \in Nat \ {0}
    PROVE  /\ Ceil(Ceil(n, p), g) \in Nat
           /\ n <= (Ceil(Ceil(n, p), g) * g) * p
           /\ \A k \in Nat : n <= (k * g) * p => Ceil(Ceil(n, p), g) <= k
<1> DEFINE raw == Ceil(n, p)
           least == Ceil(raw, g)
<1>1. raw \in Nat /\ n <= raw * p
  BY CeilBounds
<1>2. ASSUME NEW k \in Nat, n <= (k * g) * p
      PROVE  raw <= k * g
  <2>1. k * g \in Nat
    OBVIOUS
  <2> QED
    BY <1>2, <2>1, CeilLeast
<1> HIDE DEF raw
<1>3. least \in Nat /\ raw <= least * g
  BY <1>1, CeilBounds
<1>4. \A k \in Nat : raw <= k * g => least <= k
  BY <1>1, CeilLeast
<1> HIDE DEF least
<1>5. least * g \in Nat
  BY <1>3
<1>6. raw * p <= (least * g) * p
  BY <1>1, <1>3, <1>5
<1>7. raw * p \in Nat /\ (least * g) * p \in Nat
  BY <1>1, <1>5
<1>8. n <= (least * g) * p
  BY <1>1, <1>6, <1>7
<1>9. \A k \in Nat : n <= (k * g) * p => least <= k
  BY <1>2, <1>4
<1> QED
  BY <1>3, <1>8, <1>9 DEF least, raw

\* "The selected period is the smallest integer satisfying both" (sagemaker_endpoint_idle.py:116):
\* a multiple of the granularity CloudWatch keeps for points so old, of which at most 1440 reach
\* over all the days asked for.
THEOREM PeriodIsLeast ==
    ASSUME NEW days \in Nat \ {0}
    PROVE  \E least \in Nat :
              /\ ChoosePeriod(days) = least * Granularity(days)
              /\ days * SecondsPerDay <= (least * Granularity(days)) * MaxPoints
              /\ \A k \in Nat :
                    days * SecondsPerDay <= (k * Granularity(days)) * MaxPoints => least <= k
<1> DEFINE least == Ceil(Ceil(days * SecondsPerDay, MaxPoints), Granularity(days))
<1>1. Granularity(days) \in Nat \ {0}
  BY DEF Granularity
<1>2. SecondsPerDay \in Nat /\ MaxPoints \in Nat \ {0}
  BY SMT DEF SecondsPerDay, MaxPoints
<1>3. days * SecondsPerDay \in Nat
  BY <1>2
<1>4. /\ least \in Nat
      /\ days * SecondsPerDay <= (least * Granularity(days)) * MaxPoints
      /\ \A k \in Nat : days * SecondsPerDay <= (k * Granularity(days)) * MaxPoints => least <= k
  BY <1>1, <1>2, <1>3, CeilTwice
<1>5. ChoosePeriod(days) = least * Granularity(days)
  BY DEF ChoosePeriod
<1> QED
  BY <1>4, <1>5
=============================================================================
