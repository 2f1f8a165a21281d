------------------------- MODULE FilterPipeline_proofs -------------------------
(***************************************************************************)
(* Proofs about FilterPipeline, for every pool of findings, configuration  *)
(* and command line.                                                       *)
(***************************************************************************)
EXTENDS FilterPipeline, FiniteSetTheorems, WellFoundedInduction, TLAPS

-----------------------------------------------------------------------------
(***************************************************************************)
(* TotalCost adds up the costs in whatever order CHOOSE takes the findings *)
(* in. That the total does not depend on it is shown by looking at a least *)
(* set for which it would: Table is the recursive function that is behind  *)
(* MapThenSumSet.                                                          *)
(***************************************************************************)
Cost(f) == IF f.cost = None THEN 0 ELSE f.cost
First(s) == CHOOSE x \in s : TRUE
Recurses(g, S) ==
    g = [s \in SUBSET S |-> IF s = {} THEN 0 ELSE Cost(First(s)) + g[s \ {First(s)}]]
Table(S) == CHOOSE g : Recurses(g, S)

LEMMA TotalIsTable ==
    ASSUME NEW S PROVE TotalCost(S) = Table(S)[S]
BY DEF TotalCost, MapThenSumSet, MapThenFoldSet, Table, Recurses, Cost, First

\* Of the subsets of a finite set that have some property, one has none below it.
LEMMA LeastSet ==
    ASSUME NEW S, IsFiniteSet(S), NEW B, B \subseteq SUBSET S, B # {}
    PROVE  \E T \in B : \A U \in B : U \subseteq T => U = T
<1> DEFINE R == StrictSubsetOrdering(S)
<1>1. IsWellFoundedOn(R, SUBSET S)
  BY FS_StrictSubsetOrderingWellFounded, FS_FiniteSubsetsOfFinite
<1>2. \A U, T \in SUBSET S : U \subseteq T /\ U # T => <<U, T>> \in R
  BY DEF StrictSubsetOrdering
<1> HIDE DEF R
<1>3. PICK T \in B : \A U \in B : ~(<<U, T>> \in R)
  BY <1>1, WFMin, Zenon
<1>4. \A U \in B : U \subseteq T => U = T
  BY <1>2, <1>3
<1> QED
  BY <1>4, Zenon

LEMMA FirstIsIn ==
    ASSUME NEW s, s # {}
    PROVE  /\ First(s) \in s
           /\ s \ {First(s)} \subseteq s /\ s \ {First(s)} # s
BY DEF First

LEMMA RecursesFacts ==
    ASSUME NEW g, NEW S, Recurses(g, S), NEW s \in SUBSET S
    PROVE  /\ s = {} => g[s] = 0
           /\ s # {} => g[s] = Cost(First(s)) + g[s \ {First(s)}]
<1> DEFINE value(t) == IF t = {} THEN 0 ELSE Cost(First(t)) + g[t \ {First(t)}]
<1>1. g = [t \in SUBSET S |-> value(t)]
  BY DEF Recurses
<1> HIDE DEF value
<1>2. g[s] = value(s)
  BY <1>1
<1> QED
  BY <1>2 DEF value

\* Two tables agree where both are defined.
LEMMA TablesAgree ==
    ASSUME NEW S, IsFiniteSet(S), NEW T, S \subseteq T,
           NEW g, Recurses(g, S), NEW h, Recurses(h, T)
    PROVE  \A s \in SUBSET S : g[s] = h[s]
<1> DEFINE B == {s \in SUBSET S : g[s] # h[s]}
<1> SUFFICES ASSUME B # {} PROVE FALSE
  OBVIOUS
<1>1. PICK s \in B : \A u \in B : u \subseteq s => u = s
  <2>1. B \subseteq SUBSET S
    OBVIOUS
  <2> HIDE DEF B
  <2> QED
    BY <2>1, LeastSet
<1>2. s \in SUBSET S /\ s \in SUBSET T /\ g[s] # h[s]
  BY <1>1
<1>3. s # {}
  BY <1>2, RecursesFacts
<1> DEFINE u == s \ {First(s)}
<1>4. u \subseteq s /\ u # s /\ u \in SUBSET S
  BY <1>2, <1>3, FirstIsIn
<1>5. g[u] = h[u]
  BY <1>1, <1>4
<1>6. g[s] = Cost(First(s)) + g[u] /\ h[s] = Cost(First(s)) + h[u]
  BY <1>2, <1>3, RecursesFacts
<1> QED
  BY <1>2, <1>5, <1>6

\* And there is one for every finite set.
LEMMA TableRecurses ==
    ASSUME NEW S, IsFiniteSet(S)
    PROVE  Recurses(Table(S), S)
<1> DEFINE B == {s \in SUBSET S : ~Recurses(Table(s), s)}
<1> SUFFICES ASSUME B # {} PROVE FALSE
  OBVIOUS
<1>1. PICK T \in B : \A u \in B : u \subseteq T => u = T
  <2>1. B \subseteq SUBSET S
    OBVIOUS
  <2> HIDE DEF B
  <2> QED
    BY <2>1, LeastSet
<1>2. T \subseteq S /\ ~Recurses(Table(T), T)
  BY <1>1
<1>3. ASSUME NEW u, u \subseteq T, u # T PROVE Recurses(Table(u), u) /\ IsFiniteSet(u)
  BY <1>1, <1>2, <1>3, FS_Subset
<1> HIDE DEF B
<1> DEFINE rest(s) == s \ {First(s)}
           value(s) == IF s = {} THEN 0 ELSE Cost(First(s)) + Table(rest(s))[rest(s)]
           g == [s \in SUBSET T |-> value(s)]
<1>4. ASSUME NEW u, u \subseteq T, u # T PROVE g[u] = Table(u)[u]
  <2>1. Recurses(Table(u), u) /\ IsFiniteSet(u) /\ u \in SUBSET u
    BY <1>3, <1>4
  <2>2. g[u] = value(u)
    BY <1>4
  <2>3. CASE u = {}
    BY <2>1, <2>2, <2>3, RecursesFacts
  <2>4. CASE u # {}
    <3>1. rest(u) \subseteq u /\ rest(u) # T /\ rest(u) \subseteq T
      BY <1>4, <2>4, FirstIsIn
    <3>2. Recurses(Table(rest(u)), rest(u)) /\ IsFiniteSet(rest(u))
      BY <1>3, <3>1
    <3>3. Table(u)[u] = Cost(First(u)) + Table(u)[rest(u)]
      BY <2>1, <2>4, RecursesFacts
    <3>4. Table(rest(u))[rest(u)] = Table(u)[rest(u)]
      <4> DEFINE v == rest(u)
      <4>1. v \subseteq u /\ v \in SUBSET v /\ Recurses(Table(v), v) /\ IsFiniteSet(v)
        BY <3>1, <3>2
      <4> HIDE DEF v
      <4>2. Table(v)[v] = Table(u)[v]
        BY <2>1, <4>1, TablesAgree
      <4> QED
        BY <4>2 DEF v
    <3> QED
      BY <2>2, <2>4, <3>3, <3>4
  <2> QED
    BY <2>3, <2>4
<1>5. ASSUME NEW s \in SUBSET T
      PROVE  value(s) = IF s = {} THEN 0 ELSE Cost(First(s)) + g[s \ {First(s)}]
  <2>1. CASE s = {}
    BY <2>1
  <2>2. CASE s # {}
    <3>1. rest(s) \subseteq T /\ rest(s) # T
      BY <2>2, FirstIsIn
    <3>2. g[rest(s)] = Table(rest(s))[rest(s)]
      BY <1>4, <3>1
    <3> HIDE DEF g
    <3> QED
      BY <2>2, <3>2
  <2> QED
    BY <2>1, <2>2
<1>6. g = [s \in SUBSET T |-> IF s = {} THEN 0 ELSE Cost(First(s)) + g[s \ {First(s)}]]
  <2>1. g = [s \in SUBSET T |-> value(s)]
    OBVIOUS
  <2> HIDE DEF g, value
  <2> QED
    BY <1>5, <2>1
<1> HIDE DEF g
<1>7. Recurses(g, T)
  BY <1>6 DEF Recurses
<1>8. Recurses(Table(T), T)
  BY <1>7 DEF Table
<1> QED
  BY <1>2, <1>8

\* The recursion TotalCost obeys.
LEMMA TotalStep ==
    ASSUME NEW S, IsFiniteSet(S)
    PROVE  /\ S = {} => TotalCost(S) = 0
           /\ S # {} => TotalCost(S) = Cost(First(S)) + TotalCost(S \ {First(S)})
<1>1. Recurses(Table(S), S)
  BY TableRecurses
<1>2. CASE S = {}
  BY <1>1, <1>2, RecursesFacts, TotalIsTable
<1>3. CASE S # {}
  <2> DEFINE u == S \ {First(S)}
  <2>1. u \subseteq S /\ IsFiniteSet(u)
    BY FS_Subset
  <2>2. Recurses(Table(u), u)
    BY <2>1, TableRecurses
  <2>3. Table(u)[u] = Table(S)[u]
    BY <1>1, <2>1, <2>2, TablesAgree
  <2>4. Table(S)[S] = Cost(First(S)) + Table(S)[u]
    BY <1>1, <1>3, RecursesFacts
  <2> QED
    BY <1>3, <2>3, <2>4, TotalIsTable
<1> QED
  BY <1>2, <1>3

LEMMA TotalIsNumber ==
    ASSUME NEW S, IsFiniteSet(S), \A f \in S : Cost(f) \in Nat
    PROVE  TotalCost(S) \in Nat
<1> DEFINE B == {s \in SUBSET S : TotalCost(s) \notin Nat}
<1> SUFFICES ASSUME B # {} PROVE FALSE
  OBVIOUS
<1>1. PICK s \in B : \A u \in B : u \subseteq s => u = s
  <2>1. B \subseteq SUBSET S
    OBVIOUS
  <2> HIDE DEF B
  <2> QED
    BY <2>1, LeastSet
<1>2. s \subseteq S /\ IsFiniteSet(s) /\ TotalCost(s) \notin Nat
  BY <1>1, FS_Subset
<1>3. s # {}
  BY <1>2, TotalStep
<1>4. TotalCost(s) = Cost(First(s)) + TotalCost(s \ {First(s)})
  BY <1>2, <1>3, TotalStep
<1>5. TotalCost(s \ {First(s)}) \in Nat
  BY <1>1, <1>2, <1>3, FirstIsIn
<1>6. Cost(First(s)) \in Nat
  BY <1>2, <1>3, FirstIsIn
<1> QED
  BY <1>2, <1>4, <1>5, <1>6

\* Any finding may be taken first.
LEMMA TotalOfAny ==
    ASSUME NEW S, IsFiniteSet(S), \A f \in S : Cost(f) \in Nat, NEW f \in S
    PROVE  TotalCost(S) = Cost(f) + TotalCost(S \ {f})
<1> DEFINE B == {s \in SUBSET S : \E x \in s : TotalCost(s) # Cost(x) + TotalCost(s \ {x})}
<1> SUFFICES ASSUME B # {} PROVE FALSE
  OBVIOUS
<1>1. PICK s \in B : \A u \in B : u \subseteq s => u = s
  <2>1. B \subseteq SUBSET S
    OBVIOUS
  <2> HIDE DEF B
  <2> QED
    BY <2>1, LeastSet
<1>2. PICK y \in s : TotalCost(s) # Cost(y) + TotalCost(s \ {y})
  BY <1>1
<1>3. ASSUME NEW u, u \subseteq s, u # s, NEW x \in u
      PROVE  TotalCost(u) = Cost(x) + TotalCost(u \ {x})
  BY <1>1, <1>3
<1>4. s \subseteq S
  BY <1>1
<1> HIDE DEF B
<1> DEFINE z == First(s)
<1>5. z \in s /\ IsFiniteSet(s) /\ TotalCost(s) = Cost(z) + TotalCost(s \ {z})
  BY <1>2, <1>4, FS_Subset, TotalStep, FirstIsIn
<1> HIDE DEF z
<1>6. y # z
  BY <1>2, <1>5
<1>7. TotalCost(s \ {z}) = Cost(y) + TotalCost((s \ {z}) \ {y})
  BY <1>3, <1>5, <1>6
<1>8. TotalCost(s \ {y}) = Cost(z) + TotalCost((s \ {y}) \ {z})
  BY <1>2, <1>3, <1>5, <1>6
<1>9. (s \ {z}) \ {y} = (s \ {y}) \ {z}
  OBVIOUS
<1>10. TotalCost((s \ {y}) \ {z}) \in Nat
  <2>1. (s \ {y}) \ {z} \subseteq S
    BY <1>4
  <2> QED
    BY <2>1, FS_Subset, TotalIsNumber
<1>11. Cost(y) \in Nat /\ Cost(z) \in Nat
  BY <1>2, <1>4, <1>5
<1>12. TotalCost(s) = Cost(z) + (Cost(y) + TotalCost((s \ {y}) \ {z}))
  BY <1>5, <1>7, <1>9
<1>13. TotalCost(s) = Cost(y) + (Cost(z) + TotalCost((s \ {y}) \ {z}))
  <2> DEFINE t == TotalCost((s \ {y}) \ {z})
             c == Cost(y)
             d == Cost(z)
  <2>1. t \in Nat /\ c \in Nat /\ d \in Nat
    BY <1>10, <1>11
  <2> HIDE DEF t, c, d
  <2>2. d + (c + t) = c + (d + t)
    BY <2>1
  <2> QED
    BY <1>12, <2>2 DEF t, c, d
<1> QED
  BY <1>2, <1>8, <1>13

-----------------------------------------------------------------------------
USE NoneAssumption, PoolAssumption

(***************************************************************************)
(* The inductive invariant: what is kept after a stage is the part of what *)
(* the scan found that no stage so far had a reason to drop, and what is   *)
(* suppressed is the rest, each finding with the reason of its stage.      *)
(***************************************************************************)
AfterExceptions == {f \in found : ~LiveMatch(f)}
AfterPolicy == {f \in AfterExceptions : PolicyReasons(f) = {}}
AfterTags == {f \in AfterPolicy : ~TagExcluded(f)}

KeptSoFar ==
    /\ stage = "scanned" => kept = found
    /\ stage = "exceptions" => kept = AfterExceptions
    /\ stage = "policy" => kept = {WithRisk(f) : f \in AfterPolicy}
    /\ stage \in {"tags", "exited"} => kept = {WithRisk(f) : f \in AfterTags}

\* The reason a stage up to now had to drop a finding.
Cause(f) ==
    IF stage = "scanned" THEN {}
    ELSE IF LiveMatch(f) THEN {"exception"}
    ELSE IF stage = "exceptions" THEN {}
    ELSE IF PolicyReasons(f) # {} THEN PolicyReasons(f)
    ELSE IF stage \in {"tags", "exited"} /\ TagExcluded(f) THEN {"tag"}
    ELSE {}

SuppressedSoFar ==
    /\ \A f \in found : SuppressedFor(f) = Cause(f)
    /\ \A s \in suppressed : \E f \in found : s.finding.id = f.id

ExitSoFar == exitCode = IF stage = "exited" THEN ExitOf(kept) ELSE None

Inputs ==
    /\ found \in SUBSET FindingPool /\ IsFiniteSet(found)
    /\ config \in Configs
    /\ cli \in Invocations
    /\ stage \in Stages

PInv ==
    /\ Inputs
    /\ KeptSoFar
    /\ SuppressedSoFar
    /\ ExitSoFar
    /\ UnknownCostIsKept

\* A finding of the pool is told from the others by its id, and an override of
\* its risk changes nothing else of it.
LEMMA RiskOnly ==
    ASSUME NEW f \in FindingPool
    PROVE  /\ WithRisk(f).id = f.id
           /\ WithRisk(f).tags = f.tags
           /\ \A g \in FindingPool : g.id = f.id => g = f
BY DEF WithRisk

\* What a policy filter says of a finding: at most one of its two reasons.
LEMMA PolicyReasonsOne ==
    ASSUME NEW f
    PROVE  PolicyReasons(f) \in {{}, {"min_cost"}, {"confidence"}}
BY DEF PolicyReasons

\* The closed form holds of what the scan produced.
LEMMA PInvInit == Init => PInv
BY DEF Init, PInv, Inputs, Stages, KeptSoFar, SuppressedSoFar, SuppressedFor, Cause,
   ExitSoFar, UnknownCostIsKept

\* The predicates the stages apply depend on the inputs only.
LEMMA StablePredicates ==
    ASSUME UNCHANGED <<found, config, cli>>
    PROVE  /\ \A f : LiveMatch(f)' = LiveMatch(f)
           /\ \A f : PolicyReasons(f)' = PolicyReasons(f)
           /\ \A f : TagExcluded(f)' = TagExcluded(f)
           /\ \A f : WithRisk(f)' = WithRisk(f)
<1>1. \A f : LiveMatch(f)' = LiveMatch(f)
  BY DEF LiveMatch, ExceptionMatches, Expired
<1>2. \A r, x : Effective(r, x)' = Effective(r, x)
  BY DEF Effective
<1>3. \A f : PolicyReasons(f)' = PolicyReasons(f)
  BY <1>2 DEF PolicyReasons, BelowMinCost, LowConfidence
<1>4. \A f : WithRisk(f)' = WithRisk(f)
  BY <1>2 DEF WithRisk
<1>5. \A f : TagExcluded(f)' = TagExcluded(f)
  BY DEF TagExcluded, TagRules, TagRuleMatches
<1> QED
  BY <1>1, <1>3, <1>4, <1>5

\* Stage 1 leaves the closed form of stage 1.
LEMMA ExceptionsStep == PInv /\ ApplyExceptions => PInv'
<1> SUFFICES ASSUME PInv, ApplyExceptions PROVE PInv'
  OBVIOUS
<1> DEFINE new == {[finding |-> f, reason |-> "exception"] : f \in {g \in kept : LiveMatch(g)}}
<1>1. /\ stage = "scanned" /\ stage' = "exceptions" /\ kept = found
      /\ kept' = {f \in kept : ~LiveMatch(f)}
      /\ suppressed' = suppressed \cup new
      /\ UNCHANGED <<found, config, cli, exitCode>>
  BY DEF ApplyExceptions, PInv, KeptSoFar
<1>2. Inputs' /\ ExitSoFar'
  BY <1>1 DEF Inputs, Stages, PInv, ExitSoFar
<1>3. KeptSoFar'
  BY <1>1, StablePredicates DEF KeptSoFar, AfterExceptions
<1>4. ASSUME NEW f \in found PROVE SuppressedFor(f)' = Cause(f)'
  <2>1. SuppressedFor(f) = {}
    BY <1>1 DEF PInv, SuppressedSoFar, Cause
  <2>2. \A g \in found : g.id = f.id => g = f
    BY RiskOnly DEF PInv, Inputs
  <2>3. \A s \in {t \in new : t.finding.id = f.id} : s.reason = "exception" /\ LiveMatch(f)
    BY <1>1, <2>2
  <2>4. ASSUME LiveMatch(f)
        PROVE  [finding |-> f, reason |-> "exception"] \in {t \in new : t.finding.id = f.id}
    BY <1>1, <2>4
  <2>5. {s.reason : s \in {t \in new : t.finding.id = f.id}} =
            IF LiveMatch(f) THEN {"exception"} ELSE {}
    BY <2>3, <2>4
  <2>6. Cause(f)' = IF LiveMatch(f) THEN {"exception"} ELSE {}
    BY <1>1, StablePredicates DEF Cause
  <2>7. SuppressedFor(f)' =
            SuppressedFor(f) \cup {s.reason : s \in {t \in new : t.finding.id = f.id}}
    BY <1>1 DEF SuppressedFor
  <2> QED
    BY <2>1, <2>5, <2>6, <2>7
<1>5. SuppressedSoFar'
  BY <1>1, <1>4 DEF PInv, SuppressedSoFar
<1>7. UnknownCostIsKept'
  BY <1>1 DEF PInv, UnknownCostIsKept
<1> QED
  BY <1>2, <1>3, <1>5, <1>7 DEF PInv

\* Stage 2 leaves the closed form of stage 2.
LEMMA PolicyStep == PInv /\ ApplyPolicyFilters => PInv'
<1> SUFFICES ASSUME PInv, ApplyPolicyFilters PROVE PInv'
  OBVIOUS
<1> DEFINE new == UNION {{[finding |-> f, reason |-> r] : r \in PolicyReasons(f)} : f \in kept}
<1>1. /\ stage = "exceptions" /\ stage' = "policy" /\ kept = AfterExceptions
      /\ kept' = {WithRisk(f) : f \in {g \in kept : PolicyReasons(g) = {}}}
      /\ suppressed' = suppressed \cup new
      /\ UNCHANGED <<found, config, cli, expiredEvents, exitCode>>
  BY DEF ApplyPolicyFilters, PInv, KeptSoFar
<1>2. Inputs' /\ ExitSoFar'
  BY <1>1 DEF Inputs, Stages, PInv, ExitSoFar
<1>3. AfterPolicy' = {g \in kept : PolicyReasons(g) = {}}
  BY <1>1, StablePredicates DEF AfterPolicy, AfterExceptions
<1>4. KeptSoFar'
  BY <1>1, <1>3, StablePredicates DEF KeptSoFar
<1>5. ASSUME NEW f \in found PROVE SuppressedFor(f)' = Cause(f)'
  <2>1. SuppressedFor(f) = IF LiveMatch(f) THEN {"exception"} ELSE {}
    BY <1>1 DEF PInv, SuppressedSoFar, Cause
  <2>2. \A g \in kept : g.id = f.id => g = f
    BY <1>1, RiskOnly DEF PInv, Inputs, AfterExceptions
  <2>3. \A s \in {t \in new : t.finding.id = f.id} : f \in kept /\ s.reason \in PolicyReasons(f)
    BY <1>1, <2>2
  <2>4. ASSUME f \in kept, NEW r \in PolicyReasons(f)
        PROVE  [finding |-> f, reason |-> r] \in {t \in new : t.finding.id = f.id}
    BY <1>1, <2>4
  <2>5. {s.reason : s \in {t \in new : t.finding.id = f.id}} =
            IF f \in kept THEN PolicyReasons(f) ELSE {}
    <3> DEFINE mine == {t \in new : t.finding.id = f.id}
    <3>1. ASSUME f \in kept, NEW r \in PolicyReasons(f) PROVE \E s \in mine : s.reason = r
      BY <2>4, <3>1
    <3>2. \A s \in mine : f \in kept /\ s.reason \in PolicyReasons(f)
      BY <2>3
    <3> HIDE DEF mine
    <3>3. {s.reason : s \in mine} = IF f \in kept THEN PolicyReasons(f) ELSE {}
      BY <3>1, <3>2
    <3> QED
      BY <3>3 DEF mine
  <2>6. Cause(f)' = IF LiveMatch(f) THEN {"exception"} ELSE PolicyReasons(f)
    BY <1>1, StablePredicates DEF Cause
  <2>7. SuppressedFor(f)' =
            SuppressedFor(f) \cup {s.reason : s \in {t \in new : t.finding.id = f.id}}
    BY <1>1 DEF SuppressedFor
  <2> QED
    BY <1>1, <2>1, <2>5, <2>6, <2>7 DEF AfterExceptions
<1>6. SuppressedSoFar'
  BY <1>1, <1>5 DEF PInv, SuppressedSoFar, AfterExceptions
<1>8. ASSUME NEW s \in new, s.reason = "min_cost"
      PROVE  /\ s.finding.cost # None
             /\ \E min \in {config.rules[s.finding.rule].minCost, config.defaults.minCost} \ {None} :
                   s.finding.cost < min
  <2>1. BelowMinCost(s.finding)
    BY <1>8 DEF PolicyReasons
  <2> QED
    BY <2>1 DEF BelowMinCost, Effective
<1>9. UnknownCostIsKept'
  BY <1>1, <1>8 DEF PInv, UnknownCostIsKept
<1> QED
  BY <1>2, <1>4, <1>6, <1>9 DEF PInv

\* Stage 3 leaves the closed form of stage 3.
LEMMA TagsStep == PInv /\ FilterByTags => PInv'
<1> SUFFICES ASSUME PInv, FilterByTags PROVE PInv'
  OBVIOUS
<1> DEFINE new == {[finding |-> f, reason |-> "tag"] : f \in {g \in kept : TagExcluded(g)}}
<1>1. /\ stage = "policy" /\ stage' = "tags" /\ kept = {WithRisk(f) : f \in AfterPolicy}
      /\ kept' = {f \in kept : ~TagExcluded(f)}
      /\ suppressed' = suppressed \cup new
      /\ UNCHANGED <<found, config, cli, expiredEvents, exitCode>>
  BY DEF FilterByTags, PInv, KeptSoFar
<1>2. Inputs' /\ ExitSoFar'
  BY <1>1 DEF Inputs, Stages, PInv, ExitSoFar
<1>3. AfterPolicy' = AfterPolicy /\ AfterPolicy \subseteq FindingPool
  BY <1>1, StablePredicates DEF AfterPolicy, AfterExceptions, PInv, Inputs
<1>4. \A f \in FindingPool : /\ TagExcluded(WithRisk(f)) <=> TagExcluded(f)
                            /\ WithRisk(f).id = f.id
  BY RiskOnly DEF TagExcluded
<1>5. KeptSoFar'
  <2>1. AfterTags' = {f \in AfterPolicy : ~TagExcluded(f)}
    BY <1>1, <1>3, StablePredicates DEF AfterTags
  <2>2. kept' = {WithRisk(f) : f \in {g \in AfterPolicy : ~TagExcluded(g)}}
    BY <1>1, <1>3, <1>4
  <2> QED
    BY <1>1, <2>1, <2>2, StablePredicates DEF KeptSoFar
<1>6. ASSUME NEW f \in found PROVE SuppressedFor(f)' = Cause(f)'
  <2>1. SuppressedFor(f) = IF LiveMatch(f) THEN {"exception"} ELSE PolicyReasons(f)
    BY <1>1 DEF PInv, SuppressedSoFar, Cause
  <2>2. \A g \in AfterPolicy : g.id = f.id => g = f
    BY <1>3, RiskOnly DEF PInv, Inputs
  <2>3. f \in AfterPolicy <=> ~LiveMatch(f) /\ PolicyReasons(f) = {}
    BY DEF AfterPolicy, AfterExceptions
  <2>4. \A s \in {t \in new : t.finding.id = f.id} :
            s.reason = "tag" /\ f \in AfterPolicy /\ TagExcluded(f)
    BY <1>1, <1>3, <1>4, <2>2
  <2>5. ASSUME f \in AfterPolicy, TagExcluded(f)
        PROVE  [finding |-> WithRisk(f), reason |-> "tag"] \in {t \in new : t.finding.id = f.id}
    BY <1>1, <1>3, <1>4, <2>5
  <2>6. {s.reason : s \in {t \in new : t.finding.id = f.id}} =
            IF f \in AfterPolicy /\ TagExcluded(f) THEN {"tag"} ELSE {}
    BY <2>4, <2>5
  <2>7. Cause(f)' = IF LiveMatch(f) THEN {"exception"}
                    ELSE IF PolicyReasons(f) # {} THEN PolicyReasons(f)
                    ELSE IF TagExcluded(f) THEN {"tag"} ELSE {}
    BY <1>1, StablePredicates DEF Cause
  <2>8. SuppressedFor(f)' =
            SuppressedFor(f) \cup {s.reason : s \in {t \in new : t.finding.id = f.id}}
    BY <1>1 DEF SuppressedFor
  <2> QED
    BY <2>1, <2>3, <2>6, <2>7, <2>8
<1>7. SuppressedSoFar'
  <2>1. \A s \in new : \E f \in found : s.finding.id = f.id
    BY <1>1, <1>3, <1>4 DEF AfterPolicy, AfterExceptions
  <2> QED
    BY <1>1, <1>6, <2>1 DEF PInv, SuppressedSoFar
<1>9. UnknownCostIsKept'
  BY <1>1 DEF PInv, UnknownCostIsKept
<1> QED
  BY <1>2, <1>5, <1>7, <1>9 DEF PInv

\* Stage 4 sets the exit code of what is left.
LEMMA ExitStep == PInv /\ DetermineExitCode => PInv'
<1> SUFFICES ASSUME PInv, DetermineExitCode PROVE PInv'
  OBVIOUS
<1>1. /\ stage = "tags" /\ stage' = "exited" /\ exitCode' = ExitOf(kept)
      /\ UNCHANGED <<found, config, cli, kept, suppressed, expiredEvents>>
  BY DEF DetermineExitCode
<1>2. Inputs'
  BY <1>1 DEF Inputs, Stages, PInv
<1>3. KeptSoFar'
  BY <1>1, StablePredicates DEF PInv, KeptSoFar, AfterTags, AfterPolicy, AfterExceptions
<1>4. SuppressedSoFar'
  <2>1. \A f : Cause(f)' = Cause(f)
    BY <1>1, StablePredicates DEF Cause
  <2>2. \A f : SuppressedFor(f)' = SuppressedFor(f)
    BY <1>1 DEF SuppressedFor
  <2> QED
    BY <1>1, <2>1, <2>2 DEF PInv, SuppressedSoFar
<1>6. ExitSoFar'
  BY <1>1 DEF ExitSoFar, ExitOf, FailOnFindings, Threshold
<1>7. UnknownCostIsKept'
  BY <1>1 DEF PInv, UnknownCostIsKept
<1> QED
  BY <1>2, <1>3, <1>4, <1>6, <1>7 DEF PInv

\* A stutter keeps the closed form.
LEMMA PInvStutter == PInv /\ UNCHANGED vars => PInv'
<1> SUFFICES ASSUME PInv, UNCHANGED vars PROVE PInv'
  OBVIOUS
<1> USE DEF vars
<1>1. \A f : SuppressedFor(f)' = SuppressedFor(f) /\ Cause(f)' = Cause(f)
  BY StablePredicates DEF SuppressedFor, Cause
<1>2. Inputs' /\ SuppressedSoFar' /\ UnknownCostIsKept'
  BY <1>1 DEF PInv, Inputs, SuppressedSoFar, UnknownCostIsKept
<1>3. KeptSoFar'
  BY StablePredicates DEF PInv, KeptSoFar, AfterTags, AfterPolicy, AfterExceptions
<1>4. ExitSoFar'
  BY DEF PInv, ExitSoFar, ExitOf, FailOnFindings, Threshold
<1> QED
  BY <1>2, <1>3, <1>4 DEF PInv

\* The closed form holds at every stage.
LEMMA PInvHolds == Spec => []PInv
<1>1. PInv /\ [Next]_vars => PInv'
  BY ExceptionsStep, PolicyStep, TagsStep, ExitStep, PInvStutter DEF Next
<1> QED
  BY PInvInit, <1>1, PTL DEF Spec

-----------------------------------------------------------------------------
\* The ids that are left are those of the findings no stage had a reason to drop.
LEMMA KeptIds ==
    ASSUME PInv, NEW f \in found
    PROVE  f.id \in Ids(kept) <=> Cause(f) = {}
<1>1. /\ found \subseteq FindingPool
      /\ AfterPolicy \subseteq found
      /\ AfterTags \subseteq found
      /\ stage \in Stages
  BY DEF PInv, Inputs, AfterTags, AfterPolicy, AfterExceptions
<1>2. \A g \in found : WithRisk(g).id = f.id <=> g = f
  BY <1>1, RiskOnly
<1>3. \A g \in found : g.id = f.id <=> g = f
  BY <1>1, RiskOnly
<1>4. CASE stage \in {"scanned", "exceptions"}
  BY <1>3, <1>4 DEF PInv, KeptSoFar, AfterExceptions, Ids, Cause
<1>5. CASE stage = "policy"
  <2>1. f.id \in Ids(kept) <=> f \in AfterPolicy
    BY <1>1, <1>2, <1>5 DEF PInv, KeptSoFar, Ids
  <2> QED
    BY <1>5, <2>1 DEF AfterPolicy, AfterExceptions, Cause
<1>6. CASE stage \in {"tags", "exited"}
  <2>1. f.id \in Ids(kept) <=> f \in AfterTags
    BY <1>1, <1>2, <1>6 DEF PInv, KeptSoFar, Ids
  <2> QED
    BY <1>6, <2>1 DEF AfterTags, AfterPolicy, AfterExceptions, Cause
<1> QED
  BY <1>1, <1>4, <1>5, <1>6 DEF Stages

\* Every finding of a scan is kept or suppressed, never both, and suppressed for
\* one reason only, whatever the configuration and the command line.
THEOREM FindingsAccounted == Spec => []EveryFindingAccounted
<1>1. PInv => EveryFindingAccounted
  <2> SUFFICES ASSUME PInv, NEW f \in found
               PROVE  /\ f.id \in Ids(kept) <=> SuppressedFor(f) = {}
                      /\ \A r1, r2 \in SuppressedFor(f) : r1 = r2
    BY DEF EveryFindingAccounted
  <2>1. SuppressedFor(f) = Cause(f)
    BY DEF PInv, SuppressedSoFar
  <2>2. \A r1, r2 \in Cause(f) : r1 = r2
    BY PolicyReasonsOne DEF Cause
  <2> QED
    BY <2>1, <2>2, KeptIds
<1> QED
  BY <1>1, PInvHolds, PTL

\* An approval is absolute up to its last day, and nothing but an approval is
\* reported as one.
THEOREM ApprovalsAreAbsolute == Spec => []ExceptionsAreAbsolute
<1>1. PInv => ExceptionsAreAbsolute
  <2> SUFFICES ASSUME PInv, stage # "scanned", NEW f \in found
               PROVE  IF Approved(f) THEN SuppressedFor(f) = {"exception"}
                      ELSE "exception" \notin SuppressedFor(f)
    BY DEF ExceptionsAreAbsolute
  <2>1. SuppressedFor(f) = Cause(f)
    BY DEF PInv, SuppressedSoFar
  <2>2. Approved(f) <=> LiveMatch(f)
    BY ConfigAssumption, TodayAssumption DEF Approved, LiveMatch, Expired, PInv, Inputs
  <2> QED
    BY <2>1, <2>2, PolicyReasonsOne DEF Cause
<1> QED
  BY <1>1, PInvHolds, PTL

\* No finding without a cost estimate is dropped for its cost.
THEOREM CostMustBeKnown == Spec => []UnknownCostIsKept
<1>1. PInv => UnknownCostIsKept
  BY DEF PInv
<1> QED
  BY <1>1, PInvHolds, PTL

\* The types of every reachable state.
THEOREM PipelineTypes == Spec => []TypeOK
<1>1. PInv => TypeOK
  <2> SUFFICES ASSUME PInv PROVE TypeOK
    OBVIOUS
  <2>1. Inputs
    BY DEF PInv
  <2>2. Ids(kept) \subseteq Ids(found)
    <3>1. \A f \in found : WithRisk(f).id = f.id
      BY <2>1, RiskOnly DEF Inputs
    <3> QED
      BY <2>1, <3>1 DEF PInv, Inputs, KeptSoFar, Stages, AfterTags, AfterPolicy, AfterExceptions, Ids
  <2>3. ASSUME NEW s \in suppressed PROVE s.finding.id \in Ids(found) /\ s.reason \in Reasons
    <3>1. PICK f \in found : s.finding.id = f.id
      BY DEF PInv, SuppressedSoFar
    <3>2. s.reason \in Cause(f)
      BY <3>1 DEF PInv, SuppressedSoFar, SuppressedFor
    <3> QED
      BY <3>1, <3>2, PolicyReasonsOne DEF Cause, Reasons, Ids
  <2>4. exitCode \in {None, 0, 2}
    BY DEF PInv, ExitSoFar, ExitOf
  <2> QED
    BY <2>1, <2>2, <2>3, <2>4 DEF TypeOK, Inputs
<1> QED
  BY <1>1, PInvHolds, PTL

\* An override of the risk leaves the costs alone, and findings stay apart.
LEMMA OverrideKeepsCost ==
    ASSUME NEW f \in FindingPool
    PROVE  /\ Cost(WithRisk(f)) = Cost(f) /\ Cost(f) \in Nat
           /\ WithRisk(f).confidence = f.confidence
           /\ \A g \in FindingPool : WithRisk(g) = WithRisk(f) => g = f
<1>1. WithRisk(f).cost = f.cost /\ WithRisk(f).confidence = f.confidence
  BY DEF WithRisk
<1>2. f.cost \in Nat \cup {None}
  OBVIOUS
<1>3. ASSUME NEW g \in FindingPool, WithRisk(g) = WithRisk(f) PROVE g = f
  <2>1. g.id = f.id
    BY <1>3, RiskOnly
  <2> QED
    BY <2>1, RiskOnly
<1> QED
  BY <1>1, <1>2, <1>3 DEF Cost

\* Nor do the overrides of a set of findings change its total.
LEMMA OverridesKeepTotal ==
    ASSUME NEW S, IsFiniteSet(S), S \subseteq FindingPool
    PROVE  TotalCost({WithRisk(f) : f \in S}) = TotalCost(S)
<1> DEFINE image(s) == {WithRisk(f) : f \in s}
           Same(s) == IsFiniteSet(image(s)) /\ TotalCost(image(s)) = TotalCost(s)
           B == {s \in SUBSET S : ~Same(s)}
<1> SUFFICES ASSUME B # {} PROVE FALSE
  OBVIOUS
<1>1. PICK s \in B : \A u \in B : u \subseteq s => u = s
  <2>1. B \subseteq SUBSET S
    OBVIOUS
  <2> HIDE DEF B
  <2> QED
    BY <2>1, LeastSet
<1>2. s \subseteq FindingPool /\ IsFiniteSet(s) /\ ~Same(s)
  BY <1>1, FS_Subset
<1>3. s # {}
  <2> SUFFICES ASSUME s = {} PROVE Same(s)
    BY <1>2
  <2>1. image(s) = s
    OBVIOUS
  <2> QED
    BY <1>2, <2>1
<1> DEFINE x == First(s)
           rest == s \ {x}
<1>4. x \in s /\ rest \subseteq s /\ rest # s
  BY <1>3, FirstIsIn
<1>5. Same(rest)
  <2>1. rest \subseteq S
    BY <1>1, <1>4
  <2> HIDE DEF rest, Same
  <2> QED
    BY <1>1, <1>4, <2>1
<1>6. image(s) = image(rest) \cup {WithRisk(x)}
  BY <1>4
<1>7. WithRisk(x) \in image(s) /\ image(s) \ {WithRisk(x)} = image(rest)
  <2>1. \A f \in rest : WithRisk(f) # WithRisk(x)
    BY <1>2, <1>4, OverrideKeepsCost
  <2> HIDE DEF x, rest
  <2> QED
    BY <1>6, <2>1
<1>8. IsFiniteSet(image(s))
  <2> HIDE DEF image, x, rest
  <2> QED
    BY <1>5, <1>6, FS_AddElement
<1>9. \A g \in image(s) : Cost(g) \in Nat
  BY <1>2, OverrideKeepsCost
<1>10. TotalCost(image(s)) = Cost(WithRisk(x)) + TotalCost(image(rest))
  <2> HIDE DEF image, x, rest
  <2> QED
    BY <1>7, <1>8, <1>9, TotalOfAny
<1>11. TotalCost(s) = Cost(x) + TotalCost(rest)
  BY <1>2, <1>3, TotalStep
<1>12. Cost(WithRisk(x)) = Cost(x)
  BY <1>2, <1>4, OverrideKeepsCost
<1>13. TotalCost(image(s)) = TotalCost(s)
  BY <1>5, <1>10, <1>11, <1>12
<1> QED
  BY <1>2, <1>8, <1>13

\* schema.py:36-37, override_risk_level is display only: the gate would decide the same of the
\* findings that are kept, had they the risk the scan gave them.
THEOREM OverridesAreCosmetic == Spec => []RiskOverrideIsCosmetic
<1>1. PInv => RiskOverrideIsCosmetic
  <2> SUFFICES ASSUME PInv, stage = "exited" PROVE exitCode = ExitOf(KeptOriginals)
    BY DEF RiskOverrideIsCosmetic
  <2>1. /\ AfterTags \subseteq found /\ AfterTags \subseteq FindingPool /\ IsFiniteSet(AfterTags)
        /\ kept = {WithRisk(f) : f \in AfterTags} /\ exitCode = ExitOf(kept)
    BY FS_Subset DEF PInv, Inputs, KeptSoFar, ExitSoFar, AfterTags, AfterPolicy, AfterExceptions
  <2>2. KeptOriginals = AfterTags
    <3>1. \A f \in found : f.id \in Ids(kept) <=> f \in AfterTags
      <4>1. \A f \in found, g \in AfterTags : WithRisk(g).id = f.id <=> g = f
        BY <2>1, RiskOnly DEF PInv, Inputs
      <4> QED
        BY <2>1, <4>1 DEF Ids
    <3> QED
      BY <2>1, <3>1 DEF KeptOriginals
  <2>3. TotalCost(kept) = TotalCost(AfterTags)
    BY <2>1, OverridesKeepTotal
  <2>4. kept = {} <=> AfterTags = {}
    BY <2>1
  <2>5. \A c : (\E f \in kept : f.confidence >= c) <=> (\E f \in AfterTags : f.confidence >= c)
    BY <2>1, OverrideKeepsCost
  <2>6. ExitOf(kept) = ExitOf(AfterTags)
    BY <2>3, <2>4, <2>5 DEF ExitOf
  <2> QED
    BY <2>1, <2>2, <2>6
<1> QED
  BY <1>1, PInvHolds, PTL

\* Findings of unknown cost add nothing to a total.
LEMMA UnknownsAddNothing ==
    ASSUME NEW S, IsFiniteSet(S), S \subseteq FindingPool
    PROVE  TotalCost(S) = TotalCost({f \in S : f.cost # None})
<1> DEFINE known == {f \in S : f.cost # None}
           unknown == {f \in S : f.cost = None}
           B == {u \in SUBSET unknown : TotalCost(known \cup u) # TotalCost(known)}
<1>1. \A f \in S : Cost(f) \in Nat /\ (f \in unknown => Cost(f) = 0)
  BY DEF Cost
<1>2. IsFiniteSet(unknown) /\ \A u \in SUBSET unknown : IsFiniteSet(known \cup u)
  <2>1. \A u \in SUBSET unknown : known \cup u \subseteq S
    OBVIOUS
  <2> HIDE DEF known
  <2> QED
    BY <2>1, FS_Subset
<1>3. S = known \cup unknown /\ known \cap unknown = {}
  OBVIOUS
<1>4. known \subseteq S /\ unknown \subseteq S
  OBVIOUS
<1> HIDE DEF known, unknown
<1>5. TotalCost(known) \in Nat
  BY <1>1, <1>2, <1>4, FS_Subset, TotalIsNumber
<1>6. B = {}
  <2> SUFFICES ASSUME B # {} PROVE FALSE
    OBVIOUS
  <2>1. PICK T \in B : \A u \in B : u \subseteq T => u = T
    <3>1. B \subseteq SUBSET unknown
      OBVIOUS
    <3> HIDE DEF B
    <3> QED
      BY <1>2, <3>1, LeastSet
  <2>2. T \subseteq unknown /\ TotalCost(known \cup T) # TotalCost(known)
    BY <2>1
  <2>3. PICK x \in T : TRUE
    <3>1. T # {}
      <4> SUFFICES ASSUME T = {} PROVE FALSE
        OBVIOUS
      <4>1. known \cup T = known
        OBVIOUS
      <4> QED
        BY <2>2, <4>1
    <3> QED
      BY <3>1
  <2>4. TotalCost(known \cup (T \ {x})) = TotalCost(known)
    <3>1. T \ {x} \in SUBSET unknown /\ T \ {x} \subseteq T /\ T \ {x} # T
      BY <2>2, <2>3
    <3> QED
      BY <2>1, <3>1
  <2>5. (known \cup T) \ {x} = known \cup (T \ {x})
    BY <1>3, <2>2, <2>3
  <2>6. TotalCost(known \cup T) = Cost(x) + TotalCost((known \cup T) \ {x})
    <3>1. IsFiniteSet(known \cup T) /\ x \in known \cup T /\ \A f \in known \cup T : Cost(f) \in Nat
      BY <1>1, <1>2, <1>4, <2>2, <2>3
    <3> QED
      BY <3>1, TotalOfAny
  <2>7. Cost(x) = 0
    BY <1>1, <1>4, <2>2, <2>3
  <2>8. TotalCost(known \cup T) = 0 + TotalCost(known)
    <3> DEFINE c == Cost(x)
    <3>1. TotalCost(known \cup T) = c + TotalCost(known)
      BY <2>4, <2>5, <2>6
    <3>2. c = 0
      BY <2>7
    <3> HIDE DEF c
    <3> QED
      BY <3>1, <3>2
  <2>9. \A n \in Nat : 0 + n = n
    OBVIOUS
  <2> QED
    BY <1>5, <2>2, <2>8, <2>9
<1>7. TotalCost(known \cup unknown) = TotalCost(known)
  BY <1>6
<1> QED
  BY <1>3, <1>7 DEF known

\* What the stages leave is what counts.
LEMMA CountedIsKept ==
    ASSUME PInv
    PROVE  AfterTags = {f \in found : Counts(f)}
<1>1. ASSUME NEW f \in found PROVE f \in AfterTags <=> Counts(f)
  <2>1. Approved(f) <=> LiveMatch(f)
    BY ConfigAssumption, TodayAssumption DEF Approved, LiveMatch, Expired, PInv, Inputs
  <2>2. PolicyReasons(f) = {} <=> ~BelowMinCost(f) /\ ~LowConfidence(f)
    BY DEF PolicyReasons
  <2>3. f \in AfterTags <=> ~LiveMatch(f) /\ PolicyReasons(f) = {} /\ ~TagExcluded(f)
    BY DEF AfterTags, AfterPolicy, AfterExceptions
  <2> QED
    BY <2>1, <2>2, <2>3 DEF Counts, BelowMinCost, LowConfidence
<1> QED
  BY <1>1 DEF AfterTags, AfterPolicy, AfterExceptions

\* best-practices.md:69, exit_policy.py:18-27: after all stages a scan fails the gate exactly if
\* the findings that nothing in the configuration takes out reach a threshold, whatever the
\* findings, also with costs that are unknown or equal to a limit.
THEOREM GateIsSound == Spec => []GateFollowsThePolicy
<1>1. PInv => GateFollowsThePolicy
  <2> DEFINE counted == {f \in found : Counts(f)}
             level == Threshold("confidence")
             cost == Threshold("cost")
             known == {f \in counted : f.cost # None}
  <2> SUFFICES ASSUME PInv, stage = "exited"
               PROVE  (exitCode = 2) <=>
                          /\ counted # {}
                          /\ \/ FailOnFindings
                             \/ level # None /\ \E f \in counted : f.confidence >= level
                             \/ cost # None /\ TotalCost(known) >= cost
    BY DEF GateFollowsThePolicy
  <2>1. counted = AfterTags
    BY CountedIsKept
  <2>2. counted \subseteq FindingPool /\ IsFiniteSet(counted)
    BY FS_Subset DEF PInv, Inputs
  <2>3. kept = {WithRisk(f) : f \in counted} /\ exitCode = ExitOf(kept)
    BY <2>1 DEF PInv, KeptSoFar, ExitSoFar
  <2> HIDE DEF counted
  <2>4. TotalCost(kept) = TotalCost(known)
    BY <2>2, <2>3, OverridesKeepTotal, UnknownsAddNothing
  <2>5. kept = {} <=> counted = {}
    BY <2>3
  <2>6. (\E f \in kept : f.confidence >= level) <=> (\E f \in counted : f.confidence >= level)
    BY <2>2, <2>3, OverrideKeepsCost
  <2> HIDE DEF known
  <2> QED
    BY <2>3, <2>4, <2>5, <2>6 DEF ExitOf
<1> QED
  BY <1>1, PInvHolds, PTL
=============================================================================
