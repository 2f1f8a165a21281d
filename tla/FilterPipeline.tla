--------------------------- MODULE FilterPipeline ---------------------------
(***************************************************************************)
(* What happens to the findings of a scan on their way to the report and   *)
(* to the exit code: exceptions, policy filters, tag filtering, thresholds *)
(* (filtering/rules.py, filtering/tags.py, policy/exit_policy.py, and the  *)
(* order scan/command.py runs them in).                                    *)
(*                                                                         *)
(* A finding is a record with an id: the list may hold equal findings. A   *)
(* glob pattern is the set of resources it matches, a set of tags is a     *)
(* function from keys to values, dates are day numbers, costs are cents.   *)
(* None stands for Python's None.                                          *)
(***************************************************************************)
EXTENDS Naturals, FiniteSets, FiniteSetsExt

CONSTANTS
    FindingPool,   \* the findings a scan may produce
    Configs,       \* the configuration files a user may have
    Invocations,   \* the --ignore-tag and --fail-on-* flags a user may pass
    Today,         \* date.today()
    None

\* The type of a finding, whatever the pool is.
RiskLevels == {"LOW", "MEDIUM", "HIGH", "CRITICAL"}

ASSUME NoneAssumption == None \notin Nat /\ None \notin RiskLevels
ASSUME TodayAssumption == Today \in Nat
ASSUME PoolAssumption ==
    /\ \A f \in FindingPool : /\ DOMAIN f = {"id", "rule", "resource", "account", "region",
                                            "cost", "confidence", "risk", "tags"}
                              /\ f.cost \in Nat \cup {None}
                              /\ f.confidence \in 0 .. 3
                              /\ f.risk \in RiskLevels
    /\ \A f, g \in FindingPool : f.id = g.id => f = g
ASSUME ConfigAssumption ==
    \A c \in Configs :
        /\ \A f \in FindingPool : c.rules[f.rule].risk \in RiskLevels \cup {None}
        /\ c.defaults.risk \in RiskLevels \cup {None}
        /\ \A e \in c.exceptions : e.expires \in Nat \cup {None}
        /\ c.thresholds.confidence \in (1 .. 3) \cup {None}
ASSUME InvocationAssumption ==
    \A i \in Invocations : i.thresholds.confidence \in (1 .. 3) \cup {None}

VARIABLES
    found,           \* what the scan produced
    config,          \* cleancloud.yaml
    cli,             \* the command line
    stage,           \* the last stage that has run
    kept,            \* findings still in the pipeline
    suppressed,      \* all_suppressed: [finding, reason]
    expiredEvents,   \* [exception, finding]: matched, but past expires_at
    exitCode         \* None until determine_exit_code has run

vars == <<found, config, cli, stage, kept, suppressed, expiredEvents, exitCode>>

Stages == {"scanned", "exceptions", "policy", "tags", "exited"}
Reasons == {"exception", "min_cost", "confidence", "tag"}
Ids(findings) == {f.id : f \in findings}

-----------------------------------------------------------------------------
(* Stage 1: exceptions *)

ExceptionMatches(f, e) ==
    /\ e.rule = f.rule
    /\ f.resource \in e.resources
    /\ e.account # None => f.account = e.account
    /\ e.region # None => f.region = e.region

\* Mutant: an exception already counts as expired on its last day.
ExpiredOnLastDay(e) == e.expires # None /\ e.expires <= Today

Expired(e) == e.expires # None /\ e.expires < Today

LiveMatch(f) == \E e \in config.exceptions : ExceptionMatches(f, e) /\ ~Expired(e)

\* Every expired match is recorded, also when another exception is live.
ExpiredMatches ==
    {ev \in [exception : config.exceptions, finding : kept] :
        ExceptionMatches(ev.finding, ev.exception) /\ Expired(ev.exception)}

ApplyExceptions ==
    /\ stage = "scanned"
    /\ kept' = {f \in kept : ~LiveMatch(f)}
    /\ suppressed' = suppressed \cup
          {[finding |-> f, reason |-> "exception"] : f \in {g \in kept : LiveMatch(g)}}
    /\ expiredEvents' = ExpiredMatches
    /\ stage' = "exceptions"
    /\ UNCHANGED <<found, config, cli, exitCode>>

-----------------------------------------------------------------------------
(* Stage 2: min_cost, confidence, override_risk_level *)

\* Per-rule values win, defaults fill what is unset.
Effective(rule, field) ==
    IF config.rules[rule][field] # None
      THEN config.rules[rule][field]
      ELSE config.defaults[field]

BelowMinCost(f) ==
    LET min == Effective(f.rule, "minCost")
    IN  min # None /\ f.cost # None /\ f.cost < min

LowConfidence(f) ==
    LET min == Effective(f.rule, "confidence")
    IN  min # None /\ f.confidence < min

WithRisk(f) ==
    LET risk == Effective(f.rule, "risk")
    IN  IF risk # None THEN [f EXCEPT !.risk = risk] ELSE f

\* Mutant: the `continue` after the min_cost branch is missing.
PolicyReasonsNoContinue(f) ==
    {r \in {"min_cost", "confidence"} :
        (r = "min_cost" /\ BelowMinCost(f)) \/ (r = "confidence" /\ LowConfidence(f))}

\* The reasons for which a finding leaves at this stage: at most one.
PolicyReasons(f) ==
    IF BelowMinCost(f) THEN {"min_cost"}
    ELSE IF LowConfidence(f) THEN {"confidence"}
    ELSE {}

\* Mutant: an override also replaces the confidence the thresholds look at.
OverrideConfidence ==
    /\ stage = "exceptions"
    /\ kept' = {IF Effective(f.rule, "risk") # None THEN [WithRisk(f) EXCEPT !.confidence = 3]
                ELSE f : f \in {g \in kept : PolicyReasons(g) = {}}}
    /\ suppressed' = suppressed \cup
          UNION {{[finding |-> f, reason |-> r] : r \in PolicyReasons(f)} : f \in kept}
    /\ stage' = "policy"
    /\ UNCHANGED <<found, config, cli, expiredEvents, exitCode>>

ApplyPolicyFilters ==
    /\ stage = "exceptions"
    /\ kept' = {WithRisk(f) : f \in {g \in kept : PolicyReasons(g) = {}}}
    /\ suppressed' = suppressed \cup
          UNION {{[finding |-> f, reason |-> r] : r \in PolicyReasons(f)} : f \in kept}
    /\ stage' = "policy"
    /\ UNCHANGED <<found, config, cli, expiredEvents, exitCode>>

-----------------------------------------------------------------------------
(* Stage 3: tags *)

TagRuleMatches(rule, tags) ==
    /\ rule.key \in DOMAIN tags
    /\ rule.values = {} \/ tags[rule.key] \in rule.values

\* --ignore-tag replaces the rules of the configuration file.
TagRules ==
    IF cli.ignoreTags # {} THEN cli.ignoreTags
    ELSE IF config.tagsEnabled THEN config.ignoreTags
    ELSE {}

TagExcluded(f) == \E rule \in TagRules : TagRuleMatches(rule, f.tags)

FilterByTags ==
    /\ stage = "policy"
    /\ kept' = {f \in kept : ~TagExcluded(f)}
    /\ suppressed' = suppressed \cup
          {[finding |-> f, reason |-> "tag"] : f \in {g \in kept : TagExcluded(g)}}
    /\ stage' = "tags"
    /\ UNCHANGED <<found, config, cli, expiredEvents, exitCode>>

-----------------------------------------------------------------------------
(* Stage 4: thresholds *)

\* Flags first, the configuration file where a flag was not given.
Threshold(field) ==
    IF cli.thresholds[field] # None THEN cli.thresholds[field] ELSE config.thresholds[field]
FailOnFindings == cli.thresholds.findings \/ config.thresholds.findings

TotalCost(findings) ==
    MapThenSumSet(LAMBDA f : IF f.cost = None THEN 0 ELSE f.cost, findings)

\* Mutant: a cost has to exceed the threshold.
ExitOfAbove(findings) ==
    IF findings = {} THEN 0
    ELSE IF FailOnFindings THEN 2
    ELSE IF /\ Threshold("confidence") # None
            /\ \E f \in findings : f.confidence >= Threshold("confidence") THEN 2
    ELSE IF Threshold("cost") # None /\ TotalCost(findings) > Threshold("cost") THEN 2
    ELSE 0

\* Mutant: a cost over the threshold ends the scan like a crash would.
ExitOfError(findings) ==
    IF findings = {} THEN 0
    ELSE IF FailOnFindings THEN 2
    ELSE IF Threshold("cost") # None /\ TotalCost(findings) >= Threshold("cost") THEN 1
    ELSE 0

ExitOf(findings) ==
    IF findings = {} THEN 0
    ELSE IF FailOnFindings THEN 2
    ELSE IF /\ Threshold("confidence") # None
            /\ \E f \in findings : f.confidence >= Threshold("confidence") THEN 2
    ELSE IF Threshold("cost") # None /\ TotalCost(findings) >= Threshold("cost") THEN 2
    ELSE 0

DetermineExitCode ==
    /\ stage = "tags"
    /\ exitCode' = ExitOf(kept)
    /\ stage' = "exited"
    /\ UNCHANGED <<found, config, cli, kept, suppressed, expiredEvents>>

-----------------------------------------------------------------------------
Init ==
    /\ found \in SUBSET FindingPool /\ IsFiniteSet(found)
    /\ config \in Configs
    /\ cli \in Invocations
    /\ stage = "scanned"
    /\ kept = found
    /\ suppressed = {}
    /\ expiredEvents = {}
    /\ exitCode = None

Next == ApplyExceptions \/ ApplyPolicyFilters \/ FilterByTags \/ DetermineExitCode

Spec == Init /\ [][Next]_vars

-----------------------------------------------------------------------------
\* The findings still kept, as the scan produced them.
KeptOriginals == {f \in found : f.id \in Ids(kept)}
SuppressedFor(f) == {s.reason : s \in {t \in suppressed : t.finding.id = f.id}}

\* A human approved the finding, and the approval covers today.
Approved(f) ==
    \E e \in config.exceptions : ExceptionMatches(f, e) /\ (e.expires = None \/ Today <= e.expires)

TypeOK ==
    /\ found \in SUBSET FindingPool
    /\ config \in Configs
    /\ cli \in Invocations
    /\ stage \in Stages
    /\ Ids(kept) \subseteq Ids(found)
    /\ \A s \in suppressed : s.finding.id \in Ids(found) /\ s.reason \in Reasons
    /\ exitCode \in {None, 0, 2}

\* No finding is lost and none is counted twice: each is kept or suppressed, for
\* exactly one reason, at every stage (rules.py:270-330, 346-415, tags.py:39-85).
EveryFindingAccounted ==
    \A f \in found :
        /\ f.id \in Ids(kept) <=> SuppressedFor(f) = {}
        /\ \A r1, r2 \in SuppressedFor(f) : r1 = r2

\* rules.py:10-16, "EXCEPTIONS ARE ABSOLUTE": an approved finding is suppressed
\* by its exception and by nothing else, up to and including the last day of the
\* approval, and a finding nobody approved is never reported as an exception.
ExceptionsAreAbsolute ==
    stage # "scanned" =>
        \A f \in found : IF Approved(f) THEN SuppressedFor(f) = {"exception"}
                         ELSE "exception" \notin SuppressedFor(f)

\* schema.py:30, "cost=None findings are kept": only a finding known to cost less
\* than its rule's minimum (or the default) is dropped for its cost.
UnknownCostIsKept ==
    \A s \in suppressed : s.reason = "min_cost" =>
        /\ s.finding.cost # None
        /\ \E min \in {config.rules[s.finding.rule].minCost, config.defaults.minCost} \ {None} :
              s.finding.cost < min

\* schema.py:36-37: override_risk_level is display only. The exit code is the one
\* the kept findings would give as the scan produced them.
RiskOverrideIsCosmetic ==
    stage = "exited" => exitCode = ExitOf(KeptOriginals)

\* What the configuration leaves of the findings of a scan: those that nobody approved, that are
\* not known to cost less than their minimum, have the confidence asked for and no ignored tag.
Counts(f) ==
    LET min == Effective(f.rule, "minCost")
        level == Effective(f.rule, "confidence")
    IN  /\ ~Approved(f)
        /\ min # None /\ f.cost # None => ~(f.cost < min)
        /\ level # None => ~(f.confidence < level)
        /\ ~TagExcluded(f)

\* best-practices.md:69, suppressed findings do not count, and exit_policy.py:18-27: after three
\* stages and the gate, a scan fails exactly if of the findings it produced those that count are
\* any at all, reach a confidence, or have known costs that reach a total, whichever was asked for.
GateFollowsThePolicy ==
    stage = "exited" =>
        LET counted == {f \in found : Counts(f)}
            level == Threshold("confidence")
            cost == Threshold("cost")
        IN  (exitCode = 2) <=>
                /\ counted # {}
                /\ \/ FailOnFindings
                   \/ level # None /\ \E f \in counted : f.confidence >= level
                   \/ cost # None /\ TotalCost({f \in counted : f.cost # None}) >= cost

=============================================================================
