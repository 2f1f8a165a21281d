------------------------------ MODULE ScopeScan ------------------------------
(***************************************************************************)
(* One scan of several scopes with the same rules: the regions of an AWS    *)
(* account (providers/aws/scan.py, by profile or with an assumed session),  *)
(* the subscriptions of an Azure tenant (providers/azure/scan.py) or the    *)
(* projects of a GCP organisation (providers/gcp/scan.py).                  *)
(*                                                                         *)
(* Two thread pools are nested: one runs the scopes, and every scope has    *)
(* one for its rules. Both are collected with as_completed, so results      *)
(* arrive in any order, and both are `with` blocks: an exception that       *)
(* leaves the block first waits for everything submitted to the pool.       *)
(*                                                                         *)
(* A rule ends with findings ("ok") or with an exception: PermissionError   *)
(* or the provider's 403 ("denied"), another OSError ("os", which in Python *)
(* 3.11 includes TimeoutError), botocore's NoCredentialsError ("creds"), or *)
(* anything else ("error").                                                 *)
(***************************************************************************)
EXTENDS Naturals, FiniteSets

CONSTANTS
    Providers,      \* which of the four scans below
    Scopes,         \* regions, subscriptions or projects
    Rules,          \* the rules to run
    ScopeThreads,   \* max_workers of the outer pool: 5, 4, or --concurrency
    RuleThreads,    \* max_workers of a scope's pool: 4, 2 or 3
    MaxRetries      \* _MAX_RETRIES

AllProviders == {"aws", "awsSession", "azure", "gcp"}

ASSUME ProvidersAssumption == Providers \subseteq AllProviders
ASSUME ScopesAssumption == IsFiniteSet(Scopes)
ASSUME RulesAssumption == IsFiniteSet(Rules) /\ Rules # {}
ASSUME ThreadsAssumption == ScopeThreads \in Nat \ {0} /\ RuleThreads \in Nat \ {0}
ASSUME RetriesAssumption == MaxRetries \in Nat \ {0}

Outcomes == {"ok", "denied", "os", "creds", "error"}

VARIABLES
    provider,
    main,        \* the thread that collects the scopes
    scope,       \* the task of each scope
    rule,        \* the task of each rule of each scope
    attempt,     \* how often a rule was called
    collected,   \* the rules as_completed has handed over
    result       \* what became of each scope

vars == <<provider, main, scope, rule, attempt, collected, result>>

\* "leaving" the with block by an exception, or left it.
MainPhases == {"collecting", "leaving", "returned", "aborted"}
ScopePhases == {"waiting", "open", "leaving", "done", "raised"}
RulePhases == {"waiting", "running"} \cup Outcomes
\* "lost": only echoed; "failed": in the results or in failed_regions.
Results == {"none", "success", "failed", "lost"}

-----------------------------------------------------------------------------
(* What the except clauses make of a rule's outcome *)

AwsHandles(o) == CASE o = "ok" -> "answered"
                   [] o = "creds" -> "raise"
                   [] OTHER -> "skipped"      \* rules_failed is only used in a warning

AzureHandles(o) == CASE o = "ok" -> "answered"
                     [] o = "denied" -> "skipped"
                     [] o = "os" -> "raise"
                     [] OTHER -> "failed"

\* `except EnvironmentError` comes before `except TimeoutError`.
GcpHandles(o) == CASE o = "ok" -> "answered"
                   [] o = "denied" -> "skipped"
                   [] o = "os" -> "raise"
                   [] OTHER -> "failed"

Handles(o) == CASE provider \in {"aws", "awsSession"} -> AwsHandles(o)
                [] provider = "azure" -> AzureHandles(o)
                [] OTHER -> GcpHandles(o)

\* NoCredentialsError is botocore's.
Possible == IF provider \in {"aws", "awsSession"} THEN Outcomes ELSE Outcomes \ {"creds"}

Ended(s) == {r \in Rules : rule[s][r] \in Outcomes}
HandledAs(s, h) == {r \in collected[s] : Handles(rule[s][r]) = h}

\* The checks after the loop: only Azure and GCP raise when every rule failed.
NothingWorked(s) ==
    /\ provider \in {"azure", "gcp"}
    /\ HandledAs(s, "answered") = {}
    /\ HandledAs(s, "skipped") = {}

-----------------------------------------------------------------------------
Init ==
    /\ provider \in Providers
    /\ main = "collecting"
    /\ scope = [s \in Scopes |-> "waiting"]
    /\ rule = [s \in Scopes |-> [r \in Rules |-> "waiting"]]
    /\ attempt = [s \in Scopes |-> [r \in Rules |-> 0]]
    /\ collected = [s \in Scopes |-> {}]
    /\ result = [s \in Scopes |-> "none"]

ThreadForScope == Cardinality({s \in Scopes : scope[s] \in {"open", "leaving"}}) < ScopeThreads
ThreadForRule(s) == Cardinality({r \in Rules : rule[s][r] = "running"}) < RuleThreads

StartScope(s) ==
    /\ scope[s] = "waiting"
    /\ ThreadForScope
    /\ scope' = [scope EXCEPT ![s] = "open"]
    /\ UNCHANGED <<provider, main, rule, attempt, collected, result>>

\* create_aws_session(profile, region) raises.
SessionFails(s) ==
    /\ provider = "aws"
    /\ scope[s] = "waiting"
    /\ ThreadForScope
    /\ scope' = [scope EXCEPT ![s] = "raised"]
    /\ UNCHANGED <<provider, main, rule, attempt, collected, result>>

\* The pool goes on with what was submitted while the with block is being left.
StartRule(s, r) ==
    /\ scope[s] \in {"open", "leaving"}
    /\ rule[s][r] = "waiting"
    /\ ThreadForRule(s)
    /\ rule' = [rule EXCEPT ![s][r] = "running"]
    /\ attempt' = [attempt EXCEPT ![s][r] = 1]
    /\ UNCHANGED <<provider, main, scope, collected, result>>

\* Mutant: <= where the code has <.
RetryRuleOnceMore(s, r) ==
    /\ provider \in {"azure", "gcp"}
    /\ rule[s][r] = "running"
    /\ attempt[s][r] <= MaxRetries
    /\ attempt' = [attempt EXCEPT ![s][r] = @ + 1]
    /\ UNCHANGED <<provider, main, scope, rule, collected, result>>

\* _run_rule_with_retry after a transient error: 429, 500 or 503 of Azure,
\* ServiceUnavailable or ResourceExhausted of GCP.
RetryRule(s, r) ==
    /\ provider \in {"azure", "gcp"}
    /\ rule[s][r] = "running"
    /\ attempt[s][r] < MaxRetries
    /\ attempt' = [attempt EXCEPT ![s][r] = @ + 1]
    /\ UNCHANGED <<provider, main, scope, rule, collected, result>>

\* The rule returns or raises; a transient error on the last attempt is an error.
EndRule(s, r) ==
    /\ rule[s][r] = "running"
    /\ \E o \in Possible : rule' = [rule EXCEPT ![s][r] = o]
    /\ UNCHANGED <<provider, main, scope, attempt, collected, result>>

CollectRule(s, r) ==
    /\ scope[s] = "open"
    /\ r \in Ended(s) \ collected[s]
    /\ collected' = [collected EXCEPT ![s] = @ \cup {r}]
    /\ scope' = [scope EXCEPT ![s] = IF Handles(rule[s][r]) = "raise" THEN "leaving" ELSE @]
    /\ UNCHANGED <<provider, main, rule, attempt, result>>

\* Mutant: shutdown(wait=False) on the way out.
LeaveScopeAtOnce(s) ==
    /\ scope[s] = "leaving"
    /\ scope' = [scope EXCEPT ![s] = "raised"]
    /\ UNCHANGED <<provider, main, rule, attempt, collected, result>>

LeaveScope(s) ==
    /\ scope[s] = "leaving"
    /\ Ended(s) = Rules
    /\ scope' = [scope EXCEPT ![s] = "raised"]
    /\ UNCHANGED <<provider, main, rule, attempt, collected, result>>

\* Mutant: the checks after the loop are gone.
FinishScopeUnchecked(s) ==
    /\ scope[s] = "open"
    /\ collected[s] = Rules
    /\ scope' = [scope EXCEPT ![s] = "done"]
    /\ UNCHANGED <<provider, main, rule, attempt, collected, result>>

FinishScope(s) ==
    /\ scope[s] = "open"
    /\ collected[s] = Rules
    /\ scope' = [scope EXCEPT ![s] = IF NothingWorked(s) THEN "raised" ELSE "done"]
    /\ UNCHANGED <<provider, main, rule, attempt, collected, result>>

-----------------------------------------------------------------------------
\* The exception a scope ended with was NoCredentialsError.
RaisedCreds(s) == \E r \in collected[s] : rule[s][r] = "creds"

ResultOf(s) == IF scope[s] = "done" THEN "success"
               ELSE IF provider = "aws" THEN "lost"
               ELSE "failed"

\* Only the scan by profile lets NoCredentialsError through.
CollectScope(s) ==
    /\ main = "collecting"
    /\ scope[s] \in {"done", "raised"}
    /\ result[s] = "none"
    /\ IF provider = "aws" /\ scope[s] = "raised" /\ RaisedCreds(s)
         THEN main' = "leaving" /\ UNCHANGED result
         ELSE UNCHANGED main /\ result' = [result EXCEPT ![s] = ResultOf(s)]
    /\ UNCHANGED <<provider, scope, rule, attempt, collected>>

\* Mutant: the other results are waited for, but nobody collects them any more.
AbortWhenCollected ==
    /\ main = "leaving"
    /\ \A s \in Scopes : result[s] # "none"
    /\ main' = "aborted"
    /\ UNCHANGED <<provider, scope, rule, attempt, collected, result>>

Abort ==
    /\ main = "leaving"
    /\ \A s \in Scopes : scope[s] \in {"done", "raised"}
    /\ main' = "aborted"
    /\ UNCHANGED <<provider, scope, rule, attempt, collected, result>>

\* Mutant: the results are returned with the first failure.
ReturnEarly ==
    /\ main = "collecting"
    /\ \A s \in Scopes : result[s] # "none" \/ scope[s] = "raised"
    /\ main' = "returned"
    /\ UNCHANGED <<provider, scope, rule, attempt, collected, result>>

Return ==
    /\ main = "collecting"
    /\ \A s \in Scopes : result[s] # "none"
    /\ main' = "returned"
    /\ UNCHANGED <<provider, scope, rule, attempt, collected, result>>

-----------------------------------------------------------------------------
RuleStep(s, r) == StartRule(s, r) \/ RetryRule(s, r) \/ EndRule(s, r)
ScopeStep(s) ==
    \/ StartScope(s)
    \/ SessionFails(s)
    \/ \E r \in Rules : CollectRule(s, r)
    \/ LeaveScope(s)
    \/ FinishScope(s)
MainStep == (\E s \in Scopes : CollectScope(s)) \/ Abort \/ Return

Next ==
    \/ \E s \in Scopes, r \in Rules : RuleStep(s, r)
    \/ \E s \in Scopes : ScopeStep(s)
    \/ MainStep

Spec == Init /\ [][Next]_vars

\* Every thread runs, and every API call returns or times out (BOTO_CONFIG and the
\* SDKs' defaults). Nothing is assumed of how a rule ends.
FairSpec ==
    /\ Spec
    /\ \A s \in Scopes : WF_vars(ScopeStep(s)) /\ \A r \in Rules : WF_vars(RuleStep(s, r))
    /\ WF_vars(MainStep)

-----------------------------------------------------------------------------
TypeOK ==
    /\ provider \in Providers
    /\ main \in MainPhases
    /\ scope \in [Scopes -> ScopePhases]
    /\ rule \in [Scopes -> [Rules -> RulePhases]]
    /\ attempt \in [Scopes -> [Rules -> 0 .. MaxRetries]]
    /\ collected \in [Scopes -> SUBSET Rules]
    /\ result \in [Scopes -> Results]

\* docs/gcp.md:513-519, test_gcp_scan_graceful_degradation.py (permission tests): a missing
\* permission skips its rule and nothing else. A scope whose rules all answered
\* or were denied is never failed, in whatever order they end.
PermissionsNeverFailAScope ==
    \A s \in Scopes :
        (\A r \in Rules : rule[s][r] \in {"ok", "denied"}) => result[s] \in {"none", "success"}

\* What is reported of a scope is decided by how its own rules ended, and not by
\* the order as_completed hands them over or by other scopes: success exactly
\* when no outcome is one that is raised and, for Azure and GCP, some rule
\* answered or was skipped.
VerdictIgnoresOrder ==
    \A s \in Scopes : result[s] # "none" =>
        (result[s] = "success" <=>
            /\ \A r \in Rules : rule[s][r] \in Outcomes /\ Handles(rule[s][r]) # "raise"
            /\ provider \in {"azure", "gcp"} =>
                  \E r \in Rules : Handles(rule[s][r]) \in {"answered", "skipped"})

\* However a scope or the whole scan is left, no rule of it is still running: no
\* API call is made after the report, or after the process was told to stop.
NoRuleOutlivesItsScope ==
    /\ \A s \in Scopes : scope[s] \in {"done", "raised"} => \A r \in Rules : rule[s][r] # "running"
    /\ main \in {"returned", "aborted"} => \A s \in Scopes : scope[s] \in {"done", "raised"}

\* Every scan ends: retries are bounded and nothing waits for itself.
Termination == <>(main \in {"returned", "aborted"})

\* The scan implements AccountReport, with scopes for accounts and no deadline:
\* what is reported of a scope is final, and the report is handed over complete.
Report == INSTANCE AccountReport WITH
    Accounts <- Scopes,
    Statuses <- Results \ {"none"},
    report <- result,
    overdue <- FALSE,
    closed <- main = "returned"

ImplementsReport == Report!Spec

=============================================================================
