--------------------------- MODULE ScopeScan_proofs ---------------------------
(***************************************************************************)
(* Proofs about ScopeScan, for every set of scopes and rules, any number   *)
(* of threads and retries, and each of the four scans.                     *)
(***************************************************************************)
EXTENDS ScopeScan, TLAPS

USE ProvidersAssumption, RulesAssumption, ThreadsAssumption, RetriesAssumption

\* Every step, and a stutter, keeps the types.
LEMMA TypeStep == TypeOK /\ [Next]_vars => TypeOK'
<1> SUFFICES ASSUME TypeOK, [Next]_vars PROVE TypeOK'
  OBVIOUS
<1> USE DEF TypeOK
<1>1. ASSUME NEW s \in Scopes, NEW r \in Rules, StartRule(s, r) PROVE TypeOK'
  BY <1>1 DEF StartRule, RulePhases
<1>2. ASSUME NEW s \in Scopes, NEW r \in Rules, RetryRule(s, r) PROVE TypeOK'
  <2>1. attempt[s][r] + 1 \in 0 .. MaxRetries
    BY <1>2 DEF RetryRule
  <2> QED
    BY <1>2, <2>1 DEF RetryRule
<1>3. ASSUME NEW s \in Scopes, NEW r \in Rules, EndRule(s, r) PROVE TypeOK'
  BY <1>3 DEF EndRule, RulePhases, Possible
<1>4. ASSUME NEW s \in Scopes, StartScope(s) \/ SessionFails(s) PROVE TypeOK'
  BY <1>4 DEF StartScope, SessionFails, ScopePhases
<1>5. ASSUME NEW s \in Scopes, NEW r \in Rules, CollectRule(s, r) PROVE TypeOK'
  BY <1>5 DEF CollectRule, ScopePhases, Ended
<1>6. ASSUME NEW s \in Scopes, LeaveScope(s) \/ FinishScope(s) PROVE TypeOK'
  BY <1>6 DEF LeaveScope, FinishScope, ScopePhases
<1>7. ASSUME NEW s \in Scopes, CollectScope(s) PROVE TypeOK'
  BY <1>7 DEF CollectScope, MainPhases, Results, ResultOf
<1>8. CASE Abort \/ Return
  BY <1>8 DEF Abort, Return, MainPhases
<1>9. CASE UNCHANGED vars
  BY <1>9 DEF vars
<1> QED
  BY <1>1, <1>2, <1>3, <1>4, <1>5, <1>6, <1>7, <1>8, <1>9
     DEF Next, RuleStep, ScopeStep, MainStep

\* The initial states have the types.
LEMMA TypeInit == Init => TypeOK
BY DEF Init, TypeOK, MainPhases, ScopePhases, RulePhases, Results

\* Type correctness of every reachable state, whatever is scanned.
THEOREM TypeCorrect == Spec => []TypeOK
BY TypeInit, TypeStep, PTL DEF Spec

-----------------------------------------------------------------------------
(***************************************************************************)
(* The inductive invariant says of each scope by itself how it got where   *)
(* it is. A scope that raised had no session, or a rule whose exception is *)
(* let through, or no rule that worked.                                    *)
(***************************************************************************)
How(s, r) == Handles(rule[s][r])

NoSession(s) == provider = "aws" /\ \A r \in Rules : rule[s][r] = "waiting"
AllEnded(s) == \A r \in Rules : rule[s][r] \in Outcomes
SomeWorked(s) ==
    provider \in {"azure", "gcp"} => \E r \in Rules : How(s, r) \in {"answered", "skipped"}

Untouched(s) == collected[s] = {} /\ \A r \in Rules : rule[s][r] = "waiting"

ScopeOK(s) ==
    /\ \A r \in collected[s] : rule[s][r] \in Outcomes
    /\ scope[s] = "waiting" => Untouched(s)
    /\ scope[s] = "open" => \A r \in collected[s] : How(s, r) # "raise"
    /\ scope[s] = "leaving" => \E r \in collected[s] : How(s, r) = "raise"
    /\ scope[s] = "done" =>
          AllEnded(s) /\ (\A r \in Rules : How(s, r) # "raise") /\ SomeWorked(s)
    /\ scope[s] = "raised" =>
          \/ NoSession(s)
          \/ AllEnded(s) /\ ((\E r \in Rules : How(s, r) = "raise") \/ ~SomeWorked(s))
    /\ result[s] # "none" => scope[s] \in {"done", "raised"} /\ result[s] = ResultOf(s)

MainOK ==
    /\ main = "returned" => \A s \in Scopes : result[s] # "none"
    /\ main = "aborted" => \A s \in Scopes : scope[s] \in {"done", "raised"}

IInv == TypeOK /\ (\A s \in Scopes : ScopeOK(s)) /\ MainOK

\* What a scope's invariant looks at is its own part of the state.
LEMMA OtherScope ==
    ASSUME NEW s \in Scopes, ScopeOK(s), provider' = provider,
           scope'[s] = scope[s], rule'[s] = rule[s], collected'[s] = collected[s],
           result'[s] = result[s]
    PROVE  ScopeOK(s)'
BY DEF ScopeOK, Untouched, How, Handles, NoSession, AllEnded, SomeWorked, ResultOf

\* How an outcome is handled depends on the provider only.
LEMMA HandlesStable == ASSUME provider' = provider PROVE \A o : Handles(o)' = Handles(o)
BY DEF Handles

\* A step of a rule leaves what was collected of its scope alone.
LEMMA RuleStepOK ==
    ASSUME TypeOK, NEW s \in Scopes, ScopeOK(s), NEW r \in Rules, RuleStep(s, r)
    PROVE  ScopeOK(s)'
<1>1. /\ UNCHANGED <<provider, scope, collected, result>>
      /\ r \notin collected[s]
      /\ scope[s] \notin {"waiting", "done"}
      /\ scope[s] = "raised" => FALSE
  BY DEF RuleStep, StartRule, RetryRule, EndRule, ScopeOK, Untouched, Outcomes, TypeOK, ScopePhases,
         AllEnded, NoSession
<1>2. \A q \in Rules : q # r => rule'[s][q] = rule[s][q]
  BY DEF RuleStep, StartRule, RetryRule, EndRule, TypeOK
<1>3. collected[s] \subseteq Rules
  BY DEF TypeOK
<1>4. \A q \in collected[s] : How(s, q)' = How(s, q) /\ rule'[s][q] = rule[s][q]
  BY <1>1, <1>2, <1>3, HandlesStable DEF How
<1>5. ResultOf(s)' = ResultOf(s)
  BY <1>1 DEF ResultOf
<1> QED
  BY <1>1, <1>4, <1>5 DEF ScopeOK

\* A scope that is opened, collected, finished or left is what its rules say.
LEMMA ScopeStepOK ==
    ASSUME TypeOK, NEW s \in Scopes, ScopeOK(s), ScopeStep(s)
    PROVE  ScopeOK(s)'
<1> USE HandlesStable DEF TypeOK
<1>1. CASE StartScope(s)
  <2>1. scope[s] = "waiting" /\ scope'[s] = "open" /\ UNCHANGED <<provider, rule, collected, result>>
    BY <1>1 DEF StartScope
  <2>2. collected[s] = {} /\ result[s] = "none"
    BY <2>1 DEF ScopeOK, Untouched
  <2> QED
    BY <2>1, <2>2 DEF ScopeOK
<1>2. CASE SessionFails(s)
  <2>1. /\ provider = "aws" /\ scope[s] = "waiting" /\ scope'[s] = "raised"
        /\ UNCHANGED <<provider, rule, collected, result>>
    BY <1>2 DEF SessionFails
  <2>2. Untouched(s) /\ result[s] = "none"
    BY <2>1 DEF ScopeOK
  <2>3. NoSession(s)'
    BY <2>1, <2>2 DEF Untouched, NoSession
  <2> QED
    BY <2>1, <2>2, <2>3 DEF ScopeOK, Untouched
<1>3. ASSUME NEW r \in Rules, CollectRule(s, r) PROVE ScopeOK(s)'
  <2>1. /\ scope[s] = "open" /\ rule[s][r] \in Outcomes
        /\ collected'[s] = collected[s] \cup {r}
        /\ scope'[s] = IF How(s, r) = "raise" THEN "leaving" ELSE "open"
        /\ UNCHANGED <<provider, rule, result>>
    BY <1>3 DEF CollectRule, Ended, How
  <2>2. \A q \in collected'[s] : rule[s][q] \in Outcomes
    BY <2>1 DEF ScopeOK
  <2>3. \A q : How(s, q)' = How(s, q)
    BY <2>1 DEF How
  <2>4. result[s] = "none"
    BY <2>1 DEF ScopeOK
  <2> QED
    BY <2>1, <2>2, <2>3, <2>4 DEF ScopeOK
<1>4. CASE LeaveScope(s)
  <2>1. /\ scope[s] = "leaving" /\ Ended(s) = Rules /\ scope'[s] = "raised"
        /\ UNCHANGED <<provider, rule, collected, result>>
    BY <1>4 DEF LeaveScope
  <2>2. AllEnded(s)'
    BY <2>1 DEF Ended, AllEnded
  <2>3. \E r \in Rules : How(s, r)' = "raise"
    BY <2>1 DEF ScopeOK, How
  <2>4. result[s] = "none"
    BY <2>1 DEF ScopeOK
  <2> QED
    BY <2>1, <2>2, <2>3, <2>4 DEF ScopeOK
<1>5. CASE FinishScope(s)
  <2>1. /\ scope[s] = "open" /\ collected[s] = Rules
        /\ scope'[s] = IF NothingWorked(s) THEN "raised" ELSE "done"
        /\ UNCHANGED <<provider, rule, collected, result>>
    BY <1>5 DEF FinishScope
  <2>2. AllEnded(s) /\ \A r \in Rules : How(s, r) # "raise"
    BY <2>1 DEF ScopeOK, AllEnded
  <2>3. NothingWorked(s) <=> ~SomeWorked(s)
    BY <2>1 DEF NothingWorked, SomeWorked, HandledAs, How
  <2>4. \A q : How(s, q)' = How(s, q)
    BY <2>1 DEF How
  <2>5. AllEnded(s)' /\ (SomeWorked(s)' <=> SomeWorked(s))
    BY <2>1, <2>2, <2>4 DEF AllEnded, SomeWorked
  <2>6. result[s] = "none"
    BY <2>1 DEF ScopeOK
  <2> QED
    BY <2>1, <2>2, <2>3, <2>4, <2>5, <2>6 DEF ScopeOK, AllEnded
<1> QED
  BY <1>1, <1>2, <1>3, <1>4, <1>5 DEF ScopeStep

\* The initial states satisfy the invariant.
LEMMA IInvInit == Init => IInv
BY TypeInit DEF Init, IInv, ScopeOK, Untouched, MainOK

\* Every step keeps the invariant.
LEMMA IInvStep == IInv /\ [Next]_vars => IInv'
<1> SUFFICES ASSUME IInv, [Next]_vars PROVE IInv'
  OBVIOUS
<1>1. TypeOK /\ TypeOK' /\ (\A s \in Scopes : ScopeOK(s)) /\ MainOK
  BY TypeStep DEF IInv
<1>2. ASSUME NEW s \in Scopes, NEW r \in Rules, RuleStep(s, r) PROVE IInv'
  <2>1. UNCHANGED <<provider, main, scope, collected, result>>
    BY <1>2 DEF RuleStep, StartRule, RetryRule, EndRule
  <2>2. \A t \in Scopes : t # s => rule'[t] = rule[t]
    BY <1>1, <1>2 DEF RuleStep, StartRule, RetryRule, EndRule, TypeOK
  <2>3. \A t \in Scopes : ScopeOK(t)'
    BY <1>1, <1>2, <2>1, <2>2, RuleStepOK, OtherScope
  <2> QED
    BY <1>1, <2>1, <2>3 DEF IInv, MainOK
<1>3. ASSUME NEW s \in Scopes, ScopeStep(s) PROVE IInv'
  <2>1. /\ UNCHANGED <<provider, main, rule, result>>
        /\ scope[s] \notin {"done", "raised"}
        /\ \A t \in Scopes : t # s => scope'[t] = scope[t] /\ collected'[t] = collected[t]
    BY <1>1, <1>3 DEF ScopeStep, StartScope, SessionFails, CollectRule, LeaveScope, FinishScope, TypeOK
  <2>2. \A t \in Scopes : ScopeOK(t)'
    BY <1>1, <1>3, <2>1, ScopeStepOK, OtherScope
  <2>3. MainOK'
    BY <1>1, <2>1 DEF MainOK
  <2> QED
    BY <1>1, <2>2, <2>3 DEF IInv
<1>4. ASSUME NEW s \in Scopes, CollectScope(s) PROVE IInv'
  <2>1. /\ UNCHANGED <<provider, scope, rule, collected>>
        /\ scope[s] \in {"done", "raised"}
        /\ main' \in {"collecting", "leaving"}
        /\ result'[s] \in {result[s], ResultOf(s)}
        /\ \A t \in Scopes : t # s => result'[t] = result[t]
    BY <1>1, <1>4 DEF CollectScope, TypeOK
  <2>2. \A t \in Scopes : t # s => ScopeOK(t)'
    BY <1>1, <2>1, OtherScope
  <2>3. ScopeOK(s)'
    <3>1. \A r : How(s, r)' = How(s, r)
      BY <2>1, HandlesStable DEF How
    <3>2. ResultOf(s)' = ResultOf(s)
      BY <2>1 DEF ResultOf
    <3>3. NoSession(s)' = NoSession(s) /\ AllEnded(s)' = AllEnded(s)
      BY <2>1 DEF NoSession, AllEnded
    <3>4. SomeWorked(s)' = SomeWorked(s)
      BY <2>1, <3>1 DEF SomeWorked
    <3> QED
      BY <1>1, <2>1, <3>1, <3>2, <3>3, <3>4 DEF ScopeOK
  <2> QED
    BY <1>1, <2>1, <2>2, <2>3 DEF IInv, MainOK
<1>5. CASE Abort \/ Return
  <2>1. UNCHANGED <<provider, scope, rule, collected, result>>
    BY <1>5 DEF Abort, Return
  <2>2. \A s \in Scopes : ScopeOK(s)'
    BY <1>1, <2>1, OtherScope
  <2>3. MainOK'
    BY <1>5 DEF Abort, Return, MainOK
  <2> QED
    BY <1>1, <2>2, <2>3 DEF IInv
<1>6. CASE UNCHANGED vars
  <2>1. \A s \in Scopes : ScopeOK(s)'
    BY <1>1, <1>6, OtherScope DEF vars
  <2> QED
    BY <1>1, <1>6, <2>1 DEF IInv, MainOK, vars
<1> QED
  BY <1>2, <1>3, <1>4, <1>5, <1>6 DEF Next, MainStep

\* The invariant holds of every reachable state.
LEMMA IInvHolds == Spec => []IInv
BY IInvInit, IInvStep, PTL DEF Spec

\* No rule of a scope that is over is still running, and no scope of a scan that
\* is over, however they were left.
THEOREM NoRuleOutlives == Spec => []NoRuleOutlivesItsScope
<1>1. IInv => NoRuleOutlivesItsScope
  BY DEF IInv, ScopeOK, MainOK, NoRuleOutlivesItsScope, AllEnded, NoSession, Outcomes, TypeOK
<1> QED
  BY <1>1, IInvHolds, PTL

\* The verdict on a scope is a function of the outcomes of its rules.
THEOREM VerdictIsOrderFree == Spec => []VerdictIgnoresOrder
<1>1. IInv => VerdictIgnoresOrder
  <2> SUFFICES ASSUME IInv, NEW s \in Scopes, result[s] # "none"
               PROVE  result[s] = "success" <=>
                        AllEnded(s) /\ (\A r \in Rules : How(s, r) # "raise") /\ SomeWorked(s)
    BY DEF VerdictIgnoresOrder, AllEnded, How, SomeWorked
  <2>1. ScopeOK(s) /\ scope[s] \in {"done", "raised"} /\ result[s] = ResultOf(s)
    BY DEF IInv, ScopeOK
  <2>2. CASE scope[s] = "done"
    BY <2>1, <2>2 DEF ScopeOK, ResultOf
  <2>3. CASE scope[s] = "raised"
    <3>1. result[s] # "success"
      BY <2>1, <2>3 DEF ResultOf
    <3>2. NoSession(s) => ~AllEnded(s)
      BY DEF NoSession, AllEnded, Outcomes
    <3> QED
      BY <2>1, <2>3, <3>1, <3>2 DEF ScopeOK
  <2> QED
    BY <2>1, <2>2, <2>3
<1> QED
  BY <1>1, IInvHolds, PTL

\* Missing permissions alone never fail a region, subscription or project.
THEOREM PermissionsAreContained == Spec => []PermissionsNeverFailAScope
<1>1. IInv => PermissionsNeverFailAScope
  <2> SUFFICES ASSUME IInv, NEW s \in Scopes, \A r \in Rules : rule[s][r] \in {"ok", "denied"},
                      result[s] # "none"
               PROVE  result[s] = "success"
    BY DEF PermissionsNeverFailAScope
  <2>1. ScopeOK(s) /\ scope[s] \in {"done", "raised"} /\ result[s] = ResultOf(s)
    BY DEF IInv, ScopeOK
  <2>2. provider \in AllProviders
    BY DEF IInv, TypeOK
  <2>3. \A r \in Rules : How(s, r) \in {"answered", "skipped"}
    BY <2>2 DEF How, Handles, AwsHandles, AzureHandles, GcpHandles, AllProviders
  <2>4. SomeWorked(s) /\ ~NoSession(s)
    BY <2>3 DEF SomeWorked, NoSession
  <2>5. scope[s] = "done"
    BY <2>1, <2>3, <2>4 DEF ScopeOK
  <2> QED
    BY <2>1, <2>5 DEF ResultOf
<1> QED
  BY <1>1, IInvHolds, PTL

\* The scan implements AccountReport: verdicts are final, the report complete.
THEOREM Implementation == Spec => ImplementsReport
<1>1. Init => Report!Init
  BY DEF Init, Report!Init
<1>2. IInv /\ [Next]_vars => [Report!Next]_Report!vars
  <2> SUFFICES ASSUME IInv, [Next]_vars PROVE [Report!Next]_Report!vars
    OBVIOUS
  <2>1. TypeOK
    BY DEF IInv
  <2>2. ASSUME NEW s \in Scopes, CollectScope(s) PROVE [Report!Next]_Report!vars
    <3>1. main = "collecting" /\ main' # "returned" /\ result[s] = "none"
      BY <2>2 DEF CollectScope
    <3>2. CASE UNCHANGED result
      BY <3>1, <3>2 DEF Report!vars
    <3>3. CASE result' = [result EXCEPT ![s] = ResultOf(s)]
      <4>1. ResultOf(s) \in Results \ {"none"} /\ ResultOf(s) # "timeout"
        BY DEF ResultOf, Results
      <4>2. Report!Decide(s, ResultOf(s))
        BY <3>1, <3>3, <4>1 DEF Report!Decide
      <4> QED
        BY <4>1, <4>2 DEF Report!Next
    <3> QED
      BY <2>2, <3>2, <3>3 DEF CollectScope
  <2>3. CASE Return
    BY <2>3 DEF Return, Report!Next, Report!HandOver
  <2>4. CASE Abort
    BY <2>4 DEF Abort, Report!vars
  <2>5. ASSUME NEW s \in Scopes, ScopeStep(s) \/ \E r \in Rules : RuleStep(s, r)
        PROVE  [Report!Next]_Report!vars
    BY <2>5 DEF ScopeStep, StartScope, SessionFails, CollectRule, LeaveScope, FinishScope,
       RuleStep, StartRule, RetryRule, EndRule, Report!vars
  <2>6. CASE UNCHANGED vars
    BY <2>6 DEF vars, Report!vars
  <2> QED
    BY <2>2, <2>3, <2>4, <2>5, <2>6 DEF Next, MainStep
<1> QED
  BY <1>1, <1>2, IInvHolds, PTL DEF Spec, Report!Spec, ImplementsReport
=============================================================================
