----------------------- MODULE MultiAccountScan_proofs -----------------------
(***************************************************************************)
(* Proofs about MultiAccountScan, for any number of accounts, threads and  *)
(* regions, any timeout, and whether or not a thread may hang.             *)
(***************************************************************************)
EXTENDS MultiAccountScan, TLAPS

USE NumAccountsAssumption, MaxConcurrentAssumption, RegionsAssumption,
    MaxAttemptsAssumption, TimeAssumption, MayHangAssumption

\* The pure part: what is appended to the results is a result.
LEMMA ResultOfType ==
    ASSUME NEW a \in Accounts
    PROVE  ResultOf(a) \in Results /\ ResultOf(a).account = a
               /\ ResultOf(a).status # "timeout"
<1>1. StatusOf(a) \in Statuses /\ StatusOf(a) # "timeout"
  BY DEF StatusOf, Statuses
<1>2. InState(a, "scanned") \in SUBSET Regions /\ InState(a, "failed") \in SUBSET Regions
  BY DEF InState
<1> QED
  BY <1>1, <1>2 DEF ResultOf, Results, Statuses

\* What the timed-out branch appends is a result too.
LEMMA TimedOutType ==
    ASSUME NEW a \in Accounts
    PROVE  TimedOut(a) \in Results /\ TimedOut(a).account = a
               /\ TimedOut(a).status = "timeout"
BY DEF TimedOut, Results, Statuses

\* Appending to a sequence keeps what was there and adds one element.
LEMMA AppendFacts ==
    ASSUME NEW S, NEW s \in Seq(S), NEW e \in S
    PROVE  /\ Append(s, e) \in Seq(S)
           /\ DOMAIN Append(s, e) = DOMAIN s \cup {Len(s) + 1}
           /\ Len(s) + 1 \notin DOMAIN s
           /\ \A i \in DOMAIN s : Append(s, e)[i] = s[i]
           /\ Append(s, e)[Len(s) + 1] = e
OBVIOUS

\* Every step, and a stutter, keeps the types.
LEMMA TypeStep == TypeOK /\ [Next]_vars => TypeOK'
<1> SUFFICES ASSUME TypeOK, [Next]_vars PROVE TypeOK'
  OBVIOUS
<1> USE DEF TypeOK, mainVars, taskVars
<1>1. CASE PreflightOk
  BY <1>1 DEF PreflightOk, MainPhases
<1>2. CASE PreflightFails
  BY <1>2 DEF PreflightFails, MainPhases
<1>3. CASE DiscoverOnHub
  BY <1>3 DEF DiscoverOnHub, MainPhases, DiscoveredRegions
<1>4. CASE Submit
  BY <1>4 DEF Submit, MainPhases, WorkerPhases
<1>5. CASE WaitReturns
  BY <1>5 DEF WaitReturns, MainPhases
<1>6. ASSUME NEW a \in Accounts, Collect(a) PROVE TypeOK'
  BY <1>6, ResultOfType, AppendFacts DEF Collect
<1>7. CASE CheckDeadline
  BY <1>7 DEF CheckDeadline, MainPhases
<1>8. ASSUME NEW a \in Accounts, MarkTimedOut(a) PROVE TypeOK'
  BY <1>8, TimedOutType, AppendFacts DEF MarkTimedOut
<1>9. CASE CancelQueued
  BY <1>9 DEF CancelQueued, MainPhases, WorkerPhases
<1>10. CASE JoinThreads
  BY <1>10 DEF JoinThreads, MainPhases
<1>11. ASSUME NEW a \in Accounts, Task(a) PROVE TypeOK'
  <2>1. CASE StartTask(a)
    BY <2>1 DEF StartTask, WorkerPhases, Running
  <2>2. CASE AssumeSucceeds(a)
    BY <2>2 DEF AssumeSucceeds, WorkerPhases, Running, Selected, NoRegions, RegionStates, Modes
  <2>3. ASSUME FailTask(a) PROVE TypeOK'
    BY <2>3 DEF FailTask, WorkerPhases, Finished
  <2>4. CASE AssumeRetries(a)
    BY <2>4 DEF AssumeRetries
  <2>5. CASE DiscoverRegions(a)
    BY <2>5 DEF DiscoverRegions, WorkerPhases, Running, Selected, RegionStates
  <2>6. ASSUME NEW r \in Regions, ScanRegion(a, r) PROVE TypeOK'
    <3>1. PICK o \in {"expired", "failed", "scanned"} :
             region' = [region EXCEPT ![a][r] = o]
      BY <2>6 DEF ScanRegion
    <3>2. region' \in [Accounts -> [Regions -> RegionStates]]
      BY <3>1 DEF RegionStates
    <3> QED
      BY <2>6, <3>2 DEF ScanRegion
  <2>7. CASE FinishTask(a)
    BY <2>7 DEF FinishTask, WorkerPhases, Finished
  <2> QED
    BY <1>11, <2>1, <2>2, <2>3, <2>4, <2>5, <2>6, <2>7 DEF Task, AssumeDenied, AssumeGivesUp
<1>12. ASSUME NEW a \in Accounts, Hang(a) PROVE TypeOK'
  BY <1>12 DEF Hang, WorkerPhases
<1>13. CASE Tick
  BY <1>13 DEF Tick
<1>14. CASE UNCHANGED vars
  BY <1>14 DEF vars
<1> QED
  BY <1>1, <1>2, <1>3, <1>4, <1>5, <1>6, <1>7, <1>8, <1>9, <1>10, <1>11, <1>12, <1>13, <1>14
     DEF Next, Main

\* The initial states have the types.
LEMMA TypeInit == Init => TypeOK
BY DEF Init, TypeOK, MainPhases, WorkerPhases, Running, Finished, NoRegions, RegionStates

\* Type correctness of every reachable state.
THEOREM TypeCorrect == Spec => []TypeOK
BY TypeInit, TypeStep, PTL DEF Spec

-----------------------------------------------------------------------------
(***************************************************************************)
(* The inductive invariant. Each account is in exactly one place: its      *)
(* future is pending, or in the batch being collected, or reported. What   *)
(* is reported of a finished task is what the task still says.             *)
(***************************************************************************)
NotSubmitted == {"preflight", "hub", "submit", "aborted"}
AfterLoop == {"join", "returned"}

NothingBeforeSubmit ==
    phase \in NotSubmitted =>
        /\ pending = {} /\ batch = {} /\ results = <<>>
        /\ \A a \in Accounts : worker[a] = "none"

NoDuplicate ==
    \A i, j \in DOMAIN results : results[i].account = results[j].account => i = j

UndecidedIsUnreported ==
    \A a \in Accounts : /\ a \in pending \cup batch => ~Reported(a)
                        /\ ~(a \in pending /\ a \in batch)

EveryAccountSomewhere ==
    phase \notin NotSubmitted =>
        \A a \in Accounts : a \in pending \/ a \in batch \/ Reported(a)

PhaseSets ==
    /\ phase \in {"wait", "mark"} => batch = {}
    /\ phase \in AfterLoop => pending = {} /\ batch = {}

BatchIsFinished == \A a \in batch : worker[a] \in Finished

TruthfulSoFar ==
    \A i \in DOMAIN results : \E a \in Accounts :
        \/ now >= ScanTimeout /\ results[i] = TimedOut(a)
        \/ worker[a] \in Finished /\ results[i] = ResultOf(a)

OverdueWhenMarking == phase = "mark" => now >= ScanTimeout

CancelledAfterLoop ==
    /\ \A a \in Accounts : worker[a] = "cancelled" => phase \in AfterLoop
    /\ phase = "returned" => \A a \in Accounts : worker[a] \in Finished \cup {"cancelled"}

IInv ==
    /\ TypeOK
    /\ NothingBeforeSubmit
    /\ NoDuplicate
    /\ UndecidedIsUnreported
    /\ EveryAccountSomewhere
    /\ PhaseSets
    /\ BatchIsFinished
    /\ TruthfulSoFar
    /\ OverdueWhenMarking
    /\ CancelledAfterLoop

\* A step of a task disturbs that task only, and starts from an unfinished one.
LEMMA TaskFacts ==
    ASSUME TypeOK, NEW a \in Accounts, Task(a) \/ Hang(a)
    PROVE  /\ UNCHANGED <<mainVars, mode, now>>
           /\ worker[a] \in Running \cup {"queued"}
           /\ worker'[a] \notin {"cancelled", "none"}
           /\ \A b \in Accounts \ {a} : worker'[b] = worker[b] /\ region'[b] = region[b]
<1> USE DEF TypeOK
<1>1. ASSUME NEW r \in Regions, ScanRegion(a, r)
      PROVE  /\ UNCHANGED <<mainVars, mode, now, worker>>
             /\ worker[a] = "scan"
             /\ \A b \in Accounts \ {a} : region'[b] = region[b]
  BY <1>1 DEF ScanRegion
<1>2. CASE \E r \in Regions : ScanRegion(a, r)
  BY <1>1, <1>2 DEF Running
<1>3. CASE Hang(a)
  BY <1>3 DEF Hang, Running
<1>4. CASE StartTask(a) \/ FinishTask(a) \/ AssumeRetries(a)
  BY <1>4 DEF StartTask, FinishTask, AssumeRetries, Running
<1>5. CASE AssumeDenied(a) \/ AssumeGivesUp(a)
  BY <1>5 DEF AssumeDenied, AssumeGivesUp, FailTask, Running
<1>6. CASE AssumeSucceeds(a)
  <2>1. PICK rs : region' = [region EXCEPT ![a] = rs]
    BY <1>6 DEF AssumeSucceeds
  <2> QED
    BY <1>6, <2>1 DEF AssumeSucceeds, Running
<1>7. CASE DiscoverRegions(a)
  BY <1>7 DEF DiscoverRegions, Running
<1> QED
  BY <1>2, <1>3, <1>4, <1>5, <1>6, <1>7 DEF Task

\* A result is a function of the task's own state.
LEMMA ResultIsLocal ==
    ASSUME NEW a \in Accounts, worker'[a] = worker[a], region'[a] = region[a]
    PROVE  ResultOf(a)' = ResultOf(a)
<1>1. \A s : InState(a, s)' = InState(a, s)
  BY DEF InState
<1>2. StatusOf(a)' = StatusOf(a)
  BY <1>1 DEF StatusOf
<1> QED
  BY <1>1, <1>2 DEF ResultOf

\* What was said of finished tasks stays true while they stay as they are.
LEMMA TruthfulKept ==
    ASSUME TypeOK, TruthfulSoFar, now' \in Nat, now' >= now, results' = results,
           \A a \in Accounts : worker[a] \in Finished =>
               worker'[a] = worker[a] /\ region'[a] = region[a]
    PROVE  TruthfulSoFar'
<1>1. \A a \in Accounts : worker[a] \in Finished =>
          worker'[a] \in Finished /\ ResultOf(a)' = ResultOf(a)
  BY ResultIsLocal
<1>2. now >= ScanTimeout => now' >= ScanTimeout
  BY DEF TypeOK
<1>3. \A a \in Accounts : TimedOut(a)' = TimedOut(a)
  BY DEF TimedOut
<1> QED
  BY <1>1, <1>2, <1>3 DEF TruthfulSoFar

\* Appending the result of an account that has none yet.
LEMMA AppendResult ==
    ASSUME TypeOK, NoDuplicate, NEW a \in Accounts, ~Reported(a),
           NEW res \in Results, res.account = a, results' = Append(results, res)
    PROVE  /\ NoDuplicate'
           /\ \A b \in Accounts : Reported(b)' <=> (Reported(b) \/ b = a)
           /\ \A i \in DOMAIN results' : results'[i] = res \/ \E j \in DOMAIN results : results'[i] = results[j]
<1>1. /\ DOMAIN results' = DOMAIN results \cup {Len(results) + 1}
      /\ Len(results) + 1 \notin DOMAIN results
      /\ \A i \in DOMAIN results : results'[i] = results[i]
      /\ results'[Len(results) + 1] = res
  BY AppendFacts DEF TypeOK
<1>2. \A i \in DOMAIN results : results[i].account # a
  BY DEF Reported
<1>3. NoDuplicate'
  BY <1>1, <1>2 DEF NoDuplicate
<1>4. \A b \in Accounts : Reported(b)' <=> (Reported(b) \/ b = a)
  BY <1>1 DEF Reported
<1>5. \A i \in DOMAIN results' : results'[i] = res \/ \E j \in DOMAIN results : results'[i] = results[j]
  BY <1>1
<1> QED
  BY <1>3, <1>4, <1>5

\* Nothing is submitted, running or reported at the start.
LEMMA IInvInit == Init => IInv
<1> SUFFICES ASSUME Init PROVE IInv
  OBVIOUS
<1>1. TypeOK
  BY TypeInit
<1> QED
  BY <1>1 DEF Init, IInv, NothingBeforeSubmit, NoDuplicate, UndecidedIsUnreported,
     EveryAccountSomewhere, PhaseSets, BatchIsFinished, TruthfulSoFar, OverdueWhenMarking,
     CancelledAfterLoop,
     NotSubmitted, AfterLoop, Reported

\* A step that leaves the main thread's variables alone.
LEMMA IInvTask ==
    ASSUME IInv, TypeOK', NEW a \in Accounts, Task(a) \/ Hang(a)
    PROVE  IInv'
<1> USE DEF IInv
<1>1. /\ UNCHANGED <<mainVars, mode, now>>
      /\ worker[a] \in Running \cup {"queued"}
      /\ worker'[a] \notin {"cancelled", "none"}
      /\ \A b \in Accounts \ {a} : worker'[b] = worker[b] /\ region'[b] = region[b]
  BY TaskFacts
<1>2. \A b \in Accounts : worker[b] \in Finished => worker'[b] = worker[b]
  BY <1>1 DEF Running, Finished
<1>3. phase \notin NotSubmitted
  BY <1>1 DEF NothingBeforeSubmit, Running
<1>4. phase' \notin NotSubmitted /\ (\A b \in Accounts : Reported(b)' = Reported(b))
  BY <1>1, <1>3 DEF mainVars, Reported
<1>5. NothingBeforeSubmit' /\ NoDuplicate' /\ PhaseSets' /\ OverdueWhenMarking'
  BY <1>1, <1>4 DEF NothingBeforeSubmit, NoDuplicate, PhaseSets, OverdueWhenMarking, mainVars,
     NotSubmitted
<1>6. UndecidedIsUnreported' /\ EveryAccountSomewhere'
  BY <1>1, <1>3, <1>4 DEF UndecidedIsUnreported, EveryAccountSomewhere, mainVars
<1>7. BatchIsFinished'
  BY <1>1, <1>2 DEF BatchIsFinished, mainVars, TypeOK
<1>8. TruthfulSoFar'
  BY <1>1, TruthfulKept DEF mainVars, TypeOK, Running, Finished
<1>9. CancelledAfterLoop'
  BY <1>1 DEF CancelledAfterLoop, mainVars, Running, Finished
<1> QED
  BY <1>5, <1>6, <1>7, <1>8, <1>9

\* A step that leaves the tasks' variables alone keeps what finished tasks say.
LEMMA TasksUnchanged ==
    ASSUME UNCHANGED taskVars
    PROVE  \A a \in Accounts : ResultOf(a)' = ResultOf(a) /\ worker'[a] = worker[a]
BY ResultIsLocal DEF taskVars

\* Every step of the main thread, a task or the clock, and a stutter, keeps the
\* inductive invariant.
LEMMA IInvStep == IInv /\ [Next]_vars => IInv'
<1> SUFFICES ASSUME IInv, [Next]_vars PROVE IInv'
  OBVIOUS
<1>0. TypeOK /\ TypeOK'
  BY TypeStep DEF IInv
<1> USE DEF NotSubmitted, AfterLoop
<1>1. CASE PreflightOk \/ PreflightFails \/ DiscoverOnHub
  BY <1>0, <1>1 DEF IInv, PreflightOk, PreflightFails, DiscoverOnHub, taskVars,
     NothingBeforeSubmit, NoDuplicate, UndecidedIsUnreported, EveryAccountSomewhere,
     PhaseSets, BatchIsFinished, TruthfulSoFar, OverdueWhenMarking, CancelledAfterLoop, Reported
<1>2. CASE Submit
  BY <1>0, <1>2 DEF IInv, Submit,
     NothingBeforeSubmit, NoDuplicate, UndecidedIsUnreported, EveryAccountSomewhere,
     PhaseSets, BatchIsFinished, TruthfulSoFar, OverdueWhenMarking, CancelledAfterLoop, Reported, TypeOK
<1>3. CASE WaitReturns
  <2>1. /\ phase = "wait" /\ phase' = "collect"
        /\ pending \cup batch = pending' \cup batch'
        /\ \A a \in batch' : a \notin pending' /\ worker[a] \in Finished
        /\ UNCHANGED <<results, taskVars, mode, now>>
    BY <1>3 DEF WaitReturns, IInv, PhaseSets
  <2>2. \A a \in Accounts : Reported(a)' = Reported(a)
    BY <2>1 DEF Reported
  <2>3. NothingBeforeSubmit' /\ NoDuplicate' /\ PhaseSets' /\ CancelledAfterLoop' /\ OverdueWhenMarking'
    BY <2>1, <1>3 DEF IInv, NothingBeforeSubmit, NoDuplicate, PhaseSets, OverdueWhenMarking,
       CancelledAfterLoop, taskVars
  <2>4. UndecidedIsUnreported' /\ EveryAccountSomewhere' /\ BatchIsFinished'
    BY <2>1, <2>2, <1>0 DEF IInv, UndecidedIsUnreported, EveryAccountSomewhere, BatchIsFinished, taskVars, TypeOK
  <2>5. TruthfulSoFar'
    BY <2>1, <1>0, TruthfulKept DEF IInv, TypeOK, taskVars
  <2> QED
    BY <1>0, <2>3, <2>4, <2>5 DEF IInv
<1>4. ASSUME NEW a \in Accounts, Collect(a) PROVE IInv'
  <2>1. /\ phase = "collect" /\ a \in batch /\ worker[a] \in Finished /\ ~Reported(a)
        /\ batch' = batch \ {a}
        /\ UNCHANGED <<phase, override, pending, taskVars, mode, now>>
    BY <1>4 DEF Collect, IInv, BatchIsFinished, UndecidedIsUnreported
  <2>2. /\ NoDuplicate'
        /\ \A b \in Accounts : Reported(b)' <=> (Reported(b) \/ b = a)
        /\ \A i \in DOMAIN results' : \/ results'[i] = ResultOf(a)
                                      \/ \E j \in DOMAIN results : results'[i] = results[j]
    BY <1>0, <1>4, <2>1, ResultOfType, AppendResult DEF Collect, IInv
  <2>3. NothingBeforeSubmit' /\ PhaseSets' /\ CancelledAfterLoop' /\ OverdueWhenMarking'
    BY <2>1 DEF IInv, NothingBeforeSubmit, PhaseSets, OverdueWhenMarking,
       CancelledAfterLoop, taskVars
  <2>4. UndecidedIsUnreported' /\ EveryAccountSomewhere' /\ BatchIsFinished'
    BY <2>1, <2>2, <1>0 DEF IInv, UndecidedIsUnreported, EveryAccountSomewhere, BatchIsFinished, taskVars, TypeOK
  <2>5. TruthfulSoFar'
    <3>1. \A b \in Accounts : ResultOf(b)' = ResultOf(b) /\ worker'[b] = worker[b]
      BY <2>1, TasksUnchanged
    <3>2. \A i \in DOMAIN results : \E b \in Accounts :
            \/ now >= ScanTimeout /\ results[i] = TimedOut(b)
            \/ worker[b] \in Finished /\ results[i] = ResultOf(b)
      BY DEF IInv, TruthfulSoFar
    <3>3. \A i \in DOMAIN results' : \E b \in Accounts :
            \/ now >= ScanTimeout /\ results'[i] = TimedOut(b)
            \/ worker[b] \in Finished /\ results'[i] = ResultOf(b)
      BY <2>1, <2>2, <3>2
    <3> QED
      BY <2>1, <3>1, <3>3 DEF TruthfulSoFar, TimedOut
  <2> QED
    BY <1>0, <2>2, <2>3, <2>4, <2>5 DEF IInv
<1>5. CASE CheckDeadline
  <2>1. /\ phase = "collect" /\ batch = {}
        /\ phase' \in {"join", "mark", "wait"}
        /\ phase' = "join" => pending = {}
        /\ phase' = "mark" => now >= ScanTimeout
        /\ UNCHANGED <<override, pending, batch, results, taskVars, mode, now>>
    BY <1>5 DEF CheckDeadline
  <2>2. \A a \in Accounts : Reported(a)' = Reported(a)
    BY <2>1 DEF Reported
  <2>3. NothingBeforeSubmit' /\ NoDuplicate' /\ PhaseSets' /\ CancelledAfterLoop' /\ OverdueWhenMarking'
    BY <2>1 DEF IInv, NothingBeforeSubmit, NoDuplicate, PhaseSets, OverdueWhenMarking,
       CancelledAfterLoop, taskVars
  <2>4. UndecidedIsUnreported' /\ EveryAccountSomewhere' /\ BatchIsFinished'
    BY <2>1, <2>2 DEF IInv, UndecidedIsUnreported, EveryAccountSomewhere, BatchIsFinished
  <2>5. TruthfulSoFar'
    BY <2>1, <1>0, TruthfulKept DEF IInv, TypeOK, taskVars
  <2> QED
    BY <1>0, <2>3, <2>4, <2>5 DEF IInv
<1>6. ASSUME NEW a \in Accounts, MarkTimedOut(a) PROVE IInv'
  <2>1. /\ phase = "mark" /\ a \in pending /\ ~Reported(a)
        /\ pending' = pending \ {a}
        /\ UNCHANGED <<phase, override, batch, taskVars, mode, now>>
    BY <1>6 DEF MarkTimedOut, IInv, UndecidedIsUnreported
  <2>2. /\ NoDuplicate'
        /\ \A b \in Accounts : Reported(b)' <=> (Reported(b) \/ b = a)
        /\ \A i \in DOMAIN results' : \/ results'[i] = TimedOut(a)
                                      \/ \E j \in DOMAIN results : results'[i] = results[j]
    BY <1>0, <1>6, <2>1, TimedOutType, AppendResult DEF MarkTimedOut, IInv
  <2>3. NothingBeforeSubmit' /\ PhaseSets' /\ CancelledAfterLoop' /\ OverdueWhenMarking'
    BY <2>1 DEF IInv, NothingBeforeSubmit, PhaseSets, OverdueWhenMarking,
       CancelledAfterLoop, taskVars
  <2>4. UndecidedIsUnreported' /\ EveryAccountSomewhere' /\ BatchIsFinished'
    BY <2>1, <2>2, <1>0 DEF IInv, UndecidedIsUnreported, EveryAccountSomewhere, BatchIsFinished, taskVars, TypeOK
  <2>5. TruthfulSoFar'
    <3>1. \A b \in Accounts : ResultOf(b)' = ResultOf(b) /\ worker'[b] = worker[b]
      BY <2>1, TasksUnchanged
    <3>2. now >= ScanTimeout
      BY <2>1 DEF IInv, OverdueWhenMarking
    <3>3. \A i \in DOMAIN results : \E b \in Accounts :
            \/ now >= ScanTimeout /\ results[i] = TimedOut(b)
            \/ worker[b] \in Finished /\ results[i] = ResultOf(b)
      BY DEF IInv, TruthfulSoFar
    <3>4. \A i \in DOMAIN results' : \E b \in Accounts :
            \/ now >= ScanTimeout /\ results'[i] = TimedOut(b)
            \/ worker[b] \in Finished /\ results'[i] = ResultOf(b)
      BY <2>2, <3>2, <3>3
    <3> QED
      BY <2>1, <3>1, <3>4 DEF TruthfulSoFar, TimedOut
  <2> QED
    BY <1>0, <2>2, <2>3, <2>4, <2>5 DEF IInv
<1>7. CASE CancelQueued
  <2>1. /\ phase = "mark" /\ pending = {} /\ batch = {} /\ phase' = "join"
        /\ UNCHANGED <<override, pending, batch, results, region, mode, now>>
        /\ \A a \in Accounts : worker[a] \in Finished => worker'[a] = worker[a] /\ region'[a] = region[a]
        /\ \A a \in Accounts : worker'[a] \in {worker[a], "cancelled"}
    BY <1>7, <1>0 DEF CancelQueued, IInv, PhaseSets, Finished, TypeOK
  <2>2. \A a \in Accounts : Reported(a)' = Reported(a)
    BY <2>1 DEF Reported
  <2>4. NothingBeforeSubmit' /\ NoDuplicate' /\ PhaseSets' /\ CancelledAfterLoop' /\ OverdueWhenMarking'
    BY <2>1 DEF IInv, NothingBeforeSubmit, NoDuplicate, PhaseSets, OverdueWhenMarking,
       CancelledAfterLoop
  <2>5. UndecidedIsUnreported' /\ EveryAccountSomewhere' /\ BatchIsFinished'
    BY <2>1, <2>2 DEF IInv, UndecidedIsUnreported, EveryAccountSomewhere, BatchIsFinished
  <2>6. TruthfulSoFar'
    BY <2>1, <1>0, TruthfulKept DEF IInv, TypeOK
  <2> QED
    BY <1>0, <2>4, <2>5, <2>6 DEF IInv
<1>8. CASE JoinThreads
  <2>1. /\ phase = "join" /\ phase' = "returned"
        /\ \A a \in Accounts : worker[a] \in Finished \cup {"cancelled"}
        /\ UNCHANGED <<override, pending, batch, results, taskVars, mode, now>>
    BY <1>8 DEF JoinThreads
  <2>2. \A a \in Accounts : Reported(a)' = Reported(a)
    BY <2>1 DEF Reported
  <2>3. NothingBeforeSubmit' /\ NoDuplicate' /\ PhaseSets' /\ CancelledAfterLoop' /\ OverdueWhenMarking'
    BY <2>1 DEF IInv, NothingBeforeSubmit, NoDuplicate, PhaseSets, OverdueWhenMarking,
       CancelledAfterLoop, taskVars
  <2>4. UndecidedIsUnreported' /\ EveryAccountSomewhere' /\ BatchIsFinished'
    BY <2>1, <2>2 DEF IInv, UndecidedIsUnreported, EveryAccountSomewhere, BatchIsFinished, taskVars
  <2>5. TruthfulSoFar'
    BY <2>1, <1>0, TruthfulKept DEF IInv, TypeOK, taskVars
  <2> QED
    BY <1>0, <2>3, <2>4, <2>5 DEF IInv
<1>9. ASSUME NEW a \in Accounts, Task(a) \/ Hang(a) PROVE IInv'
  BY <1>0, <1>9, IInvTask
<1>10. CASE Tick \/ UNCHANGED vars
  <2>1. /\ UNCHANGED <<mainVars, taskVars, mode>>
        /\ now \in Nat /\ now' \in Nat /\ now' >= now
    BY <1>0, <1>10 DEF Tick, vars, TypeOK
  <2>2. \A a \in Accounts : Reported(a)' = Reported(a)
    BY <2>1 DEF Reported, mainVars
  <2>3. NothingBeforeSubmit' /\ NoDuplicate' /\ PhaseSets' /\ CancelledAfterLoop'
    BY <2>1 DEF IInv, NothingBeforeSubmit, NoDuplicate, PhaseSets, CancelledAfterLoop, mainVars, taskVars
  <2>4. UndecidedIsUnreported' /\ EveryAccountSomewhere' /\ BatchIsFinished'
    BY <2>1, <2>2 DEF IInv, UndecidedIsUnreported, EveryAccountSomewhere, BatchIsFinished, mainVars, taskVars
  <2>5. OverdueWhenMarking'
    BY <2>1 DEF IInv, OverdueWhenMarking, mainVars
  <2>6. TruthfulSoFar'
    BY <2>1, <1>0, TruthfulKept DEF IInv, mainVars, taskVars
  <2> QED
    BY <1>0, <2>3, <2>4, <2>5, <2>6 DEF IInv
<1> QED
  BY <1>1, <1>2, <1>3, <1>4, <1>5, <1>6, <1>7, <1>8, <1>9, <1>10 DEF Next, Main

\* The inductive invariant holds of every reachable state.
LEMMA IInvHolds == Spec => []IInv
BY IInvInit, IInvStep, PTL DEF Spec

\* scan_multiple_accounts reports every account exactly once, for any number of
\* accounts and threads, any timeout, and even if threads hang.
THEOREM OneResult == Spec => []OneResultPerAccount
<1>1. IInv => OneResultPerAccount
  BY DEF IInv, OneResultPerAccount, NoDuplicate, EveryAccountSomewhere, PhaseSets,
     NotSubmitted, AfterLoop
<1> QED
  BY <1>1, IInvHolds, PTL

\* Every collected result is the final result of its task, and "timeout" is said
\* only after the deadline.
THEOREM Truthful == Spec => []ResultsAreTruthful
<1>1. IInv => ResultsAreTruthful
  <2> SUFFICES ASSUME IInv, NEW i \in DOMAIN results
               PROVE  IF results[i].status = "timeout"
                        THEN now >= ScanTimeout
                        ELSE /\ worker[results[i].account] \in Finished
                             /\ results[i] = ResultOf(results[i].account)
    BY DEF ResultsAreTruthful
  <2>1. PICK a \in Accounts :
            \/ now >= ScanTimeout /\ results[i] = TimedOut(a)
            \/ worker[a] \in Finished /\ results[i] = ResultOf(a)
    BY DEF IInv, TruthfulSoFar
  <2> QED
    BY <2>1, ResultOfType, TimedOutType
<1> QED
  BY <1>1, IInvHolds, PTL

\* Cancelling a queued task never removes its account from the report.
THEOREM CancelledAreReported == Spec => []CancelledIsTimedOut
<1>1. IInv => CancelledIsTimedOut
  <2> SUFFICES ASSUME IInv, NEW a \in Accounts, worker[a] = "cancelled"
               PROVE  \E i \in DOMAIN results : results[i] = TimedOut(a)
    BY DEF CancelledIsTimedOut
  <2>1. PICK i \in DOMAIN results : results[i].account = a
    BY DEF IInv, CancelledAfterLoop, EveryAccountSomewhere, PhaseSets, NotSubmitted, AfterLoop,
       Reported
  <2>2. PICK b \in Accounts :
            \/ now >= ScanTimeout /\ results[i] = TimedOut(b)
            \/ worker[b] \in Finished /\ results[i] = ResultOf(b)
    BY DEF IInv, TruthfulSoFar
  <2>3. b = a
    BY <2>1, <2>2, ResultOfType, TimedOutType
  <2> QED
    BY <2>2, <2>3 DEF Finished
<1> QED
  BY <1>1, IInvHolds, PTL

-----------------------------------------------------------------------------
\* The status a list shows of an account is that of its only result, and
\* appending a result decides the account it is about and no other.
LEMMA StatusOfResult ==
    ASSUME NEW list, NEW i \in DOMAIN list,
           \A j \in DOMAIN list : list[j].account = list[i].account => j = i
    PROVE  StatusIn(list, list[i].account) = list[i].status
<1> DEFINE c == CHOOSE j \in DOMAIN list : list[j].account = list[i].account
<1>1. c \in DOMAIN list /\ list[c].account = list[i].account
  OBVIOUS
<1>2. c = i
  BY <1>1
<1> QED
  BY <1>2 DEF StatusIn

\* Every element of the results is a result.
LEMMA ElementType ==
    ASSUME NEW list \in Seq(Results), NEW i \in DOMAIN list
    PROVE  list[i].account \in Accounts /\ list[i].status \in Statuses
<1>1. list[i] \in Results
  OBVIOUS
<1> QED
  BY <1>1 DEF Results

\* After an append only the account appended has another status than before.
LEMMA StatusAfterAppend ==
    ASSUME NEW list \in Seq(Results), NEW res \in Results,
           \A i, j \in DOMAIN list : list[i].account = list[j].account => i = j,
           \A i \in DOMAIN list : list[i].account # res.account
    PROVE  /\ StatusIn(Append(list, res), res.account) = res.status
           /\ StatusIn(list, res.account) = "none"
           /\ \A b : b # res.account => StatusIn(Append(list, res), b) = StatusIn(list, b)
<1> DEFINE new == Append(list, res)
<1>1. /\ DOMAIN new = DOMAIN list \cup {Len(list) + 1}
      /\ Len(list) + 1 \notin DOMAIN list
      /\ \A i \in DOMAIN list : new[i] = list[i]
      /\ new[Len(list) + 1] = res
  BY AppendFacts
<1> HIDE DEF new
<1>2. StatusIn(new, res.account) = res.status
  BY <1>1, StatusOfResult
<1>3. StatusIn(list, res.account) = "none"
  BY DEF StatusIn
<1>4. ASSUME NEW b, b # res.account PROVE StatusIn(new, b) = StatusIn(list, b)
  <2>1. CASE \E i \in DOMAIN list : list[i].account = b
    <3>1. PICK i \in DOMAIN list : list[i].account = b
      BY <2>1
    <3>2. StatusIn(list, b) = list[i].status
      BY <3>1, StatusOfResult
    <3>3. \A j \in DOMAIN new : new[j].account = new[i].account => j = i
      BY <1>1, <1>4, <3>1
    <3>4. StatusIn(new, b) = new[i].status
      BY <1>1, <3>1, <3>3, StatusOfResult
    <3> QED
      BY <1>1, <3>2, <3>4
  <2>2. CASE ~ \E i \in DOMAIN list : list[i].account = b
    BY <1>1, <1>4, <2>2 DEF StatusIn
  <2> QED
    BY <2>1, <2>2
<1> QED
  BY <1>2, <1>3, <1>4 DEF new

\* A step that appends a result is a Decide step of the report.
LEMMA DecideStep ==
    ASSUME IInv, NEW a \in Accounts, ~Reported(a), NEW res \in Results, res.account = a,
           results' = Append(results, res), res.status = "timeout" => now >= ScanTimeout,
           phase' = phase, phase # "returned", now' = now
    PROVE  Report!Next
<1>1. /\ StatusIn(results', a) = res.status
      /\ StatusIn(results, a) = "none"
      /\ \A b : b # a => StatusIn(results', b) = StatusIn(results, b)
  BY StatusAfterAppend DEF IInv, TypeOK, NoDuplicate, Reported
<1>2. [b \in Accounts |-> StatusIn(results', b)] =
          [[b \in Accounts |-> StatusIn(results, b)] EXCEPT ![a] = res.status]
  BY <1>1
<1>3. Report!Decide(a, res.status)
  BY <1>1, <1>2 DEF Report!Decide
<1>4. res.status \in Statuses
  BY DEF Results
<1> QED
  BY <1>3, <1>4 DEF Report!Next

\* A step that changes neither the results nor the end of the scan is a stutter
\* of the report, or the moment it becomes overdue.
LEMMA QuietStep ==
    ASSUME TypeOK, TypeOK', UNCHANGED results, now' >= now,
           (phase' = "returned") <=> (phase = "returned")
    PROVE  [Report!Next]_Report!vars
<1>1. CASE now' >= ScanTimeout /\ ~(now >= ScanTimeout)
  BY <1>1 DEF Report!Next, Report!GoOverdue
<1>2. CASE (now' >= ScanTimeout) = (now >= ScanTimeout)
  BY <1>2 DEF Report!vars
<1>3. now \in Nat /\ now' \in Nat
  BY DEF TypeOK
<1> QED
  BY <1>1, <1>2, <1>3

\* MultiAccountScan implements AccountReport.
THEOREM Implementation == Spec => ImplementsReport
<1>1. Init => Report!Init
  <2> SUFFICES ASSUME Init PROVE Report!Init
    OBVIOUS
  <2>1. \A a \in Accounts : StatusIn(results, a) = "none"
    BY DEF Init, StatusIn
  <2>2. (now >= ScanTimeout) \in BOOLEAN
    BY DEF Init
  <2> QED
    BY <2>1, <2>2 DEF Init, Report!Init
<1>2. IInv /\ [Next]_vars => [Report!Next]_Report!vars
  <2> SUFFICES ASSUME IInv, [Next]_vars PROVE [Report!Next]_Report!vars
    OBVIOUS
  <2>1. TypeOK /\ TypeOK' /\ now \in Nat
    BY TypeStep DEF IInv, TypeOK
  <2>2. CASE PreflightOk \/ PreflightFails \/ DiscoverOnHub \/ Submit \/ WaitReturns
             \/ CheckDeadline \/ CancelQueued
    BY <2>1, <2>2, QuietStep DEF PreflightOk, PreflightFails, DiscoverOnHub, Submit, WaitReturns,
       CheckDeadline, CancelQueued
  <2>3. ASSUME NEW a \in Accounts, Collect(a) PROVE Report!Next
    <3>1. ~Reported(a)
      BY <2>3 DEF Collect, IInv, UndecidedIsUnreported
    <3> QED
      BY <2>3, <3>1, ResultOfType, DecideStep DEF Collect
  <2>4. ASSUME NEW a \in Accounts, MarkTimedOut(a) PROVE Report!Next
    <3>1. ~Reported(a) /\ now >= ScanTimeout
      BY <2>4 DEF MarkTimedOut, IInv, UndecidedIsUnreported, OverdueWhenMarking
    <3> QED
      BY <2>4, <3>1, TimedOutType, DecideStep DEF MarkTimedOut
  <2>5. CASE JoinThreads
    <3>1. \A a \in Accounts : Reported(a)
      BY <2>5 DEF JoinThreads, IInv, EveryAccountSomewhere, PhaseSets, NotSubmitted, AfterLoop
    <3>2. ASSUME NEW a \in Accounts PROVE StatusIn(results, a) # "none"
      <4>1. PICK i \in DOMAIN results : results[i].account = a
        BY <3>1 DEF Reported
      <4>2. StatusIn(results, a) = results[i].status
        BY <4>1, StatusOfResult DEF IInv, NoDuplicate
      <4>3. results[i].status \in Statuses
        BY <2>1, ElementType DEF TypeOK
      <4> QED
        BY <4>2, <4>3 DEF Statuses
    <3>3. Report!HandOver
      BY <2>5, <3>2 DEF JoinThreads, Report!HandOver
    <3> QED
      BY <3>3 DEF Report!Next
  <2>6. ASSUME NEW a \in Accounts, Task(a) \/ Hang(a) PROVE [Report!Next]_Report!vars
    BY <2>1, <2>6, TaskFacts, QuietStep DEF mainVars
  <2>7. CASE Tick \/ UNCHANGED vars
    BY <2>1, <2>7, QuietStep DEF Tick, vars, mainVars
  <2> QED
    BY <2>2, <2>3, <2>4, <2>5, <2>6, <2>7 DEF Next, Main
<1> QED
  BY <1>1, <1>2, IInvHolds, PTL DEF Spec, Report!Spec, ImplementsReport

-----------------------------------------------------------------------------
(***************************************************************************)
(* The regions of an account: a task that scans has at least one region    *)
(* (discovery falls back on one), and has dealt with all when it is done.  *)
(***************************************************************************)
HubFoundRegions ==
    mode = "hub" /\ phase \notin {"preflight", "hub", "aborted"} => override # {}

ScansSomething ==
    \A a \in Accounts :
        /\ worker[a] \in {"scan", "done"} => \E r \in Regions : region[a][r] # "out"
        /\ worker[a] = "done" => \A r \in Regions : region[a][r] # "todo"

RInv == HubFoundRegions /\ ScansSomething

\* One step of a task keeps its own regions in order.
LEMMA RegionsOfTask ==
    ASSUME TypeOK, RInv, NEW a \in Accounts, Task(a) \/ Hang(a), phase \notin NotSubmitted
    PROVE  /\ worker'[a] \in {"scan", "done"} => \E r \in Regions : region'[a][r] # "out"
           /\ worker'[a] = "done" => \A r \in Regions : region'[a][r] # "todo"
<1> USE DEF TypeOK
<1>1. CASE Hang(a) \/ StartTask(a) \/ AssumeRetries(a)
  BY <1>1 DEF Hang, StartTask, AssumeRetries
<1>2. CASE AssumeDenied(a) \/ AssumeGivesUp(a)
  BY <1>2 DEF AssumeDenied, AssumeGivesUp, FailTask
<1>3. CASE AssumeSucceeds(a)
  <2>1. CASE mode = "perAccount"
    BY <1>3, <2>1 DEF AssumeSucceeds
  <2>2. CASE mode = "hub"
    <3>1. region'[a] = Selected(override) /\ worker'[a] = "scan"
      BY <1>3, <2>2 DEF AssumeSucceeds
    <3>2. PICK r \in Regions : r \in override
      BY <2>2 DEF RInv, HubFoundRegions, NotSubmitted
    <3> QED
      BY <3>1, <3>2 DEF Selected
  <2>3. CASE mode = "explicit"
    <3>1. region'[a] = Selected({HomeRegion}) /\ worker'[a] = "scan"
      BY <1>3, <2>3 DEF AssumeSucceeds
    <3> QED
      BY <3>1 DEF Selected
  <2> QED
    BY <2>1, <2>2, <2>3 DEF Modes
<1>4. CASE DiscoverRegions(a)
  <2>1. PICK rs \in DiscoveredRegions : region'[a] = Selected(rs)
    BY <1>4 DEF DiscoverRegions
  <2>2. PICK r \in Regions : r \in rs
    BY <2>1 DEF DiscoveredRegions
  <2> QED
    BY <1>4, <2>1, <2>2 DEF DiscoverRegions, Selected
<1>5. ASSUME NEW r \in Regions, ScanRegion(a, r)
      PROVE  worker'[a] = "scan" /\ \E q \in Regions : region'[a][q] # "out"
  <2>1. region'[a][r] \in {"expired", "failed", "scanned"}
    BY <1>5 DEF ScanRegion
  <2> QED
    BY <1>5, <2>1 DEF ScanRegion
<1>6. CASE FinishTask(a)
  BY <1>6 DEF FinishTask, InState, RInv, ScansSomething
<1> QED
  BY <1>1, <1>2, <1>3, <1>4, <1>5, <1>6 DEF Task

\* Every step keeps what ties the statuses to the regions.
LEMMA RInvStep == IInv /\ RInv /\ [Next]_vars => RInv'
<1> SUFFICES ASSUME IInv, RInv, [Next]_vars PROVE RInv'
  OBVIOUS
<1>0. TypeOK /\ TypeOK'
  BY TypeStep DEF IInv
<1>1. CASE PreflightOk \/ PreflightFails \/ CheckDeadline \/ JoinThreads \/ WaitReturns
  BY <1>1 DEF RInv, HubFoundRegions, ScansSomething, PreflightOk, PreflightFails, CheckDeadline,
     JoinThreads, WaitReturns, taskVars
<1>2. CASE DiscoverOnHub
  <2>1. override' # {}
    BY <1>2 DEF DiscoverOnHub, DiscoveredRegions
  <2> QED
    BY <1>2, <2>1 DEF DiscoverOnHub, RInv, HubFoundRegions, ScansSomething, taskVars
<1>3. CASE Submit \/ CancelQueued
  BY <1>0, <1>3 DEF Submit, CancelQueued, RInv, HubFoundRegions, ScansSomething, TypeOK
<1>4. ASSUME NEW a \in Accounts, Collect(a) \/ MarkTimedOut(a) PROVE RInv'
  BY <1>4 DEF Collect, MarkTimedOut, RInv, HubFoundRegions, ScansSomething, taskVars
<1>5. ASSUME NEW a \in Accounts, Task(a) \/ Hang(a) PROVE RInv'
  <2>1. /\ UNCHANGED <<mainVars, mode, now>>
        /\ worker[a] \in Running \cup {"queued"}
        /\ \A b \in Accounts \ {a} : worker'[b] = worker[b] /\ region'[b] = region[b]
    BY <1>0, <1>5, TaskFacts
  <2>2. phase \notin NotSubmitted
    BY <2>1 DEF IInv, NothingBeforeSubmit, Running
  <2>3. /\ worker'[a] \in {"scan", "done"} => \E r \in Regions : region'[a][r] # "out"
        /\ worker'[a] = "done" => \A r \in Regions : region'[a][r] # "todo"
    BY <1>0, <1>5, <2>2, RegionsOfTask
  <2>4. ScansSomething'
    BY <2>1, <2>3 DEF RInv, ScansSomething
  <2> QED
    BY <2>1, <2>4 DEF RInv, HubFoundRegions, mainVars
<1>6. CASE Tick \/ UNCHANGED vars
  BY <1>6 DEF Tick, vars, RInv, HubFoundRegions, ScansSomething, taskVars, mainVars
<1> QED
  BY <1>1, <1>2, <1>3, <1>4, <1>5, <1>6 DEF Next, Main

\* success, partial and failed say the truth about the regions of an account,
\* and a failed or timed-out account contributes no finding.
THEOREM StatusIsSound == Spec => []StatusMatchesRegions
<1>1. Init => RInv
  BY DEF Init, RInv, HubFoundRegions, ScansSomething
<1>2. IInv /\ RInv => StatusMatchesRegions
  <2> SUFFICES ASSUME IInv, RInv, NEW i \in DOMAIN results
               PROVE  LET res == results[i]
                          kept == {r \in Regions : region[res.account][r] \in {"scanned", "expired"}}
                      IN  /\ res.status = "success" => res.regionsFailed = {} /\ kept # {}
                          /\ res.status = "partial" => res.regionsFailed # {} /\ kept # {}
                          /\ res.status \in {"failed", "timeout"} => res.found = {}
    BY DEF StatusMatchesRegions
  <2>1. PICK a \in Accounts :
            \/ now >= ScanTimeout /\ results[i] = TimedOut(a)
            \/ worker[a] \in Finished /\ results[i] = ResultOf(a)
    BY DEF IInv, TruthfulSoFar
  <2>2. CASE results[i] = TimedOut(a)
    BY <2>2 DEF TimedOut
  <2>3. CASE worker[a] # "done" /\ results[i] = ResultOf(a)
    BY <2>3 DEF ResultOf
  <2>4. CASE worker[a] = "done" /\ results[i] = ResultOf(a)
    <3> DEFINE failed == InState(a, "failed")
               chosen == Regions \ InState(a, "out")
               kept == {r \in Regions : region[a][r] \in {"scanned", "expired"}}
    <3>1. /\ results[i].account = a /\ results[i].status = StatusOf(a)
          /\ results[i].found = InState(a, "scanned") /\ results[i].regionsFailed = failed
      BY <2>4 DEF ResultOf
    <3>2. \A r \in Regions : region[a][r] \in RegionStates \ {"todo"}
      BY <2>4 DEF IInv, TypeOK, RInv, ScansSomething
    <3>3. chosen # {} /\ chosen = failed \cup kept
      BY <3>2, <2>4 DEF InState, RegionStates, RInv, ScansSomething
    <3>4. InState(a, "scanned") \subseteq chosen /\ InState(a, "scanned") \cap failed = {}
      BY DEF InState
    <3>5. CASE failed = {}
      BY <3>1, <3>3, <3>5 DEF StatusOf
    <3>6. CASE failed # {} /\ failed # chosen
      BY <3>1, <3>3, <3>6 DEF StatusOf
    <3>7. CASE failed # {} /\ failed = chosen
      BY <3>1, <3>4, <3>7 DEF StatusOf
    <3> QED
      BY <3>5, <3>6, <3>7
  <2> QED
    BY <2>1, <2>2, <2>3, <2>4
<1> QED
  BY <1>1, <1>2, RInvStep, IInvHolds, PTL DEF Spec
=============================================================================
