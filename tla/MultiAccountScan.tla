-------------------------- MODULE MultiAccountScan --------------------------
(***************************************************************************)
(* The AWS multi-account scan (providers/aws/multi_account.py): the main   *)
(* thread submits one task per account to a ThreadPoolExecutor, collects   *)
(* finished futures with wait(..., FIRST_COMPLETED) under one wall-clock   *)
(* deadline, reports what is left as timed out, cancels what never         *)
(* started, and leaves the `with` block, which joins the pool's threads.   *)
(* A task assumes the spoke account's role (providers/aws/session.py, with *)
(* retries), decides the regions, scans them and classifies the account.   *)
(*                                                                         *)
(* Accounts are the positions of config.accounts: the same id may be       *)
(* listed twice, and the code keys everything by future, never by id.      *)
(* Time is counted in units of which CredLife make the 900 s life of an    *)
(* assumed session and ScanTimeout make config.scan_timeout.               *)
(***************************************************************************)
EXTENDS Naturals, FiniteSets, Sequences

CONSTANTS
    NumAccounts,     \* len(config.accounts)
    MaxConcurrent,   \* --concurrency
    Regions,         \* the regions AWS knows
    HomeRegion,      \* the --region argument, and the "us-east-1" fallback
    MaxAttempts,     \* assume_role's max_attempts
    ScanTimeout,     \* config.scan_timeout
    CredLife,        \* DurationSeconds of an assumed session
    MaxTime,         \* bound of the clock
    MayHang          \* TRUE: an API call may never return

ASSUME NumAccountsAssumption == NumAccounts \in Nat \ {0}
ASSUME MaxConcurrentAssumption == MaxConcurrent \in Nat \ {0}
ASSUME RegionsAssumption == HomeRegion \in Regions
ASSUME MaxAttemptsAssumption == MaxAttempts \in Nat \ {0}
ASSUME TimeAssumption ==
    ScanTimeout \in Nat /\ CredLife \in Nat /\ MaxTime \in Nat /\ ScanTimeout <= MaxTime
ASSUME MayHangAssumption == MayHang \in BOOLEAN

Accounts == 1 .. NumAccounts
Workers == IF MaxConcurrent < NumAccounts THEN MaxConcurrent ELSE NumAccounts

\* How the regions of an account are decided: --all-regions discovers them once
\* on the hub, --region names one, --per-account-regions discovers in each account.
Modes == {"hub", "explicit", "perAccount"}

MainPhases == {"preflight", "hub", "submit", "wait", "collect", "mark", "join",
               "returned", "aborted"}

\* A task: waiting in the pool's queue, in assume_role, in region discovery,
\* scanning; then returned a result of the regions ("done"), returned a failed
\* result from an except clause ("error"), or let an exception out ("raised").
Finished == {"done", "error", "raised"}
Running == {"assume", "discover", "scan"}
WorkerPhases == {"none", "queued", "cancelled", "hung"} \cup Running \cup Finished

\* A region of an account: not selected, to scan, scanned, scanned with expired
\* credentials (every rule raised and was recorded as skipped), failed.
RegionStates == {"out", "todo", "scanned", "expired", "failed"}
Statuses == {"success", "partial", "failed", "timeout"}

VARIABLES
    phase,      \* where the main thread is
    mode,       \* how regions are decided
    override,   \* regions_override
    worker,     \* the phase of each account's task
    attempt,    \* assume_role's attempt, 0 outside it
    assumedAt,  \* when the role was assumed, 0 outside a scan
    region,     \* what became of each region of an account
    pending,    \* the futures wait() has not returned, or not yet marked
    batch,      \* the futures of the last wait() not yet collected
    results,    \* the list scan_multiple_accounts builds
    now         \* time.monotonic() since the deadline was set

mainVars == <<phase, override, pending, batch, results>>
taskVars == <<worker, attempt, assumedAt, region>>
vars == <<mainVars, taskVars, mode, now>>

NoRegions == [r \in Regions |-> "out"]
Selected(rs) == [r \in Regions |-> IF r \in rs THEN "todo" ELSE "out"]
InState(a, s) == {r \in Regions : region[a][r] = s}

\* Mutant: <= where the code has <.
StatusOfAtMost(a) ==
    LET failed == InState(a, "failed")
        chosen == Regions \ InState(a, "out")
    IN  IF failed = {} THEN "success"
        ELSE IF Cardinality(failed) <= Cardinality(chosen) THEN "partial"
        ELSE "failed"

\* len(regions_failed) against len(regions_to_scan)
StatusOf(a) ==
    LET failed == InState(a, "failed")
        chosen == Regions \ InState(a, "out")
    IN  IF failed = {} THEN "success"
        ELSE IF failed # chosen THEN "partial"
        ELSE "failed"

\* What future.result() returns, or the record built when it raises.
ResultOf(a) ==
    IF worker[a] = "done"
      THEN [account |-> a, status |-> StatusOf(a),
            found |-> InState(a, "scanned"), regionsFailed |-> InState(a, "failed")]
      ELSE [account |-> a, status |-> "failed", found |-> {}, regionsFailed |-> {}]

TimedOut(a) == [account |-> a, status |-> "timeout", found |-> {}, regionsFailed |-> {}]

Results == [account : Accounts, status : Statuses,
            found : SUBSET Regions, regionsFailed : SUBSET Regions]

Reported(a) == \E i \in DOMAIN results : results[i].account = a

-----------------------------------------------------------------------------
Init ==
    /\ phase = "preflight"
    /\ mode \in Modes
    /\ override = {}
    /\ worker = [a \in Accounts |-> "none"]
    /\ attempt = [a \in Accounts |-> 0]
    /\ assumedAt = [a \in Accounts |-> 0]
    /\ region = [a \in Accounts |-> NoRegions]
    /\ pending = {}
    /\ batch = {}
    /\ results = <<>>
    /\ now = 0

\* _get_active_aws_regions(...) or ["us-east-1"]: a cached or probed list.
DiscoveredRegions == {IF found = {} THEN {HomeRegion} ELSE found : found \in SUBSET Regions}

PreflightOk ==
    /\ phase = "preflight"
    /\ phase' = IF mode = "hub" THEN "hub" ELSE "submit"
    /\ UNCHANGED <<override, pending, batch, results, taskVars, mode, now>>

\* The hub's sts:GetCallerIdentity raises: the exception leaves the function.
PreflightFails ==
    /\ phase = "preflight"
    /\ phase' = "aborted"
    /\ UNCHANGED <<override, pending, batch, results, taskVars, mode, now>>

DiscoverOnHub ==
    /\ phase = "hub"
    /\ override' \in DiscoveredRegions
    /\ phase' = "submit"
    /\ UNCHANGED <<pending, batch, results, taskVars, mode, now>>

Submit ==
    /\ phase = "submit"
    /\ worker' = [a \in Accounts |-> "queued"]
    /\ pending' = Accounts
    /\ phase' = "wait"
    /\ UNCHANGED <<override, batch, results, attempt, assumedAt, region, mode, now>>

\* Mutant: `done, _ = wait(...)`, the set of pending futures is not replaced.
WaitReturnsKeepsPending ==
    LET done == {a \in pending : worker[a] \in Finished}
    IN  /\ phase = "wait"
        /\ done # {} \/ now >= ScanTimeout
        /\ batch' = done
        /\ phase' = "collect"
        /\ UNCHANGED <<override, pending, results, taskVars, mode, now>>

\* Mutant: after the deadline everything pending is collected.
WaitReturnsAll ==
    LET done == IF now >= ScanTimeout THEN pending ELSE {a \in pending : worker[a] \in Finished}
    IN  /\ phase = "wait"
        /\ done # {}
        /\ batch' = done
        /\ pending' = pending \ done
        /\ phase' = "collect"
        /\ UNCHANGED <<override, results, taskVars, mode, now>>

\* Mutant: wait(...) without a timeout.
WaitReturnsUntimed ==
    LET done == {a \in pending : worker[a] \in Finished}
    IN  /\ phase = "wait"
        /\ done # {}
        /\ batch' = done
        /\ pending' = pending \ done
        /\ phase' = "collect"
        /\ UNCHANGED <<override, results, taskVars, mode, now>>

\* wait(pending, timeout=max(0.1, deadline - now), FIRST_COMPLETED)
WaitReturns ==
    LET done == {a \in pending : worker[a] \in Finished}
    IN  /\ phase = "wait"
        /\ done # {} \/ now >= ScanTimeout
        /\ batch' = done
        /\ pending' = pending \ done
        /\ phase' = "collect"
        /\ UNCHANGED <<override, results, taskVars, mode, now>>

Collect(a) ==
    /\ phase = "collect"
    /\ a \in batch
    /\ results' = Append(results, ResultOf(a))
    /\ batch' = batch \ {a}
    /\ UNCHANGED <<phase, override, pending, taskVars, mode, now>>

\* Mutant: the rest is given up after the first batch, whatever the time.
CheckNoDeadline ==
    /\ phase = "collect"
    /\ batch = {}
    /\ phase' = IF pending = {} THEN "join" ELSE "mark"
    /\ UNCHANGED <<override, pending, batch, results, taskVars, mode, now>>

\* Mutant: `while True`, left only by the break at the deadline.
CheckOnlyDeadline ==
    /\ phase = "collect"
    /\ batch = {}
    /\ phase' = IF pending # {} /\ now >= ScanTimeout THEN "mark" ELSE "wait"
    /\ UNCHANGED <<override, pending, batch, results, taskVars, mode, now>>

\* After the batch: leave the loop, give up on the rest, or wait again.
CheckDeadline ==
    /\ phase = "collect"
    /\ batch = {}
    /\ phase' = IF pending = {} THEN "join"
                ELSE IF now >= ScanTimeout THEN "mark"
                ELSE "wait"
    /\ UNCHANGED <<override, pending, batch, results, taskVars, mode, now>>

MarkTimedOut(a) ==
    /\ phase = "mark"
    /\ a \in pending
    /\ results' = Append(results, TimedOut(a))
    /\ pending' = pending \ {a}
    /\ UNCHANGED <<phase, override, batch, taskVars, mode, now>>

\* executor.shutdown(wait=False, cancel_futures=True); break
CancelQueued ==
    /\ phase = "mark"
    /\ pending = {}
    /\ worker' = [a \in Accounts |-> IF worker[a] = "queued" THEN "cancelled" ELSE worker[a]]
    /\ phase' = "join"
    /\ UNCHANGED <<override, pending, batch, results, attempt, assumedAt, region, mode, now>>

\* Leaving the `with` block runs shutdown(wait=True): every thread is joined.
JoinThreads ==
    /\ phase = "join"
    /\ \A a \in Accounts : worker[a] \in Finished \cup {"cancelled"}
    /\ phase' = "returned"
    /\ UNCHANGED <<override, pending, batch, results, taskVars, mode, now>>

-----------------------------------------------------------------------------
\* A pool thread takes the oldest queued task.
StartTask(a) ==
    /\ worker[a] = "queued"
    /\ \A b \in Accounts : b < a => worker[b] # "queued"
    /\ Cardinality({b \in Accounts : worker[b] \in Running \cup {"hung"}}) < Workers
    /\ worker' = [worker EXCEPT ![a] = "assume"]
    /\ attempt' = [attempt EXCEPT ![a] = 1]
    /\ UNCHANGED <<mainVars, assumedAt, region, mode, now>>

AssumeSucceeds(a) ==
    /\ worker[a] = "assume"
    /\ worker' = [worker EXCEPT ![a] = IF mode = "perAccount" THEN "discover" ELSE "scan"]
    /\ region' = [region EXCEPT ![a] =
                    CASE mode = "hub" -> Selected(override)
                      [] mode = "explicit" -> Selected({HomeRegion})
                      [] OTHER -> NoRegions]
    /\ attempt' = [attempt EXCEPT ![a] = 0]
    /\ assumedAt' = [assumedAt EXCEPT ![a] = now]
    /\ UNCHANGED <<mainVars, mode, now>>

\* scan_account's except clauses; the first one may itself raise KeyError on an
\* error response without a message, and then future.result() raises.
FailTask(a) ==
    /\ \E w \in {"error", "raised"} : worker' = [worker EXCEPT ![a] = w]
    /\ attempt' = [attempt EXCEPT ![a] = 0]
    /\ UNCHANGED <<mainVars, assumedAt, region, mode, now>>

\* AccessDenied, NoSuchEntity, ValidationError, InvalidParameter
AssumeDenied(a) ==
    /\ worker[a] = "assume"
    /\ FailTask(a)

\* Mutant: <= where the loop has <.
AssumeRetriesOnceMore(a) ==
    /\ worker[a] = "assume"
    /\ attempt[a] <= MaxAttempts
    /\ attempt' = [attempt EXCEPT ![a] = @ + 1]
    /\ UNCHANGED <<mainVars, worker, assumedAt, region, mode, now>>

AssumeRetries(a) ==
    /\ worker[a] = "assume"
    /\ attempt[a] < MaxAttempts
    /\ attempt' = [attempt EXCEPT ![a] = @ + 1]
    /\ UNCHANGED <<mainVars, worker, assumedAt, region, mode, now>>

AssumeGivesUp(a) ==
    /\ worker[a] = "assume"
    /\ attempt[a] = MaxAttempts
    /\ FailTask(a)

DiscoverRegions(a) ==
    /\ worker[a] = "discover"
    /\ \E rs \in DiscoveredRegions : region' = [region EXCEPT ![a] = Selected(rs)]
    /\ worker' = [worker EXCEPT ![a] = "scan"]
    /\ UNCHANGED <<mainVars, attempt, assumedAt, mode, now>>

CredsExpired(a) == now >= assumedAt[a] + CredLife

\* One region through _scan_aws_region_with_session. Only NoCredentialsError,
\* or an error outside the rules, makes a region fail; an expired token makes
\* every rule raise ClientError, which is recorded as a skipped rule.
ScanRegion(a, r) ==
    /\ worker[a] = "scan"
    /\ region[a][r] = "todo"
    /\ \E o \in (IF CredsExpired(a) THEN {"expired", "failed"} ELSE {"scanned", "failed"}) :
          region' = [region EXCEPT ![a][r] = o]
    /\ UNCHANGED <<mainVars, worker, attempt, assumedAt, mode, now>>

FinishTask(a) ==
    /\ worker[a] = "scan"
    /\ InState(a, "todo") = {}
    /\ worker' = [worker EXCEPT ![a] = "done"]
    /\ assumedAt' = [assumedAt EXCEPT ![a] = 0]
    /\ UNCHANGED <<mainVars, attempt, region, mode, now>>

Hang(a) ==
    /\ MayHang
    /\ worker[a] \in Running
    /\ worker' = [worker EXCEPT ![a] = "hung"]
    /\ UNCHANGED <<mainVars, attempt, assumedAt, region, mode, now>>

\* Wall-clock time passes while the pool runs.
Tick ==
    /\ phase \in {"wait", "collect", "mark", "join"}
    /\ now < MaxTime
    /\ now' = now + 1
    /\ UNCHANGED <<mainVars, taskVars, mode>>

-----------------------------------------------------------------------------
Main ==
    \/ PreflightOk
    \/ PreflightFails
    \/ DiscoverOnHub
    \/ Submit
    \/ WaitReturns
    \/ \E a \in Accounts : Collect(a)
    \/ CheckDeadline
    \/ \E a \in Accounts : MarkTimedOut(a)
    \/ CancelQueued
    \/ JoinThreads

\* A step a task takes by itself; Hang is apart, since nothing forces it.
Task(a) ==
    \/ StartTask(a)
    \/ AssumeSucceeds(a)
    \/ AssumeDenied(a)
    \/ AssumeRetries(a)
    \/ AssumeGivesUp(a)
    \/ DiscoverRegions(a)
    \/ \E r \in Regions : ScanRegion(a, r)
    \/ FinishTask(a)

Next ==
    \/ Main
    \/ \E a \in Accounts : Task(a)
    \/ \E a \in Accounts : Hang(a)
    \/ Tick

Spec == Init /\ [][Next]_vars

\* The operating system runs the main thread and every pool thread, and time
\* passes. Nothing is assumed of Hang or of which outcome an API call has.
Fairness == /\ WF_vars(Main)
            /\ \A a \in Accounts : WF_vars(Task(a))
            /\ WF_vars(Tick)

FairSpec == Spec /\ Fairness

-----------------------------------------------------------------------------
TypeOK ==
    /\ phase \in MainPhases
    /\ mode \in Modes
    /\ override \in SUBSET Regions
    /\ worker \in [Accounts -> WorkerPhases]
    /\ attempt \in [Accounts -> 0 .. MaxAttempts]
    /\ assumedAt \in [Accounts -> Nat]
    /\ region \in [Accounts -> [Regions -> RegionStates]]
    /\ pending \in SUBSET Accounts
    /\ batch \in SUBSET Accounts
    /\ results \in Seq(Results)
    /\ now \in Nat

\* Every account is reported exactly once: no account has two results, and none
\* is missing once the loop is left, whatever finishes while batches are
\* collected or the rest is being marked (scan_multiple_accounts, 187-229).
OneResultPerAccount ==
    /\ \A i, j \in DOMAIN results : results[i].account = results[j].account => i = j
    /\ phase \in {"join", "returned"} => \A a \in Accounts : Reported(a)

\* A result tells what its task did: a collected result is the one its task
\* ended with and still ends with, and "timeout" is only ever said after the
\* deadline. A late finisher cannot alter what was reported of it.
ResultsAreTruthful ==
    \A i \in DOMAIN results :
        LET res == results[i]
        IN  IF res.status = "timeout"
              THEN now >= ScanTimeout
              ELSE worker[res.account] \in Finished /\ res = ResultOf(res.account)

\* success, partial and failed partition what can happen to the regions: a
\* successful account lost none, a partial one lost some and kept some, a failed
\* or timed-out one contributes no finding to the merged report (84-89, 216-224).
StatusMatchesRegions ==
    \A i \in DOMAIN results :
        LET res == results[i]
            kept == {r \in Regions : region[res.account][r] \in {"scanned", "expired"}}
        IN  /\ res.status = "success" => res.regionsFailed = {} /\ kept # {}
            /\ res.status = "partial" => res.regionsFailed # {} /\ kept # {}
            /\ res.status \in {"failed", "timeout"} => res.found = {}

\* A task that was cancelled in the queue belongs to an account reported as
\* timed out: cancelling never takes an account out of the report silently.
CancelledIsTimedOut ==
    \A a \in Accounts : worker[a] = "cancelled" =>
        \E i \in DOMAIN results : results[i] = TimedOut(a)

\* Every scan in which every API call returns ends: retries are bounded, the
\* pool drains, and the deadline loop is left (session.py:31-75, 187-229).
Termination ==
    [](\A a \in Accounts : worker[a] # "hung") => <>(phase \in {"returned", "aborted"})

\* Once the deadline has passed, every account gets its result even if some
\* thread hangs for ever.
DeadlineDecidesAll ==
    phase = "wait" ~> (\A a \in Accounts : Reported(a))

\* The detailed scan implements AccountReport: what is reported of an account
\* is final, decided once, "timeout" only when overdue, and the list is returned
\* only when it is complete.
StatusIn(list, a) ==
    IF \E i \in DOMAIN list : list[i].account = a
      THEN list[CHOOSE i \in DOMAIN list : list[i].account = a].status
      ELSE "none"

Report == INSTANCE AccountReport WITH
    report <- [a \in Accounts |-> StatusIn(results, a)],
    overdue <- now >= ScanTimeout,
    closed <- phase = "returned"

ImplementsReport == Report!Spec

-----------------------------------------------------------------------------
\* multi_account.py:182-183: "wait() with a deadline actually enforces the
\* timeout for hung threads". The scan would then return whatever hangs.
HungThreadsDoNotBlock == phase = "wait" ~> phase = "returned"

\* session.py:42: "15 min -- enough for any scan". No region of an account
\* reported as a success would then have been scanned with expired credentials.
SuccessHadCredentials ==
    \A i \in DOMAIN results : results[i].status = "success" =>
        InState(results[i].account, "expired") = {}
=============================================================================
