# CleanCloud in TLA+

CleanCloud scans AWS accounts, Azure subscriptions and GCP projects for cloud
waste.  It only reads.  What can go wrong is therefore not a corrupted resource
but a wrong *report*: an account, region or finding that is missing, counted
twice, attributed to the wrong cause, or an exit code that lets a CI gate pass
when it should not.  The modules here say what a correct report is, model the
code that produces it, check the model with TLC, and prove the main results with
TLAPS.

Source paths below are relative to `src/cleancloud/`.

## 1. Inventory

| Component | Code | State it keeps | Operations |
|---|---|---|---|
| AWS multi-account scan | `providers/aws/multi_account.py`, `session.py` | a future and a task per account, the pending set, the list of results, one deadline, credentials per task | submit, wait, collect, mark as timed out, cancel, join; assume a role with retries, discover regions, scan, classify |
| Rule execution in a scope | `providers/{aws,azure,gcp}/scan.py` | two nested thread pools, outcomes of rules, failed scopes | start, retry, end and collect a rule; finish, fail or leave a scope; collect scopes |
| Region discovery and cache | `providers/aws/scan.py:176-370`, `region_cache.py` | `~/.cleancloud/region_cache.json`, shared by every process of the user, unlocked | look up, list, probe, merge, truncate, write |
| Filtering pipeline | `filtering/rules.py`, `filtering/tags.py` | findings kept, findings suppressed with a reason, expired approvals | exceptions, policy filters, tags |
| Exit policy | `policy/exit_policy.py` | none | findings and thresholds to exit code |
| Rule selection | `filtering/rules.py:175-220` | none | category, `--skip`, enabled, params |
| Scan command | `scan/command.py` | what the flags and files resolve to, aggregated results | resolve, dispatch, aggregate, filter, report, exit |
| Configuration | `config/schema.py`, `config/accounts.py` | none | parse, validate, merge defaults |
| AWS rules | `providers/aws/rules/` (23 functions) | what was read in advance or after the listing | list a region's resources, read what uses them and their metrics, decide |
| Azure rules | `providers/azure/rules/` (17) | plans read once | list resources or parents and children, read metrics and sub-resources, decide |
| GCP rules | `providers/gcp/rules/` (10) | pages kept, locations to do, collections without a wildcard | list collections page by page and location by location, query Cloud Monitoring, decide |
| Summary and writers | `output/` | none | aggregate and format |
| Doctor, demo | `doctor/`, `demo/` | none | probe permissions and print; print canned findings |
| Safety allowlists | `safety/` | none | read by tests |

### How they interact

`scan/command.py` resolves provider and regions, then takes one of four paths: a
single AWS account (`scan_aws_regions`), several AWS accounts
(`scan_multiple_accounts`, each task calling `scan_aws_regions_with_session`),
Azure (`scan_azure_subscriptions`) or GCP (`scan_gcp_projects`).  Each path runs a
pool of scopes, and each scope a pool of rules.  Threads share nothing but the
futures they return, with one exception: the region cache file, which they and
other processes read and rewrite.  The findings that come back go through the
filtering pipeline, then to the writers and to `determine_exit_code`.

### What is hard, and what makes a component correct

- *Multi-account scan.*  Tasks finish while the main thread collects a batch, after
  the deadline passed, or never.  Correct: every account gets exactly one final
  status; the status is true of its task and regions; the scan ends if calls end.
- *Rule execution.*  `as_completed` gives any order; the `except` clauses of the
  three providers differ, and some raise out of two nested `with` blocks.  Correct:
  a verdict on a scope depends on how its own rules ended, never on order; a missing
  permission costs its rule only; leaving a block leaves no thread.
- *Region cache.*  Read-modify-write without a lock, truncation before writing,
  crashes.  Correct: whatever can still be read is a complete detection of its own
  account and mode, and nothing stale is served.
- *Pipeline and exit code.*  Three stages each drop findings for their own reason,
  on values which a previous stage may have changed.  Correct: every finding is
  accounted for once; approvals are absolute until their last day; the gate sees
  exactly the report.
- *Rule selection, scan command.*  Many-to-one maps from rule ids to functions, and
  precedence between flags and files.  Correct: what the user disabled does not run,
  what was not scanned is not reported as clean.
- *Rules.*  Several listings, each read at its own time from a cloud that goes on; a
  page, a location or a parent that fails after others were kept; metrics that are
  late, partial or missing; two views of one resource that differ.  Correct: missing
  data never makes a resource a finding, what is in use all along is not reported as
  unused, and a rule that has not looked at everything says so.  The code keeps this in
  part only: the properties say where, and the list at the end of section 4 where not.

The full list of hazards, each at its line, is in `PROJECT.json`.

## 2. Plan

| Order | Module | Status |
|---|---|---|
| 1 | `AccountReport` (abstract), `MultiAccountScan`, `MultiAccountScan_proofs` | done, checked and proved |
| 2 | `ScopeScan` (second implementation of `AccountReport`), `ScopeScan_proofs` | done, checked and proved |
| 3 | `RegionCache`, `RegionCache_proofs` | done, checked and proved |
| 4 | `FilterPipeline`, `FilterPipeline_proofs` | done, checked and proved |
| 5 | `ScanCommand`, `ScanCommand_proofs`: flags and files to rules, targets and exit code | done, checked and proved |
| 6a | `VertexScan`, `VertexScan_proofs`: the GCP rules that list locations and ask Cloud Monitoring | done, checked and proved |
| 6b | `AzureScan` over `AzureViews`, `AzureMetrics`, `AzureNetwork`, `AzureServices`, `AppGateway`, and `AzureScan_proofs`: 15 of the 17 Azure rules | done, checked and proved |
| 6c | `AwsRules`, `AwsScan`, `AwsScan_proofs`: the AWS rules that go by more than one listing | done, checked and proved |
| 7 | Validation of the configuration keys, of policy files and of account lists | to do |
| 8 | Summary and doctor: the accounting of rules and the verdict on permissions | to do |
| 9 | The remaining rules, which go by one listing each | to do |

Abstract specification: `AccountReport` (a report that is decided once per scope and
handed over complete), implemented by both scans.  The decisions of the rules are
operators over abstract resources, one or two for each rule, in modules of their own
(`AwsRules`, and the five that `AzureScan` extends); one module for each provider runs
any rule on any resource, so that one run checks them all.

## 3. The modules and the code

### `MultiAccountScan`

One process for the main thread, one per account's task.

| Variable | Code |
|---|---|
| `phase` | where `scan_multiple_accounts` is: pre-flight, hub discovery, `submit`, `wait`, collecting `done`, marking the rest, leaving the `with` |
| `worker`, `attempt`, `assumedAt`, `region` | a task: `assume_role` and its attempt, the session it got, what became of each region |
| `pending`, `batch`, `results` | `pending`, `done`, `results` of lines 178-229 |
| `now` | `time.monotonic()` since the deadline was set |

An account is its *position* in `config.accounts`, since the code keys everything
by future.  `WaitReturns` is `wait(..., FIRST_COMPLETED)`: it returns when something
is finished or the time is up.  `JoinThreads` is what leaving the `with` block does.
`StartTask`, `Hang` and `Tick` are external: the pool of the standard library (oldest
task first, at most `Workers` running), an API call that never returns, the clock.
The 15 minutes of an assumed session are `CredLife` units, the timeout `ScanTimeout`.
Results keep the regions whose rules did answer (`found`) in place of findings.

### `AccountReport`

What the caller may rely on: a status per account, decided once, "timeout" only
when overdue, the report closed when complete.  `MultiAccountScan` and `ScopeScan`
both implement it (`ImplementsReport`).

### `ScopeScan`

The four scans that run rules in scopes share one shape, so they are one module with
a `provider` variable; what differs is in `Handles`, `NothingWorked`, `ResultOf`,
`RetryRule` and `CollectScope`.  A rule ends `ok`, `denied`, `os`, `creds` or
`error`; `Handles` is the provider's `except` chain in its order.  "lost" is the
outcome of a failed region in the single-account AWS scan, which is echoed and then
forgotten.  `LeaveScope` and `Abort` wait for the pool, as the `with` blocks do, and
`StartRule` goes on meanwhile, as the pool does.

### `RegionCache`

Each caller runs `_get_active_aws_regions` step by step.  `_save` is two steps,
`Truncate` and `Write`, since `write_text` opens with truncation; a write over what
another writer put there may leave a file that does not parse.  `Crash` kills a
caller anywhere; `ScanAgain` is its next run.  The file is a text state (absent,
empty, torn, map) and a map.  The API probes of a region are reduced to one service
for each way the code treats an error: strict, lenient, and lenient in AI mode.

### `FilterPipeline`

One action per stage, in the order of `scan/command.py:615-663` and `906-918`.
Findings carry an identity, as Python lists may hold equal findings.  A glob is the
set of resources it matches; days and cents are numbers; confidence is its rank.

### `ScanCommand`

One run of `scan()`.  `phase` is the last step that has completed, and each action is
one step of the function, in its order, with its early exit: the output file, the
configuration file, the provider, the regions, the flags of other providers, the
category, `apply_rule_config`, and the `try` block.  `provider`, `region`,
`allRegions` and `category` are the local variables the steps rewrite.  `Catalog` is
the rule maps of the three `scan.py` in their order; `RuleId` is the last id of a
function, which is what inverting a rule map leaves.  A file is described by what
the steps ask of it.

The module joins the others at their ends and does not repeat them: `DiscoverTargets`
gives the targets (for AWS, what a `RegionCache` call returns with the `probedAi` it
was asked with), `ScanTargets` a status for each (what `MultiAccountScan` and
`ScopeScan` report), and `Report` the exit code of `FilterPipeline`, of which only
"some threshold may be breached" is left.

### `VertexScan`

The five rules under `providers/gcp/rules/ai`.  A rule goes through its `Stages`: it
starts a lister for each collection of a stage (`Start`), which enumerates all
locations at once or, where the API refuses that, one after the other.  `Page`,
`Denied`, `NotFound`, `BadRequest` and `ServerError` are what a request may be
answered, with the rule's own reading of the status: `lister[c]` says where the
lister is, `left` what the enumeration has not returned yet, `results` what it has,
`todo` the locations it has not come to.  A 404 or 400 may answer any page, and what it
does with the pages before is the code's: the jobs' listing keeps them (`KeepsPages`), the
others `Discard` them.  Two history variables remember what the code forgets: `shown`,
what some page has shown, and `refused`, what was in an enumeration answered 404 or 400.  `CollectListers` takes what the listers
return or raise once all of the stage have ended.  The `Inspect` actions decide on a
resource, or on a location's endpoints, for which one query is made; `EndStage` goes
on or returns.  `warned` is whether the rule has printed or reported that something
is missing.  TPU nodes and Workbench instances never become findings, as their
telemetry is never resolved in the code; they are modelled to the point where that is
decided.

### `AzureScan`

One rule on one subscription.  Listings over parents (`Nested`) lose the rest of a
parent that fails (`ParentFails`), `Eager` rules list before they look, and the others
raise out of the middle (`ListingFails`).  Each rule has one `Inspect` action for a
resource with everything it asks about it; a call that may fail is a Boolean chosen
by `\E`.  The gates and findings are in

- `AzureViews`: the two views the SDK has of a field (attribute and property), and the
  ways the rules reconcile them; the idle days, and the window as ticks of a day;
- `AzureMetrics`: how each rule makes ACTIVE, ZERO or UNKNOWN of the points Azure
  Monitor answers, with late, unscoped, missing and unusable points, and the registry's
  three attempts;
- `AzureNetwork`: load balancers, addresses, plans, disks, machines, VPN gateways;
- `AzureServices`: search, machine learning, OpenAI, SQL, web applications, registries;
- `AppGateway`: which pools the active routes of a gateway lead to, through path
  maps, redirects and policies, and the findings for empty ones.

### `AwsRules` and `AwsScan`

`AwsRules` says what a resource's attributes and metrics mean to a rule, `AwsScan` runs
a rule on a region that goes on meanwhile.  `users[r]` is what uses a resource (network
interfaces, instances, launch templates and configurations, a route table or a target);
`Attach` and `Detach`, which are external, change it at any time, at most `MaxChanges`
times.  `since[r]` is a history variable: what has used the resource ever since the
rule began.  `index` is what the rule itself has read: launch templates and
configurations before it lists images, interfaces page by page after it has listed
groups.  `atListing` is what the listing shows.  `elb` is two scans one after the
other (`family`); `Fail` throws away what the failing one has found, and `Settle`
raises the first failure after both.  Guards on the two image indexes
(`TemplateGuard`, `ConfigurationGuard`) cut them short.

## 4. Runs

| Run | Question | Bounds, and why they are enough |
|---|---|---|
| `pool` | one final status per account, whatever finishes or hangs when | 3 accounts, 2 threads: one queued task, so late starts, cancellation and batches of two occur; one region and one attempt, since these properties do not look inside a task |
| `regions` | truth of results, termination, decision at the deadline | 2 accounts, 2 regions (some/all failing), 2 attempts, credentials that expire before the deadline's end |
| `scopes` | verdicts, permissions, order, threads, for all four scans | 2 scopes, 2 rules, one thread per scope: a rule waits while another raises; 2 attempts |
| `region_cache` | the cache file under concurrency, crashes and failing writes | 2 callers with different modes of one account (same file, different keys), 2 regions, TTL 1 of 2 ticks, unlimited repetition |
| `filters` | accounting, approvals, overrides, and the exit code against the policy from end to end | every subset of 4 findings over 2 rules, exceptions on both sides of their last day, per-rule and default settings, costs at, below and above each limit and unknown |
| `command` | refusals, precedence, rules in the report | every command line with at most 3, and every file with at most 2, settings that are not the plain ones, so that each conflict of two flags and a file occurs; 2 targets; 7 rule ids of 6 functions, one of them with two ids, AI rules in two providers |
| `vertex` | what a GCP rule calls idle was; what it has not looked at when it returns without a warning | 2 resources in a first, second or unknown location of a list of 2, so pages, wildcards and locations interleave; one attribute off a plain finding (`MaxOdd`), times before, at and after the window and in the future; two buckets or points, inside and outside the window, one of them perhaps not a number |
| `azure` | idle and unused resources, views that the code compares, and routes | 2 resources of one or two parents, the first up to two fields off a plain finding, so that two gates or views meet; days of 2 ticks and a `Now` inside one, so that windows begin and end within a day; idle days 0, 3 and 4 with a maximum of 3; metrics late by up to 2 ticks |
| `aws` | what changes during a rule, failures of both families, metrics | 2 resources, the first at most one field off a plain finding; 2 of each kind of user, 2 changes (one thing leaves and another comes); guards of 1 and 2, so that both are met; up to two metrics that are not quiet; OpenSearch over 20 hours, one of which may be missing |

Violation runs record disagreements between the code and what the repository says
of it; each is a finding in `PROJECT.json`:

| Run | Statement | What the run shows |
|---|---|---|
| `hung_thread` | the timeout is enforced for hung threads (comment) | every account is decided at the deadline, but leaving the `with` block joins the hung thread |
| `creds` | 15 minutes are enough for any scan (comment) | an account is a success although its rules ran with an expired token |
| `zero_exit` | exit code 0 is a completed scan (docs) | every target failed, and the exit code is 0 |

Differences met while modelling that no run records.  The models behave as the code
does; where a property would fail because of one, it leaves the case out and is named here:

- An account may be reported as timed out that never got a thread
  (`providers/aws/multi_account.py:211`; `README.md:324` has it that one account never
  affects the others).
- A function that has several rule ids is looked up under the last of them.  Disabled or
  skipped under another one it runs (`filtering/rules.py:192`; `docs/configuration.md:152`:
  "to skip this rule entirely").  `EveryRuleIsAccountedFor` speaks of the id in the report.
- `--category hygiene` is taken for a flag that was not given, and the file's category is
  scanned (`scan/command.py:411`; `docs/configuration.md:233`: the flag takes precedence
  "when explicitly set").  `FlagsBeatTheFile` leaves it out.
- A 404 or a 400 on a later page drops what the pages before have shown, without a warning
  (`providers/gcp/rules/ai/featurestore_idle.py:321`, `vertex_endpoint_idle.py:756`,
  `tpu_idle.py:184`; `docs/specs/gcp/ai/featurestore_idle.md:494`: incompleteness stays
  visible).  `SilentMeansComplete` allows it (`refused`), but for jobs, whose listing keeps
  its pages.
- A datapoint of an endpoint that is NaN or has no value counts as one without requests
  (`providers/gcp/rules/ai/vertex_endpoint_idle.py:377`;
  `docs/specs/gcp/ai/vertex_endpoint_idle.md:389`: "ignore null, NaN").  `IdleIsProven`
  claims coverage where all points are numbers.
- One point is enough for the metric of a database to count as zero in the whole window
  (`providers/azure/rules/sql_database_idle.py:268`;
  `docs/specs/azure/sql_database_idle.md:306`: a partial series is unknown).
  `IdleIsProven` claims no coverage of databases.
- Of two point-to-site configurations of a gateway that differ the SDK's is taken, and of two
  node counts of a cluster the first that is there
  (`providers/azure/rules/vnet_gateway_idle.py:306`, `ai/aml_compute_idle.py:127`;
  `docs/specs/azure/vnet_gateway_idle.md:259`, `docs/specs/azure/ai/aml_compute_idle.md:292`:
  conflicts are a reason to skip).  `ComparedViewsAgree` speaks of the fields whose views
  the code compares.
- A launch template that cannot be read is passed over, and the finding does not say so
  (`providers/aws/rules/ami_old.py:575`; `docs/specs/aws/ami_old.md:235`: "always add
  `signals_not_checked`").  `UsedThroughoutIsNotReported` leaves templates out.
- One `OSError` of a rule fails a project in which other rules answered
  (`providers/gcp/scan.py:319`; `tests/.../test_gcp_scan_graceful_degradation.py:5` has it
  that rule failures do not).
- Four Azure rules read the time of a datapoint from an attribute `timestamp`, in one
  or another way, while the SDK's objects have `time_stamp`: `ai_search_idle.py:366`,
  `aml_compute_idle.py:360`, `vnet_gateway_idle.py:470`,
  `container_registry_unused.py:178`.  A point whose time they do not find is one
  without a time in the model, so both cases are checked.
- `opensearch_idle` asks for hourly points, of which CloudWatch returns at most 1440 in
  one answer; with more than 60 idle days the query is refused and the rule fails.

`CancelledIsTimedOut`, `PermissionsNeverFailAScope`, `HitsAreFresh`, `UnknownCostIsKept`
and `ReportNamesEveryTarget` are proved and in no run.

Bounds are constants of the modules: `MaxTime` caps the clock, `MaxAttempts` and
`MaxRetries` are the code's own limits (5 and 3) made small.  `CHECK_DEADLOCK FALSE`
is stated because every scan ends; that it ends, and not somewhere else, is what the
liveness properties check.  `ScanCommand` has no loop and no waiting: each step is
enabled after the one before it, so it needs no fairness and no liveness property.  Nor do
`VertexScan`, `AzureScan` and `AwsScan`: a rule is one thread (for jobs, one more for
each lister) that takes every resource once and waits for nothing but bounded calls.

### Fairness

Weak fairness of the main thread and of each task: the operating system schedules
runnable threads.  Weak fairness of `Tick`: time passes.  None for `Hang`, `Crash`,
`ScanAgain` or for any particular outcome of a call.  `Termination` of the
multi-account scan assumes that no call hangs, and `DeadlineDecidesAll` holds even
if some do.  In `ScopeScan` a rule ends, since every SDK call has a timeout
(`BOTO_CONFIG` and the SDKs' defaults) and retries are bounded.

## 5. Proofs

`MultiAccountScan_proofs` proves for every number of accounts and threads, any set of
regions, timeouts and attempts, and with or without hanging calls:

- `TypeCorrect`: the type invariant, from one step lemma per action.
- `OneResult`, `Truthful`, `CancelledAreReported`: from `IInv`.
- `StatusIsSound`: from `IInv` and `RInv`.
- `Implementation`: the scan implements `AccountReport`.

*Why `IInv`.*  `OneResultPerAccount` alone is not inductive: nothing in it keeps
`Collect` from reporting an account that has a result.  `IInv` adds that each account
is in exactly one place (pending, in the batch, or reported; `UndecidedIsUnreported`,
`EveryAccountSomewhere`), what the sets are at each phase (`PhaseSets`), that the
batch holds finished tasks only (`BatchIsFinished`), that marking happens only when
overdue, and that cancellation happens only after the loop.  `TruthfulSoFar` restates
`ResultsAreTruthful` so that a finished task's step cannot disturb it.

*Why `RInv`.*  That a successful account scanned something follows from discovery
falling back on one region, which has to be carried along the hub's list
(`HubFoundRegions`) and the task's regions (`ScansSomething`).

*Assumptions.*  Those of the module only: at least one account, thread and attempt,
the home region is a region, times are naturals.

*Refinement.*  A `Collect` or `MarkTimedOut` is a `Decide`, `JoinThreads` is
`HandOver`, and everything else a stutter or the moment the scan becomes overdue.

`ScopeScan_proofs` proves for any sets of scopes and rules, any number of threads and
retries, and every provider: `TypeCorrect`, `NoRuleOutlives`, `VerdictIsOrderFree`,
`PermissionsAreContained` and `Implementation`.  Its `IInv` speaks of one scope at a
time, so that a step of one leaves the others alone: `ScopeOK` says which rules a
scope may have in flight at each phase and that what it has concluded is `ResultOf`
of how its rules ended, and `MainOK` that what the main thread has collected are
results of scopes that have ended.  `VerdictIgnoresOrder` is a consequence: `ResultOf`
has no access to the order.

`RegionCache_proofs` proves for any number of callers, regions, any TTL, and with
crashes and failing writes anywhere: `TypeCorrect`, `CacheIsGenuine`, `HitsGenuine`
and `HitsFresh`.  That the file's entries are genuine is not inductive, as a writer
writes what it loaded long ago.  `IInv` adds that what each caller has loaded is
genuine and that the regions it found active hold resources, as far as it has probed
(`CallerOK`, `ProbingOK`); the file
may then be truncated and overwritten in any order.

`FilterPipeline_proofs` proves for any findings, exceptions and settings:
`PipelineTypes`, `FindingsAccounted`, `ApprovalsAreAbsolute`, `CostMustBeKnown`, `GateIsSound` and `OverridesAreCosmetic`.  `PInv` gives for each stage in
closed form what has been kept, suppressed and decided (`KeptSoFar`, `SuppressedSoFar`,
`ExitSoFar`); the properties are consequences of it.
`OverridesAreCosmetic` also has to know that two sets of findings with the same costs have
the same `TotalCost`, though the fold takes them in different orders.  The theorems of
induction cannot be cited for it, so each lemma (`TablesAgree`, `TableRecurses`,
`TotalIsNumber`, `TotalOfAny`, `OverridesKeepTotal`) takes a least finite set for which it
fails (`LeastSet`) and refutes it.  A scan finds finitely many findings, out of a pool of
any size.

`ScanCommand_proofs` proves for any rule catalog, command lines, files and targets:
`TypeCorrect`, `NoEarlyCall`, `FlagsWin`, `ProbesFit`, `TargetsNamed` and
`RulesAccounted`.  `Progress` says what has been checked by the time each step has
completed, which is what a call of an API may rely on; `Selection` says that `active`
and `skipped` are what the category, `--skip` and the file leave, and that AI probes
were made if one of `active` is an AI rule.  `RulesAccounted` speaks of ids: each function
of the category is named once, and what is said of the id it is named under is what the user
said of that id.  Of the other ids of a function nothing can be said (section 4).
`LastIdAssumption`, that of several ids
of a function one is the last in its map, holds since the maps are finite.

`VertexScan_proofs` proves for any resources, locations, pages and answers: `TypeCorrect`,
`SilenceIsComplete` and `IdleProven`.  All actions of a lister come down to one step that
changes one collection (`ListStep`), and all inspections to another (`InspectStep`), so that
the invariants are carried over once for each.  `Silent` adds to the property what it needs
on the way: a collection of a stage not begun is untouched, those of past stages are
listed and inspected, and (`Seen`) as long as nothing was warned of, a resource that is not
listed yet is in the page, in the results, in a location that is still to come, or refused;
of a job that a page has shown (`Kept`), only in the results or among the listed.  So a
silent rule may miss what was refused, which is what the code does (section 4), and the
theorem says that it misses nothing else.  For
`IdleProven` a finding is examined when it is made (`StoreProven`, `EndpointProven`): that no
long gap is left in an endpoint's datapoints, where all of them are numbers, is an argument on the latest point before a
gap and the earliest after it (`NoGap`).  It assumes of the attributes and the answers only
what types they have, `None` included (`AttributesAssumption`, `AnswersAssumption`).

`AwsScan_proofs` proves for any resources, users, number of changes, guards and failing
calls: `TypeCorrect`, `SilenceIsComplete`, `UsedIsSeen` and `IdleProven`, and of the helper
`ChoosePeriod` that the period of a query is the least multiple of its granularity of
which 1440 cover the days (`PeriodIsLeast`).  `UsedThroughoutIsNotReported` is about findings
and not inductive; `Covers` adds what the rule knows at each point: what has been used
since the rule began is in the pages read or in those still unread, in the listing, and
in the image index unless that is marked as failed.  `Silent` says that the first
exception and the set of broken families go together, and that the second family of load
balancers begins when the first has been looked at or has failed.  `IdleProven` has one
lemma for each rule that asks CloudWatch; those of the network load balancers and of
OpenSearch count distinct days and hours.  `TelemetryAssumption` states what they need to
know of CloudWatch: an answer is a sequence of points with a time and a count or none, with
at most one point per day for a load balancer, and none outside of the window for a domain.

`AzureScan_proofs` proves for any subscription, length of a day, time, windows and sets of
points: `TypeCorrect`, `IdleProven`, `NothingInUseIsReported`, `NoComparedConflict` and
`RoutesAreReported`.

*Why `AllDue`.*  The five properties are about findings, and a finding has forgotten why it
was made.  `AllDue` says that each finding satisfies the conditions its rule reports under
(`DueFor`, in terms of the subscription, which no step changes), and that a gateway that has
been looked at has all its findings and one that has not has none (`Complete`).  Fourteen of
the inspections come down to one step, `Looked`; the properties are consequences of
`AllDue`, for every rule its own.

*Idleness.*  That enough days are covered compares the number of buckets with points to the
number of days the window touches: `DaysUpToNow` rounds up the time since the midnight
before the window, and `DaysUpToNowFacts` shows that this is the number of its days, for any
number of ticks per day.  That of ticks is the size of an interval.  Of databases and
applications only the absence of activity in what was answered is proved, not coverage:
their rules ask for none (section 4).

*Views.*  `NothingInUseIsReported` looks at both views of an address's links, a disk's
owners and a gateway's connections.  Of a load balancer's rules and members and of a
point-to-site configuration it looks at the view the code takes, which is the SDK's unless
that is missing; what only the other one shows may be lost (section 4).
`NoComparedConflict` is about the fields of which a rule compares both views
(`ComparedFields`, and those of a gateway's connections, administrative state and
configuration); all others come from the first view that has them (section 4).

*Routes.*  The property speaks of reachability and the code of nested lookups.  Since rules
refer to path maps, policies and pools, path maps to policies and pools, and policies to
pools, three steps along references are all there are (`KindsOfRefs`, `ReachedFacts`), and
the notes and the routes of the code are compared with them level by level.

*Assumptions.*  `TimesAssumption`: there are days and the configured numbers are naturals.
`MarksAssumption`: the marks for what is missing or malformed differ from numbers and words.
`TelemetryAssumption`: what types the points of an answer have.  `ViewsAssumption`:
numbers of sites are not negative, a machine has finitely many states and a search service
no objects but those of its surfaces; an id of a gateway's part tells which kind of part it is
(`IdsTellKinds`), as the path of an Azure resource does.

Every invariant that a passing run checks is proved.  Only model-checked: the liveness properties
(`Termination` of both scans, `DeadlineDecidesAll`, `EveryCallEnds`), which are out of the
prover's reach.  In the three modules with rules, tlapm reads `UNION S \cup T` and
`SUBSET S \ T` with the other precedence than TLC, so such expressions have parentheses.

## 6. Not modelled

Rules.  Of 23 AWS rules, those that go by one listing or one metric: `ebs_unattached`,
`ebs_snapshot_old`, `rds_snapshot_old`, `cloudwatch_logs_no_retention`, `ec2_stopped`,
`elastic_ip_unattached`, `eni_detached`, `untagged_resources` and the AI rules but for
`sagemaker_endpoint_idle`; of 17 Azure rules `disk_snapshots_old` and
`untagged_resources`; of 10 GCP rules the five outside `rules/ai`.  What decides in them
is one age and one field.  In the rules that are modelled, costs, texts and evidence
of findings are left out but for what a property is about (risk, confidence, what was
not checked).

The keys of the configuration file, doctor (probes that print) and the summary's totals
are planned.  Session creation, writers, demo and allowlists are pure I/O, formatting or
data.  `discover_org_accounts` lists accounts
before the scan starts and is not part of it.  `FlagsBeatTheFile` leaves out
`--category hygiene`, which the code cannot tell from a flag that was not given (section 4).
