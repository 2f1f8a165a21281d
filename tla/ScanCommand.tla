----------------------------- MODULE ScanCommand -----------------------------
(***************************************************************************)
(* One `cleancloud scan`, from its flags and configuration file to its     *)
(* exit code (scan/command.py), with the selection of the rules it runs    *)
(* (apply_rule_config in filtering/rules.py).                              *)
(*                                                                         *)
(* Scanning the targets is one step here, since MultiAccountScan and       *)
(* ScopeScan say what it does; so are the filters and thresholds, which    *)
(* FilterPipeline details. A rule function stands for the callable in the  *)
(* rule lists, and Catalog for the rule maps, in their order. A region is  *)
(* "known" or "unknown" to the provider. None is Python's None.            *)
(***************************************************************************)
EXTENDS Naturals

CONSTANTS
    Providers,     \* aws, azure, gcp
    Catalog,       \* rule id -> [func, provider, ai, position in the rule map]
    ProviderOf,    \* rule id a user may write -> the provider in its prefix
    Invocations,   \* the command lines
    Files,         \* the configuration files, the empty one for no file
    Targets,       \* regions, accounts, subscriptions or projects
    None

RuleIds == DOMAIN Catalog

ASSUME ProvidersAssumption == Providers = {"aws", "azure", "gcp"}
ASSUME NoneAssumption ==
    None \notin Nat /\ None \notin Providers /\ None \notin {"auto", "known", "unknown", "many"}
ASSUME CatalogAssumption ==
    \A a, b \in RuleIds :
        /\ Catalog[a].provider = ProviderOf[a]
        /\ Catalog[a].position \in Nat
        /\ Catalog[a].position = Catalog[b].position => a = b
        /\ Catalog[a].func = Catalog[b].func =>
               Catalog[a].provider = Catalog[b].provider /\ Catalog[a].ai = Catalog[b].ai
\* The rule maps are finite: every function has a last id.
ASSUME LastIdAssumption ==
    \A a \in RuleIds : \E last \in RuleIds :
        /\ Catalog[last].func = Catalog[a].func
        /\ \A b \in RuleIds :
              Catalog[b].func = Catalog[a].func => Catalog[b].position <= Catalog[last].position
ASSUME InputAssumption ==
    /\ \A i \in Invocations : /\ i.provider \in Providers \cup {None}
                              /\ i.region \in {None, "known", "unknown"}
                              /\ i.allRegions \in BOOLEAN
                              /\ i.category \in {None, "hygiene", "ai", "all"}
    /\ \A f \in Files : /\ f.provider \in Providers \cup {None}
                        /\ f.regions \in {None, "auto", "known", "unknown", "many"}
                        /\ f.categories \in {None, "hygiene", "ai", "all"}
                        /\ DOMAIN f.rules \subseteq DOMAIN ProviderOf

VARIABLES
    cli, file,     \* the input
    phase,         \* the last step that has completed
    provider, region, allRegions, category,   \* the local variables of scan()
    active,        \* the rules to run: [func, bound]
    skipped,       \* policy_skipped
    called,        \* whether an API was called
    probedAi,      \* include_ai of the region discovery, None without one
    targets,       \* what is scanned
    outcome,       \* the status of each target
    raised,        \* the exception on its way to the except clauses
    report,        \* the summary
    exitCode

resolved == <<provider, region, allRegions, category>>
rules == <<active, skipped>>
scan == <<called, probedAi, targets, outcome>>
vars == <<cli, file, phase, resolved, rules, scan, raised, report, exitCode>>

Phases == {"start", "output", "config", "provider", "regions", "flags", "category", "rules",
           "validated", "authenticated", "targeted", "scanned", "raised", "exited"}
Exceptions == {"permission", "os", "creds", "other"}
Statuses == {"success", "partial", "failed", "timeout", "lost"}

Init ==
    /\ cli \in Invocations
    /\ file \in Files
    /\ phase = "start"
    /\ provider = None
    /\ region = None
    /\ allRegions = FALSE
    /\ category = None
    /\ active = {}
    /\ skipped = {}
    /\ called = FALSE
    /\ probedAi = None
    /\ targets = {}
    /\ outcome = <<>>
    /\ raised = None
    /\ report = None
    /\ exitCode = None

\* sys.exit(code), or click.UsageError, whose code is 2.
Exit(code) ==
    /\ phase' = "exited"
    /\ exitCode' = code
    /\ UNCHANGED <<cli, file, resolved, rules, scan, raised, report>>

Reach(p) ==
    /\ phase' = p
    /\ UNCHANGED <<cli, file, raised, report, exitCode>>

Raise(exception) ==
    /\ phase' = "raised"
    /\ raised' = exception
    /\ UNCHANGED <<cli, file, resolved, rules, report, exitCode>>

-----------------------------------------------------------------------------
(* From the flags and the file to what is to be scanned *)

CheckOutput ==
    /\ phase = "start"
    /\ \/ cli.fileMissing /\ Exit(2)
       \/ ~cli.fileMissing /\ Reach("output") /\ UNCHANGED <<resolved, rules, scan>>

LoadConfig ==
    /\ phase = "output"
    /\ \/ ~file.valid /\ Exit(1)
       \/ file.valid /\ Reach("config") /\ UNCHANGED <<resolved, rules, scan>>

ResolveProvider ==
    LET chosen == IF cli.provider # None THEN cli.provider ELSE file.provider
    IN  /\ phase = "config"
        /\ \/ chosen = None /\ Exit(2)
           \/ /\ chosen # None
              /\ Reach("provider")
              /\ provider' = chosen
              /\ region' = cli.region
              /\ allRegions' = cli.allRegions
              /\ category' = IF cli.category = None THEN "hygiene" ELSE cli.category
              /\ UNCHANGED <<rules, scan>>

\* _require_provider: the SDK of the provider may not be installed.
SdkMissing == phase = "provider" /\ Exit(1)

\* Mutant: the file is asked although --region was given.
FileBeatsRegion == provider = "aws" /\ ~allRegions /\ file.regions # None

\* The file is only asked when no flag says what to scan. Its regions are "auto",
\* "many", or what the only entry of a list is.
RegionsFromFile == provider = "aws" /\ region = None /\ ~allRegions /\ file.regions # None

\* Mutant: a list of several regions is taken for one.
ResolveRegionsAnyList ==
    /\ phase = "provider"
    /\ Reach("regions")
    /\ allRegions' = (allRegions \/ (RegionsFromFile /\ file.regions = "auto"))
    /\ region' = IF RegionsFromFile /\ file.regions # "auto" THEN file.regions ELSE region
    /\ UNCHANGED <<provider, category, rules, scan>>

ResolveRegions ==
    /\ phase = "provider"
    /\ \/ RegionsFromFile /\ file.regions = "many" /\ Exit(1)
       \/ /\ ~(RegionsFromFile /\ file.regions = "many")
          /\ Reach("regions")
          /\ allRegions' = (allRegions \/ (RegionsFromFile /\ file.regions = "auto"))
          /\ region' = IF RegionsFromFile /\ file.regions # "auto" THEN file.regions ELSE region
          /\ UNCHANGED <<provider, category, rules, scan>>

MultiAccount == provider = "aws" /\ cli.accounts # None

\* The providers for which some flag was used that only they have.
FlaggedProviders ==
    cli.flags \cup (IF allRegions \/ cli.accounts # None \/ cli.perAccount THEN {"aws"} ELSE {})

\* Mutant: the loop over _gcp_only_flags is missing.
CheckFlagsNotGcp ==
    /\ phase = "regions"
    /\ \/ /\ FlaggedProviders \ {"gcp"} \subseteq {provider}
          /\ Reach("flags")
          /\ UNCHANGED <<resolved, rules, scan>>
       \/ ~(FlaggedProviders \ {"gcp"} \subseteq {provider}) /\ Exit(2)

CheckFlags ==
    /\ phase = "regions"
    /\ \/ /\ FlaggedProviders \subseteq {provider}
          /\ Reach("flags")
          /\ UNCHANGED <<resolved, rules, scan>>
       \/ ~(FlaggedProviders \subseteq {provider}) /\ Exit(2)

\* `category == "hygiene"` stands for "not given", as it is the default of the flag.
ResolveCategory ==
    /\ phase = "flags"
    /\ Reach("category")
    /\ category' = IF category = "hygiene" /\ file.categories # None THEN file.categories
                   ELSE category
    /\ UNCHANGED <<provider, region, allRegions, rules, scan>>

-----------------------------------------------------------------------------
(* Which rules run *)

IdsOf(p) == {id \in RuleIds : Catalog[id].provider = p}
Functions(p) == {Catalog[id].func : id \in IdsOf(p)}
IsAi(func) == \E id \in RuleIds : Catalog[id].func = func /\ Catalog[id].ai

\* The rule list of the provider and category.
Listed == {func \in Functions(provider) : category = "all" \/ (IsAi(func) <=> category = "ai")}

\* func_to_id: of several ids of one function, the last one of the map is kept.
RuleId(func) ==
    LET ids == {id \in RuleIds : Catalog[id].func = func}
    IN  CHOOSE id \in ids : \A other \in ids : Catalog[other].position <= Catalog[id].position

\* _effective_rule_config: a rule the file does not mention is enabled, without params.
Enabled(func) == RuleId(func) \in DOMAIN file.rules => file.rules[RuleId(func)].enabled
Params(func) ==
    IF RuleId(func) \in DOMAIN file.rules THEN file.rules[RuleId(func)].params ELSE "none"

UnknownIds == {id \in DOMAIN file.rules : ProviderOf[id] = provider} \ IdsOf(provider)

Kept == {func \in Listed : RuleId(func) \notin cli.skip /\ Enabled(func)}

\* Mutant: the loop does not `continue` after it has recorded a rule named by --skip.
ApplyRuleConfigNoContinue ==
    /\ phase = "category"
    /\ UnknownIds = {} /\ \A func \in Kept : Params(func) # "invalid"
    /\ Reach("rules")
    /\ active' = {[func |-> func, bound |-> Params(func) = "valid"] :
                     func \in {g \in Listed : Enabled(g)}}
    /\ skipped' = {RuleId(func) : func \in Listed \ Kept}
    /\ UNCHANGED <<resolved, scan>>

ApplyRuleConfig ==
    /\ phase = "category"
    /\ UnknownIds = {} /\ \A func \in Kept : Params(func) # "invalid"
    /\ Reach("rules")
    /\ active' = {[func |-> func, bound |-> Params(func) = "valid"] : func \in Kept}
    /\ skipped' = {RuleId(func) : func \in Listed \ Kept}
    /\ UNCHANGED <<resolved, scan>>

\* ValueError from _validate_rule_ids or _validate_params.
RuleConfigInvalid ==
    /\ phase = "category"
    /\ UnknownIds # {} \/ \E func \in Kept : Params(func) = "invalid"
    /\ Exit(1)

-----------------------------------------------------------------------------
(* The scan itself: the try block *)

\* validate_region_params. A multi-account scan does not validate regions.
ParamsValid ==
    \/ MultiAccount
    \/ /\ region # "unknown"
       /\ provider = "aws" => (region # None) # allRegions

ValidateParams ==
    /\ phase = "rules"
    /\ \/ ParamsValid /\ Reach("validated") /\ UNCHANGED <<resolved, rules, scan>>
       \/ ~ParamsValid /\ Exit(1)

\* load_accounts_config and parse_inline_accounts raise for a list without accounts.
NoAccounts ==
    /\ phase = "rules"
    /\ MultiAccount /\ cli.accounts \in {"file", "inline"}
    /\ Raise("other")
    /\ UNCHANGED scan

\* The session, and for AWS the call that verifies its credentials.
Authenticate ==
    /\ phase = "validated"
    /\ called' = TRUE
    /\ UNCHANGED <<probedAi, targets, outcome>>
    /\ \/ Reach("authenticated") /\ UNCHANGED <<resolved, rules>>
       \/ provider = "aws" /\ \E e \in {"creds", "other"} : Raise(e)
       \/ provider # "aws" /\ \E e \in {"os", "other"} : Raise(e)

\* Once for all accounts, on the hub, or by the only account there is.
DiscoversOnce ==
    /\ provider = "aws"
    /\ IF MultiAccount THEN allRegions /\ ~cli.perAccount ELSE region = None
\* An account of several looks for its regions when it was given none.
DiscoversRegions == DiscoversOnce \/ (MultiAccount /\ region = None)

\* Mutant: functools.partial is not unwrapped.
RulesIncludeAiNoUnwrap == \E r \in active : IsAi(r.func) /\ ~r.bound

RulesIncludeAi == \E r \in active : IsAi(r.func)

\* The list of targets: regions with the fallback on us-east-1, accounts, accessible
\* subscriptions or projects.
DiscoverTargets ==
    /\ phase = "authenticated"
    /\ \E found \in (SUBSET Targets) \ {{}} :
          /\ provider = "aws" /\ ~MultiAccount /\ region # None => \E t \in Targets : found = {t}
          /\ targets' = found
    /\ probedAi' = IF DiscoversRegions THEN RulesIncludeAi ELSE None
    /\ Reach("targeted")
    /\ UNCHANGED <<resolved, rules, called, outcome>>

\* No subscription or project is accessible (PermissionError), or a call fails.
DiscoveryFails ==
    /\ phase = "authenticated"
    /\ \/ provider # "aws" /\ \E e \in {"permission", "other"} : Raise(e)
       \/ DiscoversOnce /\ \E e \in {"creds", "other"} : Raise(e)
    /\ UNCHANGED scan

\* With no rule left, ThreadPoolExecutor(max_workers=0) raises in every target.
StatusesPossible ==
    CASE MultiAccount -> IF active = {} THEN {"failed", "timeout"}
                         ELSE {"success", "partial", "failed", "timeout"}
      [] provider = "aws" /\ ~MultiAccount -> IF active = {} THEN {"lost"} ELSE {"success", "lost"}
      [] OTHER -> IF active = {} THEN {"failed"} ELSE {"success", "failed"}

ScanTargets ==
    /\ phase = "targeted"
    /\ outcome' \in [targets -> StatusesPossible]
    /\ Reach("scanned")
    /\ UNCHANGED <<resolved, rules, called, probedAi, targets>>

\* Only a single-account AWS scan lets an exception of a rule out.
ScanRaises ==
    /\ phase = "targeted"
    /\ provider = "aws" /\ ~MultiAccount /\ active # {}
    /\ Raise("creds")
    /\ UNCHANGED scan

-----------------------------------------------------------------------------
(* The report and the exit code *)

WithStatus(statuses) == {t \in targets : outcome[t] \in statuses}

\* For a single AWS account regions_scanned is what was to be scanned.
Names ==
    [scanned |-> WithStatus({"success", "partial", "lost"}),
     failed |-> WithStatus({"failed"}),
     timedOut |-> WithStatus({"timeout"})]

Evaluated == {RuleId(r.func) : r \in active}

\* A threshold, on the command line or in the file, may be breached by a finding.
MayBreach == (cli.enforce \/ file.enforce) /\ WithStatus({"success", "partial"}) # {}

Report ==
    /\ phase = "scanned"
    /\ report' = [targets |-> Names, evaluated |-> Evaluated, skipped |-> skipped]
    /\ exitCode' \in {0} \cup (IF MayBreach THEN {2} ELSE {})
    /\ phase' = "exited"
    /\ UNCHANGED <<cli, file, resolved, rules, scan, raised>>

\* The report cannot be written to its file or to standard output.
ReportFails ==
    /\ phase = "scanned"
    /\ Raise("os")
    /\ UNCHANGED scan

\* The except clauses at the end of scan(), in their order.
ExceptClauses ==
    /\ phase = "raised"
    /\ \/ raised \in {"permission", "os", "creds"} /\ Exit(3)
       \/ raised = "other" /\ Exit(1)

-----------------------------------------------------------------------------
Next ==
    \/ CheckOutput
    \/ LoadConfig
    \/ ResolveProvider
    \/ SdkMissing
    \/ ResolveRegions
    \/ CheckFlags
    \/ ResolveCategory
    \/ ApplyRuleConfig
    \/ RuleConfigInvalid
    \/ ValidateParams
    \/ NoAccounts
    \/ Authenticate
    \/ DiscoverTargets
    \/ DiscoveryFails
    \/ ScanTargets
    \/ ScanRaises
    \/ Report
    \/ ReportFails
    \/ ExceptClauses

Spec == Init /\ [][Next]_vars

-----------------------------------------------------------------------------
(* Properties *)

TypeOK ==
    /\ phase \in Phases
    /\ provider \in Providers \cup {None}
    /\ region \in {None, "known", "unknown"}
    /\ allRegions \in BOOLEAN
    /\ category \in {None, "hygiene", "ai", "all"}
    /\ active \subseteq [func : Functions(provider), bound : BOOLEAN]
    /\ skipped \subseteq RuleIds
    /\ called \in BOOLEAN
    /\ probedAi \in BOOLEAN \cup {None}
    /\ targets \subseteq Targets
    /\ phase = "scanned" => outcome \in [targets -> Statuses]
    /\ raised \in Exceptions \cup {None}
    /\ (phase = "exited") = (exitCode # None)
    /\ exitCode \in 0 .. 3 \cup {None}

\* command.py:373, "fail fast before any API calls": no call was made for a command
\* line or file that is refused, at whatever point of the command it is refused.
CallsOnlyAfterValidation ==
    called =>
        /\ ~cli.fileMissing /\ file.valid
        /\ cli.flags \subseteq {provider}
        /\ cli.accounts # None \/ cli.allRegions \/ cli.perAccount => provider = "aws"
        /\ \A id \in DOMAIN file.rules : ProviderOf[id] = provider => id \in RuleIds
        /\ provider = "aws" /\ cli.region = None /\ ~cli.allRegions => file.regions # "many"

\* schema.py:84, "CLI always wins": provider, regions and category that were given
\* as flags are the ones the scan uses, whatever the file says. Nothing is said here of
\* --category hygiene, which the code takes for a flag that was not given, so that the
\* category of the file is used, against configuration.md:233.
FlagsBeatTheFile ==
    called =>
        /\ cli.provider # None => provider = cli.provider
        /\ cli.region # None => region = cli.region /\ allRegions = cli.allRegions
        /\ cli.allRegions => allRegions /\ region = cli.region
        /\ cli.category \notin {None, "hygiene"} => category = cli.category

\* scan.py:144-147: regions that hold nothing but AI resources are looked for if and
\* only if the report names an AI rule as evaluated, with or without params of its own.
AiProbesMatchTheReport ==
    report # None /\ probedAi # None =>
        (probedAi <=> \E id \in report.evaluated : Catalog[id].ai)

\* Every target is named once in the report: as scanned, as failed or as timed out
\* (command.py:677-782).
ReportNamesEveryTarget ==
    report # None =>
        LET n == report.targets
        IN  /\ targets = n.scanned \cup n.failed \cup n.timedOut
            /\ n.scanned \cap (n.failed \cup n.timedOut) = {}
            /\ n.failed \cap n.timedOut = {}

\* What the user has said of an id: --skip, or `enabled: false`.
SwitchedOff(id) == id \in cli.skip \/ (id \in DOMAIN file.rules /\ ~file.rules[id].enabled)

\* The report names the rules of the category and nothing else, each under one of its
\* ids, and under that id it tells the truth: a rule it names as evaluated was not
\* switched off under that name, and one it names as skipped was (rules.py:192-220,
\* command.py:783-798). What is said of the other ids of a function is lost:
\* the function runs although it was switched off by one of them, against
\* configuration.md:152.
EveryRuleIsAccountedFor ==
    report # None =>
        LET named == report.evaluated \cup report.skipped
        IN  /\ \A func \in Listed : \E id \in RuleIds :
                  {n \in named : Catalog[n].func = func} = {id}
            /\ \A id \in named : Catalog[id].func \in Listed
            /\ \A id \in report.evaluated : ~SwitchedOff(id)
            /\ \A id \in report.skipped : SwitchedOff(id)

-----------------------------------------------------------------------------
(* A statement of the repository that the code does not keep *)

\* configuration.md:263 and 266: exit code 0 is "Scan completed", and a scan that
\* could not be completed for lack of permissions has a code of its own. A run that
\* ends with 0 has not failed in every account, subscription or project.
ZeroMeansScanned == exitCode = 0 => ~(targets \subseteq WithStatus({"failed", "timeout"}))
=============================================================================
