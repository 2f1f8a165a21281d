-------------------------- MODULE ScanCommand_proofs --------------------------
(***************************************************************************)
(* For every rule map, command line and file: no API is called for input   *)
(* that is refused, flags win over the file, and the report names every    *)
(* rule and every target exactly once.                                     *)
(***************************************************************************)
EXTENDS ScanCommand, TLAPS

(* Which steps have been passed, while the run goes on *)
PastOutput == Phases \ {"start", "raised", "exited"}
PastConfig == PastOutput \ {"output"}
PastProvider == PastConfig \ {"config"}
PastRegions == PastProvider \ {"provider"}
PastFlags == PastRegions \ {"regions"}
PastCategory == PastFlags \ {"flags"}
PastRules == PastCategory \ {"category"}

(* What each step has made sure of *)
ProviderChosen == provider \in Providers /\ (cli.provider # None => provider = cli.provider)
RegionsChosen ==
    /\ cli.region # None => region = cli.region /\ allRegions = cli.allRegions
    /\ cli.allRegions => allRegions /\ region = cli.region
    /\ provider = "aws" /\ cli.region = None /\ ~cli.allRegions => file.regions # "many"
FlagsAgree ==
    /\ cli.flags \subseteq {provider}
    /\ cli.accounts # None \/ cli.allRegions \/ cli.perAccount => provider = "aws"
CategoryChosen == cli.category \notin {None, "hygiene"} => category = cli.category
RulesKnown == \A id \in DOMAIN file.rules : ProviderOf[id] = provider => id \in RuleIds

Checked ==
    /\ ~cli.fileMissing
    /\ file.valid
    /\ ProviderChosen
    /\ RegionsChosen
    /\ FlagsAgree
    /\ CategoryChosen
    /\ RulesKnown

Progress ==
    /\ cli \in Invocations
    /\ file \in Files
    /\ phase \in {"start", "output", "config"} => active = {}
    /\ phase \in PastOutput => ~cli.fileMissing
    /\ phase \in PastConfig => file.valid
    /\ phase \in PastProvider => ProviderChosen
    /\ phase = "provider" => region = cli.region /\ allRegions = cli.allRegions
    /\ phase \in {"provider", "regions", "flags"} =>
          category = IF cli.category = None THEN "hygiene" ELSE cli.category
    /\ phase \in PastRegions => RegionsChosen
    /\ phase \in PastFlags => FlagsAgree
    /\ phase \in PastCategory => CategoryChosen
    /\ phase \in PastRules => RulesKnown
    /\ called => /\ phase \in {"authenticated", "targeted", "scanned", "raised", "exited"}
                 /\ Checked

IInv == TypeOK /\ Progress

-----------------------------------------------------------------------------
(* The ids of rules *)

\* The id the code finds for a rule of the provider is an id of that rule.
LEMMA RuleIdOf ==
    ASSUME NEW func \in Functions(provider)
    PROVE  /\ RuleId(func) \in RuleIds
           /\ Catalog[RuleId(func)].func = func
<1>1. PICK a \in RuleIds : Catalog[a].func = func
  BY DEF Functions, IdsOf
<1>2. PICK last \in RuleIds :
         /\ Catalog[last].func = func
         /\ \A b \in RuleIds : Catalog[b].func = func => Catalog[b].position <= Catalog[last].position
  BY <1>1, LastIdAssumption
<1> DEFINE ids == {id \in RuleIds : Catalog[id].func = func}
<1>3. \E id \in ids : \A other \in ids : Catalog[other].position <= Catalog[id].position
  BY <1>2
<1>4. RuleId(func) \in ids
  BY <1>3 DEF RuleId
<1> QED
  BY <1>4

\* It is an AI id exactly if the rule is an AI rule.
LEMMA RuleIdAi ==
    ASSUME NEW func \in Functions(provider)
    PROVE  Catalog[RuleId(func)].ai <=> IsAi(func)
BY RuleIdOf, CatalogAssumption DEF IsAi

-----------------------------------------------------------------------------
(* Steps that check the input *)

\* The first state is well typed, and nothing has been checked or called.
LEMMA InitIInv == Init => IInv
BY ProvidersAssumption, NoneAssumption
   DEF Init, IInv, TypeOK, Progress, Phases, Exceptions, PastOutput, PastConfig, PastProvider,
       PastRegions, PastFlags, PastCategory, PastRules

\* Leaving with an exit code keeps what was checked.
LEMMA ExitStep ==
    ASSUME IInv, NEW code \in 0 .. 3, Exit(code)
    PROVE  IInv'
<1>1. TypeOK'
  BY NoneAssumption DEF IInv, TypeOK, Exit, Phases, Exceptions, Statuses, resolved, rules, scan,
     Functions, IdsOf
<1>2. Progress'
  BY DEF IInv, Progress, Exit, resolved, rules, scan, Checked, ProviderChosen, RegionsChosen,
     FlagsAgree, CategoryChosen, RulesKnown, Phases, PastOutput, PastConfig, PastProvider,
     PastRegions, PastFlags, PastCategory, PastRules
<1> QED
  BY <1>1, <1>2 DEF IInv

\* So does raising an exception, before or after the scan has started.
LEMMA RaiseStep ==
    ASSUME IInv, NEW e \in Exceptions, Raise(e), phase \in PastRules,
           called' \in BOOLEAN, probedAi' = probedAi, targets' = targets, outcome' = outcome
    PROVE  IInv'
<1>1. TypeOK'
  BY NoneAssumption DEF IInv, TypeOK, Raise, Phases, Exceptions, Statuses, resolved, rules,
     Functions, IdsOf, PastOutput, PastConfig, PastProvider, PastRegions, PastFlags,
     PastCategory, PastRules
<1>2. Progress'
  BY DEF IInv, Progress, Raise, resolved, rules, Checked, ProviderChosen, RegionsChosen,
     FlagsAgree, CategoryChosen, RulesKnown, Phases, PastOutput, PastConfig, PastProvider,
     PastRegions, PastFlags, PastCategory, PastRules
<1> QED
  BY <1>1, <1>2 DEF IInv

\* --output-file is there when it is needed.
LEMMA OutputStep == IInv /\ CheckOutput => IInv'
<1> SUFFICES ASSUME IInv, CheckOutput PROVE IInv'
  OBVIOUS
<1>1. CASE ~cli.fileMissing /\ Reach("output") /\ UNCHANGED <<resolved, rules, scan>>
  BY <1>1 DEF Reach, resolved, rules, scan, CheckOutput, IInv, TypeOK, Progress, Phases,
     Exceptions, Functions, IdsOf, PastOutput, PastConfig, PastProvider, PastRegions, PastFlags,
     PastCategory, PastRules, Checked, ProviderChosen
<1> QED
  BY <1>1, ExitStep DEF CheckOutput

\* The file is valid.
LEMMA ConfigStep == IInv /\ LoadConfig => IInv'
<1> SUFFICES ASSUME IInv, LoadConfig PROVE IInv'
  OBVIOUS
<1>1. CASE file.valid /\ Reach("config") /\ UNCHANGED <<resolved, rules, scan>>
  BY <1>1 DEF Reach, resolved, rules, scan, LoadConfig, IInv, TypeOK, Progress, Phases,
     Exceptions, Functions, IdsOf, PastOutput, PastConfig, PastProvider, PastRegions, PastFlags,
     PastCategory, PastRules, Checked
<1> QED
  BY <1>1, ExitStep DEF LoadConfig

\* The provider is that of the flag, or else that of the file.
LEMMA ProviderStep == IInv /\ ResolveProvider => IInv'
<1> SUFFICES ASSUME IInv, ResolveProvider PROVE IInv'
  OBVIOUS
<1>1. CASE Reach("provider")
  <2>1. /\ phase = "config" /\ phase' = "provider"
        /\ provider' \in Providers
        /\ cli.provider # None => provider' = cli.provider
        /\ region' = cli.region /\ allRegions' = cli.allRegions
        /\ category' = IF cli.category = None THEN "hygiene" ELSE cli.category
        /\ UNCHANGED <<cli, file, active, skipped, called, probedAi, targets, outcome, raised,
                       report, exitCode>>
    BY <1>1, InputAssumption, NoneAssumption
       DEF ResolveProvider, Exit, Reach, IInv, Progress, rules, scan
  <2>2. TypeOK'
    BY <2>1, InputAssumption DEF IInv, TypeOK, Progress, Phases, Exceptions
  <2>3. Progress'
    BY <2>1 DEF IInv, Progress, ProviderChosen, Phases, PastOutput, PastConfig, PastProvider,
       PastRegions, PastFlags, PastCategory, PastRules
  <2> QED
    BY <2>2, <2>3 DEF IInv
<1> QED
  BY <1>1, ExitStep DEF ResolveProvider

\* Regions come from the file only if no flag names any.
LEMMA RegionsStep == IInv /\ ResolveRegions => IInv'
<1> SUFFICES ASSUME IInv, ResolveRegions PROVE IInv'
  OBVIOUS
<1>1. CASE Reach("regions")
  <2>1. /\ phase = "provider" /\ phase' = "regions"
        /\ ~(RegionsFromFile /\ file.regions = "many")
        /\ allRegions' = (allRegions \/ (RegionsFromFile /\ file.regions = "auto"))
        /\ region' = IF RegionsFromFile /\ file.regions # "auto" THEN file.regions ELSE region
        /\ UNCHANGED <<cli, file, provider, category, active, skipped, called, probedAi, targets,
                       outcome, raised, report, exitCode>>
    BY <1>1 DEF ResolveRegions, Exit, Reach, rules, scan
  <2>2. region' \in {None, "known", "unknown"} /\ allRegions' \in BOOLEAN
    BY <2>1, InputAssumption DEF IInv, TypeOK, Progress, RegionsFromFile
  <2>3. TypeOK'
    BY <2>1, <2>2 DEF IInv, TypeOK, Phases, Exceptions, Functions, IdsOf
  <2>4. RegionsChosen'
    <3>1. region = cli.region /\ allRegions = cli.allRegions
      BY <2>1 DEF IInv, Progress
    <3> QED
      BY <2>1, <3>1, InputAssumption, NoneAssumption
         DEF RegionsChosen, RegionsFromFile, IInv, Progress
  <2>5. Progress'
    BY <2>1, <2>4 DEF IInv, Progress, ProviderChosen, Phases, PastOutput, PastConfig,
       PastProvider, PastRegions, PastFlags, PastCategory, PastRules
  <2> QED
    BY <2>3, <2>5 DEF IInv
<1> QED
  BY <1>1, ExitStep DEF ResolveRegions

\* No flag of another provider is left.
LEMMA FlagsStep == IInv /\ CheckFlags => IInv'
<1> SUFFICES ASSUME IInv, CheckFlags PROVE IInv'
  OBVIOUS
<1>1. CASE /\ FlaggedProviders \subseteq {provider}
           /\ Reach("flags")
           /\ UNCHANGED <<resolved, rules, scan>>
  <2>1. /\ phase = "regions" /\ phase' = "flags"
        /\ UNCHANGED <<cli, file, provider, region, allRegions, category, active, skipped, called,
                       probedAi, targets, outcome, raised, report, exitCode>>
    BY <1>1 DEF CheckFlags, Reach, resolved, rules, scan
  <2>2. RegionsChosen
    BY <2>1 DEF IInv, Progress, PastRegions, PastProvider, PastConfig, PastOutput, Phases
  <2>3. FlagsAgree
    BY <1>1, <2>2 DEF FlaggedProviders, FlagsAgree, RegionsChosen
  <2>4. TypeOK'
    BY <2>1 DEF IInv, TypeOK, Phases, Exceptions, Functions, IdsOf
  <2>5. Progress'
    BY <2>1, <2>2, <2>3 DEF IInv, Progress, ProviderChosen, RegionsChosen, FlagsAgree, Phases,
       PastOutput, PastConfig, PastProvider, PastRegions, PastFlags, PastCategory, PastRules
  <2> QED
    BY <2>4, <2>5 DEF IInv
<1> QED
  BY <1>1, ExitStep DEF CheckFlags

\* The file decides the category only where the flag says hygiene.
LEMMA CategoryStep == IInv /\ ResolveCategory => IInv'
<1> SUFFICES ASSUME IInv, ResolveCategory PROVE IInv'
  OBVIOUS
<1>1. /\ phase = "flags" /\ phase' = "category"
      /\ category = IF cli.category = None THEN "hygiene" ELSE cli.category
      /\ category' = IF category = "hygiene" /\ file.categories # None THEN file.categories
                     ELSE category
      /\ UNCHANGED <<cli, file, provider, region, allRegions, active, skipped, called, probedAi,
                     targets, outcome, raised, report, exitCode>>
  BY DEF ResolveCategory, Reach, rules, scan, IInv, Progress
<1>2. TypeOK'
  BY <1>1, InputAssumption DEF IInv, TypeOK, Progress, Phases, Exceptions, Functions, IdsOf
<1>3. Progress'
  BY <1>1 DEF IInv, Progress, ProviderChosen, RegionsChosen, FlagsAgree, CategoryChosen, Phases,
     PastOutput, PastConfig, PastProvider, PastRegions, PastFlags, PastCategory, PastRules
<1> QED
  BY <1>2, <1>3 DEF IInv

\* The active rules are rules of the provider, and every id of the file is known.
LEMMA RuleConfigStep == IInv /\ ApplyRuleConfig => IInv'
<1> SUFFICES ASSUME IInv, ApplyRuleConfig PROVE IInv'
  OBVIOUS
<1>1. /\ phase = "category" /\ phase' = "rules"
      /\ UnknownIds = {}
      /\ active' = {[func |-> func, bound |-> Params(func) = "valid"] : func \in Kept}
      /\ skipped' = {RuleId(func) : func \in Listed \ Kept}
      /\ UNCHANGED <<cli, file, provider, region, allRegions, category, called, probedAi, targets,
                     outcome, raised, report, exitCode>>
  BY DEF ApplyRuleConfig, Reach, resolved, scan
<1>2. skipped' \subseteq RuleIds
  BY <1>1, RuleIdOf DEF Listed
<1>3. active' \subseteq [func : Functions(provider), bound : BOOLEAN]
  <2>1. Kept \subseteq Functions(provider)
    BY DEF Kept, Listed
  <2>2. ASSUME NEW func \in Kept
        PROVE  [func |-> func, bound |-> Params(func) = "valid"]
                   \in [func : Functions(provider), bound : BOOLEAN]
    <3>1. (Params(func) = "valid") \in BOOLEAN
      OBVIOUS
    <3> QED
      BY <2>1, <3>1
  <2> QED
    BY <1>1, <2>2
<1>4. TypeOK'
  BY <1>1, <1>2, <1>3 DEF IInv, TypeOK, Phases, Exceptions, Functions, IdsOf
<1>5. RulesKnown
  BY <1>1 DEF UnknownIds, RulesKnown, IdsOf
<1>6. Progress'
  BY <1>1, <1>5 DEF IInv, Progress, ProviderChosen, RegionsChosen, FlagsAgree, CategoryChosen,
     RulesKnown, Phases, PastOutput, PastConfig, PastProvider, PastRegions, PastFlags,
     PastCategory, PastRules
<1> QED
  BY <1>4, <1>6 DEF IInv

-----------------------------------------------------------------------------
(* Steps of the scan *)

\* Past the selection of the rules, a step on to the next phase of the scan.
LEMMA ScanStep ==
    ASSUME IInv, phase \in PastRules, NEW p \in PastRules, Reach(p),
           UNCHANGED <<resolved, rules>>,
           called' = called \/ (called' = TRUE /\ p = "authenticated"),
           called => p \in {"targeted", "scanned"},
           probedAi' \in BOOLEAN \cup {None},
           targets' \subseteq Targets,
           p = "scanned" => outcome' \in [targets' -> Statuses]
    PROVE  IInv'
<1>1. TypeOK'
  <2>1. p \in Phases /\ p # "exited" /\ phase # "exited"
    BY DEF Phases, PastOutput, PastConfig, PastProvider, PastRegions, PastFlags, PastCategory, PastRules
  <2>2. UNCHANGED <<provider, region, allRegions, category, active, skipped, raised, exitCode>>
    BY DEF Reach, resolved, rules
  <2>3. called' \in BOOLEAN /\ phase' = p
    BY DEF Reach, IInv, TypeOK
  <2>4. (phase' = "exited") = (exitCode' # None)
    BY <2>1, <2>2, <2>3 DEF IInv, TypeOK
  <2> QED
    BY <2>1, <2>2, <2>3, <2>4 DEF IInv, TypeOK, Functions, IdsOf
<1>2. Checked'
  BY DEF Reach, resolved, rules, IInv, Progress, Checked, ProviderChosen, RegionsChosen,
     FlagsAgree, CategoryChosen, RulesKnown, Phases, PastOutput, PastConfig, PastProvider,
     PastRegions, PastFlags, PastCategory, PastRules
<1>3. Progress'
  BY <1>2 DEF Reach, resolved, rules, IInv, Progress, Checked, Phases, PastOutput, PastConfig,
     PastProvider, PastRegions, PastFlags, PastCategory, PastRules
<1> QED
  BY <1>1, <1>3 DEF IInv

\* Every step keeps the invariant.
LEMMA NextIInv == IInv /\ [Next]_vars => IInv'
<1> SUFFICES ASSUME IInv, [Next]_vars PROVE IInv'
  OBVIOUS
<1> USE DEF Phases, Exceptions, PastOutput, PastConfig, PastProvider, PastRegions, PastFlags,
            PastCategory, PastRules
<1>1. CASE CheckOutput
  BY <1>1, OutputStep
<1>2. CASE LoadConfig
  BY <1>2, ConfigStep
<1>3. CASE ResolveProvider
  BY <1>3, ProviderStep
<1>4. CASE SdkMissing
  BY <1>4, ExitStep DEF SdkMissing
<1>5. CASE ResolveRegions
  BY <1>5, RegionsStep
<1>6. CASE CheckFlags
  BY <1>6, FlagsStep
<1>7. CASE ResolveCategory
  BY <1>7, CategoryStep
<1>8. CASE ApplyRuleConfig
  BY <1>8, RuleConfigStep
<1>9. CASE RuleConfigInvalid
  BY <1>9, ExitStep DEF RuleConfigInvalid
<1>10. CASE ValidateParams
  <2>1. CASE Reach("validated") /\ UNCHANGED <<resolved, rules, scan>>
    BY <1>10, <2>1, ScanStep DEF ValidateParams, scan, IInv, TypeOK, Progress
  <2> QED
    BY <1>10, <2>1, ExitStep DEF ValidateParams
<1>11. CASE NoAccounts
  BY <1>11, RaiseStep DEF NoAccounts, scan, IInv, TypeOK
<1>12. CASE Authenticate
  <2>1. CASE Reach("authenticated") /\ UNCHANGED <<resolved, rules>>
    BY <1>12, <2>1, ScanStep DEF Authenticate, IInv, TypeOK, Progress
  <2> QED
    BY <1>12, <2>1, RaiseStep DEF Authenticate
<1>13. CASE DiscoverTargets
  <2>1. /\ probedAi' \in BOOLEAN \cup {None}
        /\ targets' \subseteq Targets
    BY <1>13 DEF DiscoverTargets, RulesIncludeAi
  <2> QED
    BY <1>13, <2>1, ScanStep DEF DiscoverTargets, IInv, TypeOK
<1>14. CASE DiscoveryFails
  BY <1>14, RaiseStep DEF DiscoveryFails, scan, IInv, TypeOK
<1>15. CASE ScanTargets
  <2>1. outcome' \in [targets' -> Statuses]
    BY <1>15 DEF ScanTargets, StatusesPossible, Statuses
  <2> QED
    BY <1>15, <2>1, ScanStep DEF ScanTargets, IInv, TypeOK
<1>16. CASE ScanRaises
  BY <1>16, RaiseStep DEF ScanRaises, scan, IInv, TypeOK
<1>17. CASE Report
  <2>1. /\ phase' = "exited" /\ exitCode' \in {0, 2}
        /\ UNCHANGED <<cli, file, provider, region, allRegions, category, active, skipped, called,
                       probedAi, targets, outcome, raised>>
    BY <1>17 DEF Report, resolved, rules, scan
  <2>2. TypeOK'
    BY <2>1, NoneAssumption DEF IInv, TypeOK, Functions, IdsOf
  <2>3. Progress'
    BY <2>1 DEF IInv, Progress, Checked, ProviderChosen, RegionsChosen, FlagsAgree,
       CategoryChosen, RulesKnown
  <2> QED
    BY <2>2, <2>3 DEF IInv
<1>18. CASE ReportFails
  BY <1>18, RaiseStep DEF ReportFails, scan, IInv, TypeOK
<1>19. CASE ExceptClauses
  BY <1>19, ExitStep DEF ExceptClauses
<1>20. CASE UNCHANGED vars
  BY <1>20 DEF vars, resolved, rules, scan, IInv, TypeOK, Progress, Checked, ProviderChosen,
     RegionsChosen, FlagsAgree, CategoryChosen, RulesKnown, Functions, IdsOf
<1> QED
  BY <1>1, <1>2, <1>3, <1>4, <1>5, <1>6, <1>7, <1>8, <1>9, <1>10, <1>11, <1>12, <1>13, <1>14,
     <1>15, <1>16, <1>17, <1>18, <1>19, <1>20 DEF Next

\* The variables of scan() keep their types.
THEOREM TypeCorrect == Spec => []TypeOK
<1>1. IInv => TypeOK
  BY DEF IInv
<1> QED
  BY InitIInv, NextIInv, <1>1, PTL DEF Spec

\* No API is called for a command line or a file that is refused (command.py:373).
THEOREM NoEarlyCall == Spec => []CallsOnlyAfterValidation
<1>1. IInv => CallsOnlyAfterValidation
  BY DEF IInv, Progress, Checked, FlagsAgree, RulesKnown, RegionsChosen,
     CallsOnlyAfterValidation
<1> QED
  BY InitIInv, NextIInv, <1>1, PTL DEF Spec

\* What a flag says is what the scan uses (schema.py:84).
THEOREM FlagsWin == Spec => []FlagsBeatTheFile
<1>1. IInv => FlagsBeatTheFile
  BY DEF IInv, Progress, Checked, ProviderChosen, RegionsChosen, CategoryChosen,
     FlagsBeatTheFile
<1> QED
  BY InitIInv, NextIInv, <1>1, PTL DEF Spec

-----------------------------------------------------------------------------
(* The report *)

\* Which rules are active, and what the discovery was told about them.
Selected ==
    /\ {r.func : r \in active} = Kept
    /\ skipped = {RuleId(func) : func \in Listed \ Kept}

Selection ==
    /\ phase \in PastRules => Selected
    /\ probedAi # None => /\ phase \in {"targeted", "scanned", "raised", "exited"}
                          /\ probedAi = RulesIncludeAi
    /\ report # None => phase = "exited"
    /\ EveryRuleIsAccountedFor
    /\ AiProbesMatchTheReport
    /\ ReportNamesEveryTarget

SInv == IInv /\ Selection

\* Nothing has been selected, found or reported in the first state.
LEMMA InitSInv == Init => SInv
BY InitIInv, NoneAssumption
   DEF Init, SInv, Selection, EveryRuleIsAccountedFor, AiProbesMatchTheReport,
       ReportNamesEveryTarget, Phases, PastOutput, PastConfig, PastProvider, PastRegions,
       PastFlags, PastCategory, PastRules

\* Before the report, a step that leaves the selection alone.
LEMMA SelectionStep ==
    ASSUME Selection, report = None, report' = None, probedAi' = probedAi,
           \/ /\ UNCHANGED <<cli, file, resolved, rules>>
              /\ phase' \in PastRules => phase \in PastRules
              /\ phase \in {"targeted", "scanned", "raised", "exited"} =>
                    phase' \in {"targeted", "scanned", "raised", "exited"}
           \/ probedAi = None /\ phase' \notin PastRules
    PROVE  Selection'
<1>1. (report # None => phase = "exited")'
  OBVIOUS
<1>2. /\ EveryRuleIsAccountedFor'
      /\ AiProbesMatchTheReport'
      /\ ReportNamesEveryTarget'
  BY DEF EveryRuleIsAccountedFor, AiProbesMatchTheReport, ReportNamesEveryTarget
<1>3. CASE /\ UNCHANGED <<cli, file, resolved, rules>>
           /\ phase' \in PastRules => phase \in PastRules
           /\ phase \in {"targeted", "scanned", "raised", "exited"} =>
                 phase' \in {"targeted", "scanned", "raised", "exited"}
  <2>1. Selected => Selected'
    BY <1>3 DEF Selected, Kept, Listed, Enabled, resolved, rules, Functions, IdsOf
  <2>2. RulesIncludeAi' = RulesIncludeAi
    BY <1>3 DEF RulesIncludeAi, rules
  <2> QED
    BY <1>1, <1>2, <1>3, <2>1, <2>2 DEF Selection
<1>4. CASE probedAi = None /\ phase' \notin PastRules
  BY <1>1, <1>2, <1>4 DEF Selection
<1> QED
  BY <1>3, <1>4

\* The report is made of the active rules and the targets there are.
LEMMA ReportStep == SInv /\ Report => Selection'
<1> SUFFICES ASSUME SInv, Report PROVE Selection'
  OBVIOUS
<1>1. /\ phase = "scanned" /\ phase' = "exited"
      /\ report' = [targets |-> Names, evaluated |-> Evaluated, skipped |-> skipped]
      /\ UNCHANGED <<cli, file, provider, region, allRegions, category, active, skipped, called,
                     probedAi, targets, outcome, raised>>
  BY DEF Report, resolved, rules, scan
<1>2. /\ Selected
      /\ outcome \in [targets -> Statuses]
      /\ active \subseteq [func : Functions(provider), bound : BOOLEAN]
  BY <1>1 DEF SInv, IInv, TypeOK, Selection, Phases, PastOutput, PastConfig, PastProvider,
     PastRegions, PastFlags, PastCategory, PastRules
<1>3. Evaluated = {RuleId(func) : func \in Kept}
  BY <1>2 DEF Evaluated, Selected
<1>4. /\ Kept \subseteq Listed
      /\ \A func \in Listed : RuleId(func) \in RuleIds /\ Catalog[RuleId(func)].func = func
  BY RuleIdOf DEF Kept, Listed
<1>5. Listed' = Listed
  BY <1>1 DEF Listed, Functions, IdsOf
<1>6. EveryRuleIsAccountedFor'
  <2>1. Evaluated \cup skipped = {RuleId(func) : func \in Listed}
    BY <1>2, <1>3, <1>4 DEF Selected
  <2>2. ASSUME NEW func \in Listed
        PROVE  \E id \in RuleIds : {n \in Evaluated \cup skipped : Catalog[n].func = func} = {id}
    <3>1. {n \in Evaluated \cup skipped : Catalog[n].func = func} = {RuleId(func)}
      BY <2>1, <1>4
    <3> QED
      BY <3>1, <1>4
  <2>3. \A id \in Evaluated \cup skipped : Catalog[id].func \in Listed
    BY <2>1, <1>4
  <2>4. \A id \in Evaluated : ~SwitchedOff(id)
    BY <1>3 DEF Kept, Enabled, SwitchedOff
  <2>5. \A id \in skipped : SwitchedOff(id)
    BY <1>2 DEF Selected, Kept, Enabled, SwitchedOff
  <2>6. \A id : SwitchedOff(id)' <=> SwitchedOff(id)
    BY <1>1 DEF SwitchedOff
  <2> QED
    BY <1>1, <1>5, <2>2, <2>3, <2>4, <2>5, <2>6 DEF EveryRuleIsAccountedFor
<1>7. AiProbesMatchTheReport'
  <2>1. (\E id \in Evaluated : Catalog[id].ai) <=> (\E func \in Kept : IsAi(func))
    BY <1>3, <1>4, RuleIdAi DEF Listed
  <2>2. RulesIncludeAi <=> (\E func \in Kept : IsAi(func))
    BY <1>2 DEF Selected, RulesIncludeAi
  <2>3. probedAi # None => probedAi = RulesIncludeAi
    BY DEF SInv, Selection
  <2> QED
    BY <1>1, <2>1, <2>2, <2>3 DEF AiProbesMatchTheReport
<1>8. ReportNamesEveryTarget'
  BY <1>1, <1>2 DEF ReportNamesEveryTarget, Names, WithStatus, Statuses
<1>9. RulesIncludeAi' = RulesIncludeAi
  BY <1>1 DEF RulesIncludeAi
<1> QED
  BY <1>1, <1>6, <1>7, <1>8, <1>9 DEF SInv, Selection, Phases, PastOutput, PastConfig,
     PastProvider, PastRegions, PastFlags, PastCategory, PastRules

\* Every step keeps what is known of the selection and of the report.
LEMMA NextSInv == SInv /\ [Next]_vars => SInv'
<1> SUFFICES ASSUME SInv, [Next]_vars PROVE Selection'
  BY NextIInv DEF SInv
<1> USE DEF Phases, PastOutput, PastConfig, PastProvider, PastRegions, PastFlags, PastCategory,
            PastRules
<1>1. Selection /\ (report # None => phase = "exited")
  BY DEF SInv, Selection
<1>2. CASE \/ CheckOutput \/ LoadConfig \/ ResolveProvider \/ SdkMissing \/ ResolveRegions
           \/ CheckFlags \/ ResolveCategory \/ RuleConfigInvalid
  <2>1. /\ phase \in {"start", "output", "config", "provider", "regions", "flags", "category"}
        /\ phase' \notin PastRules
        /\ UNCHANGED <<report, probedAi>>
    BY <1>2 DEF CheckOutput, LoadConfig, ResolveProvider, SdkMissing, ResolveRegions, CheckFlags,
       ResolveCategory, RuleConfigInvalid, Exit, Reach, scan
  <2>2. report = None /\ probedAi = None
    BY <2>1, <1>1 DEF Selection
  <2> QED
    BY <1>1, <2>1, <2>2, SelectionStep
<1>3. CASE ApplyRuleConfig
  <2>1. /\ phase = "category" /\ phase' = "rules"
        /\ active' = {[func |-> func, bound |-> Params(func) = "valid"] : func \in Kept}
        /\ skipped' = {RuleId(func) : func \in Listed \ Kept}
        /\ UNCHANGED <<cli, file, provider, region, allRegions, category, called, probedAi,
                       targets, outcome, raised, report, exitCode>>
    BY <1>3 DEF ApplyRuleConfig, Reach, resolved, scan
  <2>2. report = None /\ probedAi = None
    BY <2>1, <1>1 DEF Selection
  <2>3. Kept' = Kept /\ Listed' = Listed
    BY <2>1 DEF Kept, Listed, Enabled, Functions, IdsOf
  <2>4. {r.func : r \in active'} = Kept
    <3>1. ASSUME NEW func \in Kept
          PROVE  func \in {r.func : r \in active'}
      <4>1. [func |-> func, bound |-> Params(func) = "valid"] \in active'
        BY <2>1
      <4>2. [func |-> func, bound |-> Params(func) = "valid"].func = func
        OBVIOUS
      <4> QED
        BY <4>1, <4>2
    <3>2. ASSUME NEW r \in active' PROVE r.func \in Kept
      BY <2>1
    <3> QED
      BY <3>1, <3>2
  <2>5. Selected'
    BY <2>1, <2>3, <2>4 DEF Selected
  <2> QED
    BY <2>1, <2>2, <2>5 DEF Selection, EveryRuleIsAccountedFor, AiProbesMatchTheReport,
       ReportNamesEveryTarget
<1>4. CASE \/ ValidateParams \/ NoAccounts \/ DiscoveryFails \/ ScanTargets \/ ScanRaises
           \/ ReportFails \/ ExceptClauses
  <2>1. /\ phase \in {"rules", "authenticated", "targeted", "scanned", "raised"}
        /\ phase' \in PastRules => phase \in PastRules
        /\ phase \in {"targeted", "scanned", "raised", "exited"} =>
              phase' \in {"targeted", "scanned", "raised", "exited"}
        /\ UNCHANGED <<cli, file, resolved, rules, report, probedAi>>
    BY <1>4 DEF ValidateParams, NoAccounts, DiscoveryFails, ScanTargets, ScanRaises, ReportFails,
       ExceptClauses, Exit, Reach, Raise, scan
  <2>2. report = None
    BY <2>1, <1>1
  <2> QED
    BY <1>1, <2>1, <2>2, SelectionStep
<1>5. CASE Authenticate
  <2>1. /\ phase = "validated"
        /\ phase' \in {"authenticated", "raised"}
        /\ UNCHANGED <<cli, file, resolved, rules, report, probedAi>>
    BY <1>5 DEF Authenticate, Reach, Raise
  <2>2. report = None
    BY <2>1, <1>1
  <2> QED
    BY <1>1, <2>1, <2>2, SelectionStep
<1>6. CASE DiscoverTargets
  <2>1. /\ phase = "authenticated" /\ phase' = "targeted"
        /\ probedAi' = IF DiscoversRegions THEN RulesIncludeAi ELSE None
        /\ UNCHANGED <<cli, file, provider, region, allRegions, category, active, skipped, report>>
    BY <1>6 DEF DiscoverTargets, Reach, resolved, rules
  <2>2. report = None
    BY <2>1, <1>1
  <2>3. Selected'
    BY <1>1, <2>1 DEF Selection, Selected, Kept, Listed, Enabled, Functions, IdsOf
  <2>4. RulesIncludeAi' = RulesIncludeAi
    BY <2>1 DEF RulesIncludeAi
  <2> QED
    BY <2>1, <2>2, <2>3, <2>4 DEF Selection, EveryRuleIsAccountedFor, AiProbesMatchTheReport,
       ReportNamesEveryTarget
<1>7. CASE Report
  BY <1>7, ReportStep
<1>8. CASE UNCHANGED vars
  <2>1. UNCHANGED <<cli, file, phase, provider, region, allRegions, category, active, skipped,
                    probedAi, targets, outcome, report>>
    BY <1>8 DEF vars, resolved, rules, scan
  <2>2. Listed' = Listed /\ \A id : SwitchedOff(id)' <=> SwitchedOff(id)
    BY <2>1 DEF Listed, Functions, IdsOf, SwitchedOff
  <2>3. EveryRuleIsAccountedFor'
    BY <1>1, <2>1, <2>2 DEF Selection, EveryRuleIsAccountedFor
  <2>4. AiProbesMatchTheReport' /\ ReportNamesEveryTarget'
    BY <1>1, <2>1 DEF Selection, AiProbesMatchTheReport, ReportNamesEveryTarget, Names, WithStatus
  <2>5. Selected => Selected'
    BY <2>1 DEF Selected, Kept, Listed, Enabled, Functions, IdsOf
  <2>6. RulesIncludeAi' = RulesIncludeAi
    BY <2>1 DEF RulesIncludeAi
  <2> QED
    BY <1>1, <2>1, <2>3, <2>4, <2>5, <2>6 DEF Selection
<1> QED
  BY <1>2, <1>3, <1>4, <1>5, <1>6, <1>7, <1>8 DEF Next

\* Every rule of the category is in the report once, under an id that was switched off
\* if the report says it was skipped, and that was not if the report says it ran.
THEOREM RulesAccounted == Spec => []EveryRuleIsAccountedFor
<1>1. SInv => EveryRuleIsAccountedFor
  BY DEF SInv, Selection
<1> QED
  BY InitSInv, NextSInv, <1>1, PTL DEF Spec

\* The AI probes of the region discovery fit the rules of the report.
THEOREM ProbesFit == Spec => []AiProbesMatchTheReport
<1>1. SInv => AiProbesMatchTheReport
  BY DEF SInv, Selection
<1> QED
  BY InitSInv, NextSInv, <1>1, PTL DEF Spec

\* No account, region, subscription or project is left out of the report.
THEOREM TargetsNamed == Spec => []ReportNamesEveryTarget
<1>1. SInv => ReportNamesEveryTarget
  BY DEF SInv, Selection
<1> QED
  BY InitSInv, NextSInv, <1>1, PTL DEF Spec

=============================================================================
