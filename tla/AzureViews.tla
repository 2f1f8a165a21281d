------------------------------ MODULE AzureViews ------------------------------
(***************************************************************************)
(* What the rules of providers/azure/rules have in common. The SDK shows a *)
(* field of a resource twice, as an attribute of the object and under its  *)
(* properties: a view is a pair of both, with None for null, Absent where  *)
(* the rule tells a field that is not there from a null one, and Broken    *)
(* for what is of no type the rule can use.                                *)
(*                                                                         *)
(* Time is counted in ticks, TicksPerDay of them to a UTC day.             *)
(***************************************************************************)
EXTENDS Integers, FiniteSets

CONSTANTS
    None, Absent, Broken,
    Junk,          \* in place of a number of a metric
    TicksPerDay,
    Now,
    IdleDays,      \* rule -> the days it looks back, as configured or fixed
    MaxIdleDays    \* _MAX_IDLE_DAYS

\* The rules that have a default of one day at least clamp what is configured.
EffectiveIdleDays(rule) ==
    CASE rule = "openai" -> IF IdleDays[rule] < 1 THEN 1
                            ELSE IF IdleDays[rule] > MaxIdleDays THEN MaxIdleDays
                            ELSE IdleDays[rule]
      [] rule \in {"ml_endpoint", "aml_instance"} -> IF IdleDays[rule] < 1 THEN 1 ELSE IdleDays[rule]
      [] OTHER -> IdleDays[rule]

WindowStart(rule) == Now - TicksPerDay * EffectiveIdleDays(rule)
InWindow(rule) == WindowStart(rule) .. Now - 1
Day(t) == t \div TicksPerDay
DaysSince(t) == (Now - t) \div TicksPerDay

\* The first of both that is not null.
Either(view) == IF view[1] # None THEN view[1] ELSE view[2]
\* The same, but None if they differ.
Agreed(view) ==
    IF view[1] # None /\ view[2] # None /\ view[1] # view[2] THEN None ELSE Either(view)

Conflicting(view) == view[1] # None /\ view[2] # None /\ view[1] # view[2]
OrEmpty(items) == IF items = None THEN {} ELSE items

\* A time that is known and not to come.
Past(t) == t # None /\ t <= Now
OldEnough(rule, t) == Past(t) /\ DaysSince(t) >= EffectiveIdleDays(rule)

Finding(r, risk, confidence, detail) ==
    [resource |-> r, risk |-> risk, confidence |-> confidence, detail |-> detail]
=============================================================================
