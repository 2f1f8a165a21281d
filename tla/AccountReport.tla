---------------------------- MODULE AccountReport ----------------------------
(***************************************************************************)
(* What a multi-account scan promises its caller (the list of              *)
(* AccountScanResult that scan/command.py aggregates), without threads,    *)
(* futures or batches: every account gets one final status, "timeout" is   *)
(* given only once the scan is overdue, and the report is handed over      *)
(* only when it is complete.  MultiAccountScan implements it.              *)
(***************************************************************************)
CONSTANTS Accounts, Statuses

VARIABLES
    report,    \* the status of each account, "none" until it is decided
    overdue,   \* the deadline has passed
    closed     \* the report has been handed over

vars == <<report, overdue, closed>>

Init ==
    /\ report = [a \in Accounts |-> "none"]
    /\ overdue \in BOOLEAN      \* --timeout 0 is overdue from the start
    /\ closed = FALSE

Decide(a, s) ==
    /\ ~closed
    /\ report[a] = "none"
    /\ s = "timeout" => overdue
    /\ report' = [report EXCEPT ![a] = s]
    /\ UNCHANGED <<overdue, closed>>

GoOverdue ==
    /\ ~overdue
    /\ overdue' = TRUE
    /\ UNCHANGED <<report, closed>>

HandOver ==
    /\ ~closed
    /\ \A a \in Accounts : report[a] # "none"
    /\ closed' = TRUE
    /\ UNCHANGED <<report, overdue>>

Next ==
    \/ \E a \in Accounts, s \in Statuses : Decide(a, s)
    \/ GoOverdue
    \/ HandOver

Spec == Init /\ [][Next]_vars
=============================================================================
