--------------------------- MODULE MCFilterPipeline ---------------------------
(***************************************************************************)
(* Findings of two rules, exceptions around their expiry date, settings    *)
(* per rule and by default, tags, and thresholds at their boundary.        *)
(***************************************************************************)
EXTENDS FilterPipeline, TLC

Finding(id, rule, resource, account, cost, confidence, tags) ==
    [id |-> id, rule |-> rule, resource |-> resource, account |-> account, region |-> "us",
     cost |-> cost, confidence |-> confidence, risk |-> "LOW", tags |-> tags]

NoTags == <<>>
MCFindings == {
    Finding(1, "ebs", "vol", None, 3, 2, NoTags),
    Finding(2, "ebs", "vol", "acme", None, 3, "env" :> "dev"),
    Finding(3, "eip", "ip", "acme", 1, 1, "env" :> "prod"),
    Finding(4, "eip", "ip2", "acme", 2, 3, NoTags)}

\* Three days: an exception may have run out, may be on its last day, or never ends.
Exception(rule, resources, account, expires) ==
    [rule |-> rule, resources |-> resources, account |-> account, region |-> None,
     expires |-> expires]

MCExceptions == {
    Exception("ebs", {"vol"}, "acme", Today),
    Exception("ebs", {"vol"}, None, Today - 1),
    Exception("eip", {"ip", "ip2"}, None, Today - 1),
    Exception("eip", {"ip"}, None, None)}

Settings(minCost, confidence, risk) ==
    [minCost |-> minCost, confidence |-> confidence, risk |-> risk]
Unset == Settings(None, None, None)
Thresholds(findings, confidence, cost) ==
    [findings |-> findings, confidence |-> confidence, cost |-> cost]
NoThresholds == Thresholds(FALSE, None, None)

MCConfigs ==
    [exceptions : SUBSET MCExceptions,
     rules : {[ebs |-> r, eip |-> Unset] :
                  r \in {Unset, Settings(4, None, "HIGH"), Settings(2, 3, None)}},
     defaults : {Unset, Settings(2, 2, "CRITICAL"), Settings(None, 2, None)},
     tagsEnabled : BOOLEAN,
     ignoreTags : {{[key |-> "env", values |-> {}]}},
     thresholds : {NoThresholds, Thresholds(FALSE, 3, None), Thresholds(FALSE, None, 3)}]

MCInvocations ==
    [ignoreTags : {{}, {[key |-> "env", values |-> {"dev"}]}},
     thresholds : {NoThresholds, Thresholds(TRUE, None, None), Thresholds(FALSE, None, 0),
                   Thresholds(FALSE, 2, 5)}]
=============================================================================
