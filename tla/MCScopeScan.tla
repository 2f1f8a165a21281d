----------------------------- MODULE MCScopeScan -----------------------------
(***************************************************************************)
(* Two scopes with two rules each, for every provider.                      *)
(***************************************************************************)
EXTENDS ScopeScan, TLC

CONSTANTS s1, s2, r1, r2

MCScopes == {s1, s2}
MCRules == {r1, r2}
=============================================================================
