---------------------------- MODULE MCRegionCache ----------------------------
(***************************************************************************)
(* Two callers over two regions: they discover the same account, one with  *)
(* the AI probes and one without, as often as they like.                   *)
(***************************************************************************)
EXTENDS RegionCache, TLC

CONSTANTS c1, c2, r1, r2

MCCallers == {c1, c2}
MCRegions == {r1, r2}
MCKeyOf == [c \in MCCallers |-> [account |-> 1, ai |-> c = c2]]

\* A strict resource in r1, AI resources only in r2; or a region with everything
\* beside one with nothing that makes an error count.
MCHoldings == {
    [a \in {1} |-> [r \in MCRegions |-> IF r = r1 THEN {"strict"} ELSE {"ai"}]],
    [a \in {1} |-> [r \in MCRegions |-> IF r = r1 THEN Services ELSE {"lenient"}]]}
=============================================================================
