-------------------------- MODULE MCMonotoneRepair --------------------------
(* Small instances of MonotoneRepair for TLC. *)
EXTENDS MonotoneRepair, TLC

CONSTANTS right, wrong, worse, blank

\* A check that may reject what is right and misses nothing that is wrong.
MCPrecise == (right :> {"ok", "fail", "none"}) @@ [a \in {wrong, worse, blank} |-> {"fail", "none"}]

\* A check that errs both ways.
MCNoisy == [a \in Answer |-> {"ok", "fail", "none"}]

MCChecks == {MCPrecise, MCNoisy}
=============================================================================
