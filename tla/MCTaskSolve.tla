----------------------------- MODULE MCTaskSolve -----------------------------
(* A small instance of TaskSolve for TLC. *)
EXTENDS TaskSolve, TLC

CONSTANTS right, broken, wrong, blank

\* A check that may reject what is right and misses nothing that is wrong.
MCPrecise == (right :> Verdict) @@ [a \in Answer |-> {"fail", "none"}]

\* A check that errs both ways.
MCNoisy == [a \in Answer |-> Verdict]

\* The right answer and one that crashes are code; the wrong one is prose.
MCExec == (right :> "pass") @@ (broken :> "crash") @@ [a \in Answer |-> "none"]

MCChecks == {MCPrecise, MCNoisy, Routed("self"), Routed("self_exec")}
=============================================================================
