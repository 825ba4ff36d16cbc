---------------------------- MODULE MCDeployGate ----------------------------
(* Small instances of DeployGate for TLC. *)
EXTENDS DeployGate, TLC

CONSTANTS s, t, p1, p2

\* The processes of a deployment are alike.
Alike == Permutations(Proc)

MCCandidateLists == {<<t, s>>}

\* A round that helps, one that harms, and one that shows nothing.
MCRoundChoices ==
    {[both |-> 0, broke |-> 0, rescued |-> 1, neither |-> 1],
     [both |-> 0, broke |-> 2, rescued |-> 0, neither |-> 0],
     [both |-> 1, broke |-> 0, rescued |-> 0, neither |-> 0]}
=============================================================================
