--------------------------- MODULE EvidenceWindow ---------------------------
(***************************************************************************)
(* The accept rule of engine/evolve/verify.py: the counters a gate keeps   *)
(* of its paired with/without-skill comparisons, how a round of            *)
(* comparisons adds to them, and when they let a skill go live.            *)
(***************************************************************************)
EXTENDS Integers

CONSTANTS
    MinN,    \* min_n: comparisons needed before a skill may go live
    Margin   \* passes the skill must add over all comparisons

ASSUME GateAssumption == MinN \in Nat /\ Margin \in Nat

\* The rows of one round, counted by their outcome without and with the skill:
\* passed with both, only without, only with, with neither.
Rows == [both : Nat, broke : Nat, rescued : Nat, neither : Nat]

Evidence == [base : Nat, full : Nat, n : Nat, rescued : Nat, base_fail : Nat,
             broke : Nat, rounds : Nat]

NoEvidence == [base |-> 0, full |-> 0, n |-> 0, rescued |-> 0, base_fail |-> 0,
               broke |-> 0, rounds |-> 0]

\* Mutant of Accumulated: a row the skill broke counts as a pass with it.
AccumulatedBlind(e, r) ==
    [base      |-> e.base + r.both + r.broke,
     full      |-> e.full + r.both + r.rescued + r.broke,
     n         |-> e.n + r.both + r.broke + r.rescued + r.neither,
     rescued   |-> e.rescued + r.rescued,
     base_fail |-> e.base_fail + r.rescued + r.neither,
     broke     |-> e.broke + r.broke,
     rounds    |-> e.rounds + 1]

\* Mutant of Accumulated: rescues are counted net of the rows broken.
AccumulatedNet(e, r) ==
    [base      |-> e.base + r.both + r.broke,
     full      |-> e.full + r.both + r.rescued,
     n         |-> e.n + r.both + r.broke + r.rescued + r.neither,
     rescued   |-> e.rescued + r.rescued - r.broke,
     base_fail |-> e.base_fail + r.rescued + r.neither,
     broke     |-> e.broke + r.broke,
     rounds    |-> e.rounds + 1]

Accumulated(e, r) ==
    [base      |-> e.base + r.both + r.broke,
     full      |-> e.full + r.both + r.rescued,
     n         |-> e.n + r.both + r.broke + r.rescued + r.neither,
     rescued   |-> e.rescued + r.rescued,
     base_fail |-> e.base_fail + r.rescued + r.neither,
     broke     |-> e.broke + r.broke,
     rounds    |-> e.rounds + 1]

Powered(e) == e.n >= MinN
Beats(e) == e.full - e.base >= Margin
NotDiluting(e) == e.broke <= e.rescued

Accepts(e) == Powered(e) /\ Beats(e) /\ NotDiluting(e)

-----------------------------------------------------------------------------

\* The counters tell one story: what the skill added is what it rescued less
\* what it broke, and every comparison passed or failed without it.
Balanced(e) ==
    /\ e.full + e.broke = e.base + e.rescued
    /\ e.base + e.base_fail = e.n
    /\ e.rescued <= e.base_fail
    /\ e.broke <= e.base

\* Part of what `e` counts is all that `part` counts.
PartOf(part, e) ==
    /\ part.base <= e.base
    /\ part.full <= e.full
    /\ part.n <= e.n
    /\ part.rescued <= e.rescued
    /\ part.base_fail <= e.base_fail
    /\ part.broke <= e.broke
    /\ part.rounds <= e.rounds
=============================================================================
