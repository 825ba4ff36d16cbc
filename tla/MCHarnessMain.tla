---------------------------- MODULE MCHarnessMain ----------------------------
(* A small instance of HarnessMain for TLC. *)
EXTENDS HarnessMain

Sizes(a, b, c) == [g \in Class |-> IF g = "a" THEN a ELSE IF g = "b" THEN b ELSE c]

\* A class that outweighs the others, and too few tasks for both slices.
MCMixes == {Sizes(5, 1, 2), Sizes(1, 2, 1)}
=============================================================================
