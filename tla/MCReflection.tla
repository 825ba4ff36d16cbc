---------------------------- MODULE MCReflection ----------------------------
(* Small instances of Reflection for TLC. *)
EXTENDS ReflectionRefinement, TLC

CONSTANTS a, b, c, d, p1, p2

\* a and b are near-duplicates, b and c are, a and c are not; d has no token.
MCTokens == a :> 1 .. 5 @@ b :> 1 .. 6 @@ c :> 1 .. 7 @@ d :> {}

MCOnePid == [p \in Proc |-> 1]
MCOwnPids == p1 :> 1 @@ p2 :> 2

MCBullet(id, text, helpful, harmful, uses, status) ==
    [id |-> id, content |-> text, helpful |-> helpful, harmful |-> harmful,
     uses |-> uses, status |-> status]

\* An empty store, and one with a gap in its ids (a line that did not parse).
MCStores == {<<>>,
             <<MCBullet(1, a, 1, 1, 1, "active"),
               MCBullet(3, c, 1, 2, 3, "deprecated")>>}

MCDelta(op, id, text, helpful) ==
    [op |-> op, id |-> id, content |-> text, helpful |-> helpful]

MCDeltaLists ==
    {<<>>,
     <<MCDelta("add", 0, a, TRUE), MCDelta("add", 0, d, TRUE)>>,
     <<MCDelta("add", 0, c, TRUE), MCDelta("add", 0, Blank, TRUE)>>,
     <<MCDelta("reinforce", 1, Blank, FALSE),
       MCDelta("reinforce", 4, Blank, TRUE)>>,
     <<MCDelta("revise", 1, b, TRUE), MCDelta("other", 1, b, TRUE),
       MCDelta("add", 0, b, TRUE)>>,
     <<MCDelta("reinforce", 3, Blank, FALSE), MCDelta("malformed", 0, a, TRUE)>>}

MCCreditLists == {<<>>, <<1, 9, 3, 3>>}
=============================================================================
