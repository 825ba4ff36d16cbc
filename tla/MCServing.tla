----------------------------- MODULE MCServing -----------------------------
(* Small instances of Serving for TLC. *)
EXTENDS MCReflection, Serving

\* Ids there may be, and one there is not.
MCIds == 1 .. 7 \cup {9}
MCCredits == {<<>>} \cup {<<m>> : m \in MCIds} \cup {<<m, n>> : m, n \in MCIds}

MCQuery == p1 :> {6, 7} @@ p2 :> {1, 6}
MCAnswers == {<<9, 1, 1, 4>>, <<5>>}
MCLogs == {{1, 3}, {4, 5, 9}}

\* As MCStores, and more bullets than a prompt takes, the best one last.
MCServingStores ==
    {<<>>,
     <<MCBullet(1, a, 1, 1, 1, "active"),
       MCBullet(3, c, 1, 2, 3, "deprecated"),
       MCBullet(4, b, 2, 0, 0, "active"),
       MCBullet(5, b, 3, 0, 2, "active")>>}
=============================================================================
