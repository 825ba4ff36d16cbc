-------------------------- MODULE MCConsolidation --------------------------
(* Small instances of Consolidation for TLC. *)
EXTENDS Consolidation

CONSTANTS s, t

\* Two skills of one answer may get one name: names are cut to 48 characters,
\* and what has none is called "skill".
MCAnswers == {<<>>, <<s>>, <<t, s>>, <<s, s>>}
=============================================================================
