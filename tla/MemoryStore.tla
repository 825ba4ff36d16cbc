---------------------------- MODULE MemoryStore ----------------------------
(***************************************************************************)
(* The memory store of engine/evolve/store.py: the bullets of              *)
(* memory/store.jsonl, one JSON object a line, and the operations of the   *)
(* deterministic curator (engine/evolve/curate.py) on the list of bullets  *)
(* a process holds after store.load().  Dates, types and source tasks are  *)
(* left out: nothing reads them back.  So are scopes, whose words only add *)
(* to those of the text in retrieval.                                      *)
(***************************************************************************)
EXTENDS Integers, Sequences, FiniteSets, FiniteSetsExt

CONSTANTS
    Content,           \* bullet texts that are not blank after strip()
    Blank,             \* a text that is blank after strip()
    Tokens,            \* [Content -> sets]: the \w+ tokens of a text
    DeprecateHarmful   \* config.DEPRECATE_HARMFUL

ASSUME DeprecateHarmfulAssumption == DeprecateHarmful \in Nat \ {0}

ASSUME TokensAssumption == \A c \in Content : IsFiniteSet(Tokens[c])

Status == {"active", "deprecated", "promoted"}

\* The number n stands for the id "m-000n".
Bullet == [id : Nat \ {0}, content : Content, helpful : Nat, harmful : Nat,
           uses : Nat, status : Status]

\* What a Reflector answers.  "other" is an operation merge() does not know,
\* "malformed" a list element that is not an object (d.get raises).
Delta == [op : {"add", "reinforce", "revise", "other", "malformed"},
          id : Nat, content : Content \cup {Blank}, helpful : BOOLEAN]

\* Mutants of NextId: the bullets counted, and the largest id itself.
NextIdByCount(items) == 1 + Len(items)

NextIdNotIncremented(items) == Max({0} \cup {items[i].id : i \in DOMAIN items})

NextId(items) == 1 + Max({0} \cup {items[i].id : i \in DOMAIN items})

\* Jaccard similarity above config.DEDUP_JACCARD = 4/5; never for a text
\* without tokens.
NearDuplicate(c, other) ==
    /\ Tokens[c] # {}
    /\ 5 * Cardinality(Tokens[c] \cap Tokens[other])
         > 4 * Cardinality(Tokens[c] \cup Tokens[other])

\* The bullet near-duplicate detection returns: the first in file order,
\* whatever its status.
IsFirstDuplicate(c, items, i) ==
    /\ NearDuplicate(c, items[i].content)
    /\ \A j \in 1 .. i - 1 : ~NearDuplicate(c, items[j].content)

HasDuplicate(c, items) ==
    \E i \in DOMAIN items : NearDuplicate(c, items[i].content)

\* by_id = {b["id"]: b for b in items}: of two bullets with one id, the last.
IsById(id, items, i) ==
    /\ items[i].id = id
    /\ \A j \in DOMAIN items : j > i => items[j].id # id

KnownId(id, items) == \E i \in DOMAIN items : items[i].id = id

NewBullet(id, c) ==
    [id |-> id, content |-> c, helpful |-> 1, harmful |-> 0, uses |-> 0,
     status |-> "active"]

BumpUses(b) == [b EXCEPT !.uses = @ + 1]

BumpHelpful(b) == [b EXCEPT !.helpful = @ + 1]

BumpHarmful(b) == [b EXCEPT !.harmful = @ + 1]

Misleading(b) == b.harmful >= DeprecateHarmful /\ b.harmful > b.helpful

\* Mutant of Reinforced: the deprecation test misses the vote.
ReinforcedTestFirst(b, helpful) ==
    LET tested == [b EXCEPT !.status = IF Misleading(b) THEN "deprecated" ELSE @]
    IN  IF helpful THEN BumpHelpful(BumpUses(tested))
                   ELSE BumpHarmful(BumpUses(tested))

\* One "reinforce": a use, a vote, and the automatic deprecation.
Reinforced(b, helpful) ==
    LET voted == IF helpful THEN BumpHelpful(BumpUses(b))
                            ELSE BumpHarmful(BumpUses(b))
    IN  [voted EXCEPT !.status = IF Misleading(voted) THEN "deprecated" ELSE @]

\* Mutant of Credited: a failure blames every bullet that was in context.
CreditedWithBlame(b, success) ==
    IF success THEN BumpHelpful(BumpUses(b)) ELSE BumpHarmful(BumpUses(b))

\* One in-context bullet of an evaluated task: a failure is no harmful vote.
Credited(b, success) ==
    IF success THEN BumpHelpful(BumpUses(b)) ELSE BumpUses(b)

-----------------------------------------------------------------------------
\* What the store promises its readers, by parts.

IdsIncrease(items) ==
    \A i, j \in DOMAIN items : i < j => items[i].id < items[j].id

SoundBullet(b) ==
    /\ b.status = "active" => ~Misleading(b)
    /\ b.status = "deprecated" => b.harmful >= DeprecateHarmful
    /\ b.harmful <= b.uses

\* A later version of a bullet: same id, no counter lower, no deprecation
\* taken back.
Later(b, r) ==
    /\ r.id = b.id
    /\ r.helpful >= b.helpful
    /\ r.harmful >= b.harmful
    /\ r.uses >= b.uses
    /\ b.status = "deprecated" => r.status = "deprecated"

\* `new` holds a later version of every bullet of `old`, at its place.
Evolves(old, new) ==
    /\ Len(old) <= Len(new)
    /\ \A i \in DOMAIN old : Later(old[i], new[i])
=============================================================================
