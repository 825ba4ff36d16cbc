------------------------------ MODULE Serving ------------------------------
(***************************************************************************)
(* Sessions over the memory store: what a session is shown of it, and what *)
(* the reflection that follows credits (engine/evolve/retrieve.py, the     *)
(* catalog of materialize.py, serve_one and learn_job of the harness, the  *)
(* UserPromptSubmit hook, the Codex runner).  A session reads the store    *)
(* without a lock, the model works on the task while other reflections     *)
(* merge and credit, and the ids to credit are those the session was shown *)
(* then or what it is seen to have used of them.                           *)
(***************************************************************************)
EXTENDS Reflection

CONSTANTS
    Modes,       \* the ways there may be, one for a whole deployment:
                 \*   lexical, agentic  the harness puts bullets in the prompt
                 \*   native            the agent picks from a catalog
                 \*   prompt            the hook or the Codex runner does, and
                 \*                     a transcript says what was invoked
    Query,       \* [Proc -> the tokens of the session's task]
    TopK,        \* config.RETRIEVE_TOPK
    MaxIndex,    \* max_index of select_agentic
    CatalogCap,  \* materialize.CATALOG_CAP
    Answers,     \* the lists of ids the selecting model may answer
    Logs         \* the sets of bullets a log of skill invocations may name

ASSUME ServingAssumption ==
    /\ Modes \subseteq {"lexical", "agentic", "native", "prompt"}
    /\ "prompt" \in Modes => ~Locked
    /\ TopK \in Nat \ {0} /\ MaxIndex \in Nat \ {0} /\ CatalogCap \in Nat
    /\ Answers \subseteq Seq(Nat)
    /\ Logs \subseteq SUBSET Nat

VARIABLES
    mode,
    stage,   \* [Proc -> rest, served or learning]
    seen,    \* [Proc -> the store as the session read it]
    chosen   \* [Proc -> ids of what it was shown or used]

sessionVars == <<stage, seen, chosen>>
servingVars == <<vars, mode, sessionVars>>

-----------------------------------------------------------------------------
(* Selection, over a list of bullets. *)

\* The elements of a list that are good, in their order: upto[i] of the first i.
KeptUpTo(list, good) ==
    LET upto[i \in 0 .. Len(list)] ==
          IF i = 0 THEN <<>>
          ELSE IF list[i] \in good THEN Append(upto[i - 1], list[i]) ELSE upto[i - 1]
    IN  upto

Kept(list, good) == KeptUpTo(list, good)[Len(list)]

Active(list) == Kept(list, {b \in Bullet : b.status = "active"})

Ids(list) == [i \in DOMAIN list |-> list[i].id]

First(k, list) == SubSeq(list, 1, IF Len(list) < k THEN Len(list) ELSE k)

\* In tenths: a shared token, a helpful vote and a harmful one weigh 10, 1, -5.
Score(b, query) ==
    10 * Cardinality(Tokens[b.content] \cap query) + b.helpful - 5 * b.harmful

\* sort(reverse=True): the larger key first, of equals the earlier.
Inserted(ranked, b, key) ==
    Kept(ranked, {r \in Bullet : key[r] >= key[b]}) \o <<b>>
      \o Kept(ranked, {r \in Bullet : key[r] < key[b]})

RankedUpTo(list, key) ==
    LET upto[i \in 0 .. Len(list)] ==
          IF i = 0 THEN <<>> ELSE Inserted(upto[i - 1], list[i], key)
    IN  upto

Ranked(list, key) == RankedUpTo(list, key)[Len(list)]

ByScore(query) == [b \in Bullet |-> Score(b, query)]
ByNet == [b \in Bullet |-> b.helpful - b.harmful]

\* select: nothing without tokens, nothing that does not score.
Relevant(list, query) ==
    Kept(Active(list), {b \in Bullet : Tokens[b.content] # {} /\ Score(b, query) > 0})

\* Mutant of Selected: the first that score, not the best.
SelectedUnranked(list, query) == Ids(First(TopK, Relevant(list, query)))

Selected(list, query) ==
    Ids(First(TopK, Ranked(Relevant(list, query), ByScore(query))))

\* The index of select_agentic: the most proven, when there are too many.
Index(list) ==
    IF Len(Active(list)) > MaxIndex THEN First(MaxIndex, Ranked(Active(list), ByNet))
                                    ELSE Active(list)

\* The ids at these places of the answer, at most TopK.
PickedAt(answer, places) ==
    LET kept == Kept([n \in DOMAIN answer |-> n], places)
    IN  First(TopK, [i \in DOMAIN kept |-> answer[kept[i]]])

FirstMentions(answer) == {n \in DOMAIN answer : \A m \in 1 .. n - 1 : answer[m] # answer[n]}

\* Mutant of Picked: ids the index does not hold are kept.
PickedUnchecked(answer, index) == PickedAt(answer, FirstMentions(answer))

\* What the model answered, as far as the index holds it, once.
Picked(answer, index) ==
    PickedAt(answer, {n \in FirstMentions(answer) : KnownId(answer[n], index)})

Catalog(list) == First(CatalogCap, Ranked(Active(list), ByNet))

\* "mem-m-1000" is found in a line that names mem-m-10000.
Within(id, named) == named = id \/ (id >= 1000 /\ \E j \in 1 .. 3 : named \div 10 ^ j = id)

\* match_invoked and invoked_to_bullet_ids: in the order of the catalog.
Invoked(log, catalog) ==
    Kept(Ids(catalog), {id \in Nat : \E named \in log : Within(id, named)})

-----------------------------------------------------------------------------

ServingInit ==
    /\ Init
    /\ mode \in Modes
    /\ stage = [p \in Proc |-> "rest"]
    /\ seen = [p \in Proc |-> <<>>]
    /\ chosen = [p \in Proc |-> <<>>]

Open == {p \in Proc : stage[p] = "served"}

\* The session starts and reads the store, whoever may be writing it.
Serve(p) ==
    /\ stage[p] = "rest" /\ pc[p] = "idle"
    /\ runs + Cardinality(Open) < MaxRuns
    /\ stage' = [stage EXCEPT ![p] = "served"]
    /\ seen' = [seen EXCEPT ![p] = Loaded]
    /\ chosen' = [chosen EXCEPT ![p] =
         IF mode \in {"lexical", "prompt"} THEN Selected(Loaded, Query[p]) ELSE @]
    /\ UNCHANGED <<vars, mode>>

\* What the session was shown or used; a selecting model that fails selects
\* nothing, a missing log names nothing.
Chosen(p) ==
    CASE mode = "agentic" ->
           {Picked(answer, Index(seen[p])) : answer \in Answers \cup {<<>>}}
      [] mode = "native" ->
           {Invoked(log, Catalog(seen[p])) : log \in Logs \cup {{}}}
      [] OTHER -> {chosen[p]}

\* The model is done, the Reflector has answered and the reflection begins.
Learn(p) ==
    /\ stage[p] = "served"
    /\ \E list \in Chosen(p) : chosen' = [chosen EXCEPT ![p] = list]
    /\ Begin(p)
    /\ mode = "prompt" \/ ids'[p] = chosen'[p]
    /\ stage' = [stage EXCEPT ![p] = "learning"]
    /\ UNCHANGED <<mode, seen>>

EndSession(p) ==
    /\ stage' = [stage EXCEPT ![p] = "rest"]
    /\ seen' = [seen EXCEPT ![p] = <<>>]
    /\ chosen' = [chosen EXCEPT ![p] = <<>>]

\* No reflection follows: the call raises, or the Stop hook leaves it out.
Abandon(p) ==
    /\ stage[p] = "served"
    /\ EndSession(p)
    /\ UNCHANGED <<vars, mode>>

\* The reflection goes on, and the session is over when it is.
Reflect(p) ==
    /\ Step(p)
    /\ IF pc'[p] = "idle" THEN EndSession(p) ELSE UNCHANGED sessionVars
    /\ UNCHANGED mode

Killed(p) ==
    /\ Crash(p)
    /\ EndSession(p)
    /\ UNCHANGED mode

AllKilled ==
    /\ CrashAll
    /\ stage' = [p \in Proc |-> "rest"]
    /\ seen' = [p \in Proc |-> <<>>]
    /\ chosen' = [p \in Proc |-> <<>>]
    /\ UNCHANGED mode

ServingNext ==
    \/ \E p \in Proc : Serve(p) \/ Learn(p) \/ Abandon(p) \/ Reflect(p) \/ Killed(p)
    \/ AllKilled

ServingSpec == ServingInit /\ [][ServingNext]_servingVars

\* A session comes to its end, a reflection keeps running.
FairServing ==
    /\ ServingSpec
    /\ \A p \in Proc : WF_servingVars(Abandon(p) \/ Learn(p))
    /\ \A p \in Proc : WF_servingVars(Reflect(p))

-----------------------------------------------------------------------------

\* The bullets of the snapshot that lexical retrieval may show.
Eligible(p) ==
    {i \in DOMAIN seen[p] :
       /\ seen[p][i].status = "active"
       /\ Tokens[seen[p][i].content] # {}
       /\ Score(seen[p][i], Query[p]) > 0}

ShownTo(p) == {i \in DOMAIN seen[p] : \E n \in DOMAIN chosen[p] : chosen[p][n] = seen[p][i].id}

\* The prompt gets the TopK best of the lessons that are active and score, of
\* equals the older: none is left out for a worse one, none that misleads is
\* shown, also when the store changes under the readers' hands.
ShowsTheBest ==
    \A p \in Proc : stage[p] # "rest" /\ mode \in {"lexical", "prompt"} =>
        /\ ShownTo(p) \subseteq Eligible(p)
        /\ Len(chosen[p]) = Cardinality(ShownTo(p))
        /\ Len(chosen[p]) <= TopK
        /\ \A i \in Eligible(p) \ ShownTo(p) :
             /\ Len(chosen[p]) = TopK
             /\ \A j \in ShownTo(p) :
                  \/ Score(seen[p][j], Query[p]) > Score(seen[p][i], Query[p])
                  \/ Score(seen[p][j], Query[p]) = Score(seen[p][i], Query[p]) /\ j < i

\* Under the lock a credit goes to the lesson the session had: what it credits
\* was active in the store it read, and is still there under that id with all
\* the votes it had, whatever other sessions learned in the meantime.
CreditFindsLesson ==
    \A p \in Proc : Locked /\ pc[p] = "credit" =>
        \A n \in DOMAIN ids[p] :
            \E i \in DOMAIN seen[p] :
                /\ seen[p][i].id = ids[p][n]
                /\ seen[p][i].status = "active"
                /\ i \in DOMAIN items[p]
                /\ Later(seen[p][i], items[p][i])

\* Every session ends: what it leaves behind is credited and merged, or given
\* up, and nobody waits for the lock for ever.
SessionsEnd == \A p \in Proc : stage[p] # "rest" ~> stage[p] = "rest"
=============================================================================
