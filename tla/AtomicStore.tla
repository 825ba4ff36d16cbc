---------------------------- MODULE AtomicStore ----------------------------
(***************************************************************************)
(* What the memory store promises its learners: every merge and every      *)
(* credit applies to the whole store at once, one after the other.  The    *)
(* two operations are the curator's functions of a list of bullets.        *)
(***************************************************************************)
EXTENDS MemoryStore

CONSTANTS InitialStores, DeltaLists, CreditLists

VARIABLE store

\* The position of a bullet with this id; 0 when there is none.
ById(id, items) == Max({0} \cup {i \in DOMAIN items : items[i].id = id})

\* One turn of merge's loop.
Applied(state, delta) ==
    LET items == state.items
        at == ById(delta.id, items)
        same == {i \in DOMAIN items :
                   delta.content # Blank /\ NearDuplicate(delta.content, items[i].content)}
        set(i, b) == [state EXCEPT !.items[i] = b]
    IN  CASE delta.op = "add" /\ delta.content # Blank /\ same # {} ->
               set(Min(same), BumpHelpful(items[Min(same)]))
          [] delta.op = "add" /\ delta.content # Blank /\ same = {} ->
               [items |-> Append(items, NewBullet(state.nid, delta.content)),
                nid |-> state.nid + 1]
          [] delta.op = "reinforce" /\ at # 0 ->
               set(at, Reinforced(items[at], delta.helpful))
          [] delta.op = "revise" /\ at # 0 /\ delta.content # Blank ->
               [state EXCEPT !.items[at].content = delta.content]
          [] OTHER -> state

\* merge's loop: state[i] is what it holds after the first i deltas.
Merging(items, deltas) ==
    LET state[i \in 0 .. Len(deltas)] ==
          IF i = 0 THEN [items |-> items, nid |-> NextId(items)]
                   ELSE Applied(state[i - 1], deltas[i])
    IN  state

\* merge as a function: all the deltas, or none when one is malformed.
Merged(items, deltas) ==
    IF \E i \in DOMAIN deltas : deltas[i].op = "malformed"
    THEN items
    ELSE Merging(items, deltas)[Len(deltas)].items

\* One turn of credit's loop.
CreditedOne(items, id, success) ==
    LET at == ById(id, items)
    IN  IF at = 0 THEN items ELSE [items EXCEPT ![at] = Credited(@, success)]

\* credit's loop; an id listed twice is credited twice.
Crediting(items, ids, success) ==
    LET state[i \in 0 .. Len(ids)] ==
          IF i = 0 THEN items ELSE CreditedOne(state[i - 1], ids[i], success)
    IN  state

\* credit as a function.
CreditedAll(items, ids, success) == Crediting(items, ids, success)[Len(ids)]

Init == store \in InitialStores

MergeAtomically == \E dl \in DeltaLists : store' = Merged(store, dl)

CreditAtomically ==
    \E cl \in CreditLists, ok \in BOOLEAN : store' = CreditedAll(store, cl, ok)

Next == MergeAtomically \/ CreditAtomically

Spec == Init /\ [][Next]_store
=============================================================================
