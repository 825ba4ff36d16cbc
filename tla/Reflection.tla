----------------------------- MODULE Reflection -----------------------------
(***************************************************************************)
(* Concurrent reflections against one memory/store.jsonl.  A reflection    *)
(* merges the deltas its Reflector answered (curate.merge), then credits   *)
(* the bullets its session invoked (curate.credit); each is a              *)
(* read-modify-write of the whole file, published by store._atomic_write.  *)
(*                                                                         *)
(*   Locked = TRUE   the reflections are threads of one process and hold   *)
(*                   store.STORE_LOCK over both: the learner pool of       *)
(*                   eval/prequential.py, learn_job from the lock on;      *)
(*   Locked = FALSE  every reflection is a process of its own, spawned by  *)
(*                   the Stop hook; a threading lock does not reach across *)
(*                   processes and reflect.run takes none.                 *)
(***************************************************************************)
EXTENDS MemoryStore

CONSTANTS
    Proc,           \* the threads or processes that reflect
    PidOf,          \* [Proc -> pids]: os.getpid(), which names the tmp file
    Locked,
    Torn,           \* a file that was opened for writing and not yet filled
    NoFile,
    NoProc,
    InitialStores,  \* what store.jsonl may hold at the start
    DeltaLists,     \* the lists of deltas a Reflector may answer
    CreditLists,    \* the lists of ids a session may have invoked
    MaxRuns         \* bound: how many reflections are started

ASSUME ReflectionAssumption ==
    /\ NoProc \notin Proc
    /\ Torn \notin Seq(Bullet)
    /\ NoFile \notin Seq(Bullet)
    /\ NoFile # Torn
    /\ MaxRuns \in Nat
    /\ DeltaLists \subseteq Seq(Delta)
    /\ CreditLists \subseteq Seq(Nat)
    /\ \A s \in InitialStores :
         /\ s \in Seq(Bullet)
         /\ IdsIncrease(s)
         /\ \A i \in DOMAIN s : SoundBullet(s[i])

\* Threads of one process lock; processes have pids of their own.
ASSUME WriterAssumption ==
    /\ Locked \in BOOLEAN
    /\ Locked \/ \A p, q \in Proc : PidOf[p] = PidOf[q] => p = q

VARIABLES
    disk,     \* memory/store.jsonl
    tmp,      \* [pid -> store.jsonl.tmp.<pid>]
    lock,     \* who holds STORE_LOCK
    pc,       \* [Proc -> where a reflection stands]
    items,    \* [Proc -> the list it loaded and edits]
    nid,      \* [Proc -> merge's next fresh id]
    dirty,    \* [Proc -> merge or credit changed something]
    todo,     \* [Proc -> deltas still to apply]
    ids,      \* [Proc -> bullets still to credit]
    success,  \* [Proc -> the session's outcome]
    runs      \* how many reflections were started

vars == <<disk, tmp, lock, pc, items, nid, dirty, todo, ids, success, runs>>
local == <<items, nid, dirty, todo, ids, success>>

Pids == {PidOf[p] : p \in Proc}

MergeSave == {"mergeOpen", "mergeWrite", "mergeReplace"}
CreditSave == {"creditOpen", "creditWrite", "creditReplace"}
Inside == {"mergeLoad", "merge", "creditLoad", "credit", "finish"}
            \cup MergeSave \cup CreditSave

Init ==
    /\ disk \in InitialStores
    /\ tmp = [f \in Pids |-> NoFile]
    /\ lock = NoProc
    /\ pc = [p \in Proc |-> "idle"]
    /\ items = [p \in Proc |-> <<>>]
    /\ nid = [p \in Proc |-> 1]
    /\ dirty = [p \in Proc |-> FALSE]
    /\ todo = [p \in Proc |-> <<>>]
    /\ ids = [p \in Proc |-> <<>>]
    /\ success = [p \in Proc |-> FALSE]
    /\ runs = 0

-----------------------------------------------------------------------------

Goto(p, from, to) == pc[p] = from /\ pc' = [pc EXCEPT ![p] = to]

\* The locals of a reflection die with it.
Forget(p) ==
    /\ items' = [items EXCEPT ![p] = <<>>]
    /\ nid' = [nid EXCEPT ![p] = 1]
    /\ dirty' = [dirty EXCEPT ![p] = FALSE]
    /\ todo' = [todo EXCEPT ![p] = <<>>]
    /\ ids' = [ids EXCEPT ![p] = <<>>]
    /\ success' = [success EXCEPT ![p] = FALSE]

\* store.load() is tolerant: of a truncated file it keeps the whole lines,
\* here none.
Loaded == IF disk = Torn THEN <<>> ELSE disk

\* A session ended and its Reflector answered: no lock is held over that call.
Begin(p) ==
    /\ runs < MaxRuns
    /\ Goto(p, "idle", IF Locked THEN "lock" ELSE "mergeLoad")
    /\ \E dl \in DeltaLists : todo' = [todo EXCEPT ![p] = dl]
    /\ \E cl \in CreditLists : ids' = [ids EXCEPT ![p] = cl]
    /\ \E ok \in BOOLEAN : success' = [success EXCEPT ![p] = ok]
    /\ runs' = runs + 1
    /\ UNCHANGED <<disk, tmp, lock, items, nid, dirty>>

\* Mutant of Acquire: a lock of this thread alone.
AcquireOwnLock(p) ==
    /\ Goto(p, "lock", "mergeLoad")
    /\ lock' = p
    /\ UNCHANGED <<disk, tmp, local, runs>>

Acquire(p) ==
    /\ Goto(p, "lock", "mergeLoad")
    /\ lock = NoProc
    /\ lock' = p
    /\ UNCHANGED <<disk, tmp, local, runs>>

-----------------------------------------------------------------------------
\* curate.merge

MergeLoad(p) ==
    /\ Goto(p, "mergeLoad", "merge")
    /\ items' = [items EXCEPT ![p] = Loaded]
    /\ nid' = [nid EXCEPT ![p] = NextId(Loaded)]
    /\ dirty' = [dirty EXCEPT ![p] = FALSE]
    /\ UNCHANGED <<disk, tmp, lock, todo, ids, success, runs>>

\* The loop stands at a delta of this operation.
AtDelta(p, op) ==
    /\ pc[p] = "merge"
    /\ todo[p] # <<>>
    /\ Head(todo[p]).op = op

NextDelta(p) == todo' = [todo EXCEPT ![p] = Tail(@)]

\* The delta rewrites bullet i of the local list.
Edit(p, i, b) ==
    /\ items' = [items EXCEPT ![p][i] = b]
    /\ dirty' = [dirty EXCEPT ![p] = TRUE]

AddNew(p) ==
    /\ AtDelta(p, "add")
    /\ Head(todo[p]).content # Blank
    /\ ~HasDuplicate(Head(todo[p]).content, items[p])
    /\ items' = [items EXCEPT ![p] =
                   Append(@, NewBullet(nid[p], Head(todo[p]).content))]
    /\ nid' = [nid EXCEPT ![p] = @ + 1]
    /\ dirty' = [dirty EXCEPT ![p] = TRUE]
    /\ NextDelta(p)
    /\ UNCHANGED <<disk, tmp, lock, pc, ids, success, runs>>

AddDuplicate(p) ==
    /\ AtDelta(p, "add")
    /\ Head(todo[p]).content # Blank
    /\ \E i \in DOMAIN items[p] :
         /\ IsFirstDuplicate(Head(todo[p]).content, items[p], i)
         /\ Edit(p, i, BumpHelpful(items[p][i]))
    /\ NextDelta(p)
    /\ UNCHANGED <<disk, tmp, lock, pc, nid, ids, success, runs>>

Reinforce(p) ==
    /\ AtDelta(p, "reinforce")
    /\ \E i \in DOMAIN items[p] :
         /\ IsById(Head(todo[p]).id, items[p], i)
         /\ Edit(p, i, Reinforced(items[p][i], Head(todo[p]).helpful))
    /\ NextDelta(p)
    /\ UNCHANGED <<disk, tmp, lock, pc, nid, ids, success, runs>>

Revise(p) ==
    /\ AtDelta(p, "revise")
    /\ Head(todo[p]).content # Blank
    /\ \E i \in DOMAIN items[p] :
         /\ IsById(Head(todo[p]).id, items[p], i)
         /\ Edit(p, i, [items[p][i] EXCEPT !.content = Head(todo[p]).content])
    /\ NextDelta(p)
    /\ UNCHANGED <<disk, tmp, lock, pc, nid, ids, success, runs>>

\* Blank text, unknown id or unknown operation: nothing happens.
SkipDelta(p) ==
    /\ \/ AtDelta(p, "other")
       \/ AtDelta(p, "add") /\ Head(todo[p]).content = Blank
       \/ AtDelta(p, "reinforce") /\ ~KnownId(Head(todo[p]).id, items[p])
       \/ AtDelta(p, "revise")
            /\ \/ Head(todo[p]).content = Blank
               \/ ~KnownId(Head(todo[p]).id, items[p])
    /\ NextDelta(p)
    /\ UNCHANGED <<disk, tmp, lock, pc, items, nid, dirty, ids, success, runs>>

\* Mutant of MalformedCaught: the deltas before the malformed one are saved.
MalformedSavesPrefix(p) ==
    /\ Locked
    /\ AtDelta(p, "malformed")
    /\ Goto(p, "merge", IF dirty[p] THEN "mergeOpen" ELSE "creditLoad")
    /\ todo' = [todo EXCEPT ![p] = <<>>]
    /\ UNCHANGED <<disk, tmp, lock, items, nid, dirty, ids, success, runs>>

\* d.get raises: nothing of this merge is saved.  learn_job catches it and
\* goes on to credit ...
MalformedCaught(p) ==
    /\ Locked
    /\ AtDelta(p, "malformed")
    /\ Goto(p, "merge", "creditLoad")
    /\ todo' = [todo EXCEPT ![p] = <<>>]
    /\ UNCHANGED <<disk, tmp, lock, items, nid, dirty, ids, success, runs>>

\* ... the process of reflect.run dies of it.
MalformedFatal(p) ==
    /\ ~Locked
    /\ AtDelta(p, "malformed")
    /\ Goto(p, "merge", "idle")
    /\ Forget(p)
    /\ UNCHANGED <<disk, tmp, lock, runs>>

MergeEnd(p) ==
    /\ todo[p] = <<>>
    /\ Goto(p, "merge", IF dirty[p] THEN "mergeOpen" ELSE "creditLoad")
    /\ UNCHANGED <<disk, tmp, lock, local, runs>>

-----------------------------------------------------------------------------
\* curate.credit

CreditNone(p) ==
    /\ ids[p] = <<>>
    /\ Goto(p, "creditLoad", "finish")
    /\ UNCHANGED <<disk, tmp, lock, local, runs>>

CreditLoad(p) ==
    /\ ids[p] # <<>>
    /\ Goto(p, "creditLoad", "credit")
    /\ items' = [items EXCEPT ![p] = Loaded]
    /\ dirty' = [dirty EXCEPT ![p] = FALSE]
    /\ UNCHANGED <<disk, tmp, lock, nid, todo, ids, success, runs>>

CreditBullet(p) ==
    /\ pc[p] = "credit"
    /\ ids[p] # <<>>
    /\ \E i \in DOMAIN items[p] :
         /\ IsById(Head(ids[p]), items[p], i)
         /\ Edit(p, i, Credited(items[p][i], success[p]))
    /\ ids' = [ids EXCEPT ![p] = Tail(@)]
    /\ UNCHANGED <<disk, tmp, lock, pc, nid, todo, success, runs>>

CreditUnknown(p) ==
    /\ pc[p] = "credit"
    /\ ids[p] # <<>>
    /\ ~KnownId(Head(ids[p]), items[p])
    /\ ids' = [ids EXCEPT ![p] = Tail(@)]
    /\ UNCHANGED <<disk, tmp, lock, pc, items, nid, dirty, todo, success, runs>>

CreditEnd(p) ==
    /\ ids[p] = <<>>
    /\ Goto(p, "credit", IF dirty[p] THEN "creditOpen" ELSE "finish")
    /\ UNCHANGED <<disk, tmp, lock, local, runs>>

-----------------------------------------------------------------------------
\* store._atomic_write: open(tmp, "w") truncates, write + fsync, os.replace.

\* Mutant of OpenTmp: the store itself is opened for writing.
OpenInPlace(p) ==
    /\ \/ Goto(p, "mergeOpen", "mergeWrite")
       \/ Goto(p, "creditOpen", "creditWrite")
    /\ disk' = Torn
    /\ UNCHANGED <<tmp, lock, local, runs>>

OpenTmp(p) ==
    /\ \/ Goto(p, "mergeOpen", "mergeWrite")
       \/ Goto(p, "creditOpen", "creditWrite")
    /\ tmp' = [tmp EXCEPT ![PidOf[p]] = Torn]
    /\ UNCHANGED <<disk, lock, local, runs>>

WriteTmp(p) ==
    /\ \/ Goto(p, "mergeWrite", "mergeReplace")
       \/ Goto(p, "creditWrite", "creditReplace")
    /\ tmp' = [tmp EXCEPT ![PidOf[p]] = items[p]]
    /\ UNCHANGED <<disk, lock, local, runs>>

\* Mutant of ReplaceStore: the lock covers the merge only (and a replace whose
\* file another thread has taken does not happen).
ReplaceAndRelease(p) ==
    /\ tmp[PidOf[p]] \notin {Torn, NoFile}
    /\ \/ Goto(p, "mergeReplace", "creditLoad")
       \/ Goto(p, "creditReplace", "finish")
    /\ disk' = tmp[PidOf[p]]
    /\ tmp' = [tmp EXCEPT ![PidOf[p]] = NoFile]
    /\ lock' = NoProc
    /\ UNCHANGED <<local, runs>>

ReplaceStore(p) ==
    /\ \/ Goto(p, "mergeReplace", "creditLoad")
       \/ Goto(p, "creditReplace", "finish")
    /\ disk' = tmp[PidOf[p]]
    /\ tmp' = [tmp EXCEPT ![PidOf[p]] = NoFile]
    /\ UNCHANGED <<lock, local, runs>>

-----------------------------------------------------------------------------

\* Mutant of Finish: the lock is not given back.
FinishHolding(p) ==
    /\ Goto(p, "finish", "idle")
    /\ Forget(p)
    /\ UNCHANGED <<disk, tmp, lock, runs>>

Finish(p) ==
    /\ Goto(p, "finish", "idle")
    /\ lock' = IF Locked THEN NoProc ELSE lock
    /\ Forget(p)
    /\ UNCHANGED <<disk, tmp, runs>>

\* A detached process is killed.  Its tmp file stays behind.
Crash(p) ==
    /\ ~Locked
    /\ pc[p] # "idle"
    /\ pc' = [pc EXCEPT ![p] = "idle"]
    /\ Forget(p)
    /\ UNCHANGED <<disk, tmp, lock, runs>>

\* The harness is killed, and all its threads with it.
CrashAll ==
    /\ Locked
    /\ \E p \in Proc : pc[p] # "idle"
    /\ pc' = [p \in Proc |-> "idle"]
    /\ lock' = NoProc
    /\ items' = [p \in Proc |-> <<>>]
    /\ nid' = [p \in Proc |-> 1]
    /\ dirty' = [p \in Proc |-> FALSE]
    /\ todo' = [p \in Proc |-> <<>>]
    /\ ids' = [p \in Proc |-> <<>>]
    /\ success' = [p \in Proc |-> FALSE]
    /\ UNCHANGED <<disk, tmp, runs>>

Merge(p) ==
    \/ MergeLoad(p) \/ AddNew(p) \/ AddDuplicate(p) \/ Reinforce(p)
    \/ Revise(p) \/ SkipDelta(p)
    \/ MalformedCaught(p) \/ MalformedFatal(p) \/ MergeEnd(p)

Credit(p) ==
    \/ CreditNone(p) \/ CreditLoad(p) \/ CreditBullet(p)
    \/ CreditUnknown(p) \/ CreditEnd(p)

Save(p) == OpenTmp(p) \/ WriteTmp(p) \/ ReplaceStore(p)

Step(p) == Acquire(p) \/ Merge(p) \/ Credit(p) \/ Save(p) \/ Finish(p)

Next ==
    \/ \E p \in Proc : Begin(p) \/ Step(p) \/ Crash(p)
    \/ CrashAll

Spec == Init /\ [][Next]_vars

-----------------------------------------------------------------------------

\* Every variable has its type.
TypeOK ==
    /\ disk \in Seq(Bullet) \cup {Torn}
    /\ tmp \in [Pids -> Seq(Bullet) \cup {Torn, NoFile}]
    /\ lock \in Proc \cup {NoProc}
    /\ pc \in [Proc -> {"idle", "lock"} \cup Inside]
    /\ items \in [Proc -> Seq(Bullet)]
    /\ nid \in [Proc -> Nat \ {0}]
    /\ dirty \in [Proc -> BOOLEAN]
    /\ todo \in [Proc -> Seq(Delta)]
    /\ ids \in [Proc -> Seq(Nat)]
    /\ success \in [Proc -> BOOLEAN]
    /\ runs \in Nat

\* A reader of store.jsonl sees a complete file, whatever the writers do and
\* wherever one dies (the promise of store._atomic_write).
NeverTorn == disk # Torn

\* Ids identify bullets: no two bullets of the file share one, and a new one
\* is larger than all before it, also when writers overwrite one another.
UniqueIds == IdsIncrease(disk)

\* No interleaving publishes a bullet that is active although its votes say
\* it misleads, or one that is deprecated without the votes for it.
SoundStore == \A i \in DOMAIN disk : SoundBullet(disk[i])

\* No update is lost: what one reflection wrote, no later write takes back
\* (store.py: STORE_LOCK "serializes read-modify-write store mutations").
NoLostUpdate == [][Evolves(disk, disk')]_disk

-----------------------------------------------------------------------------
\* The inductive invariant behind the safety properties, by parts.

Editing == {"merge", "credit"} \cup MergeSave \cup CreditSave

GoodStore(s) ==
    /\ s \in Seq(Bullet)
    /\ IdsIncrease(s)
    /\ \A i \in DOMAIN s : SoundBullet(s[i])

FreshId(p) ==
    pc[p] = "merge" => \A i \in DOMAIN items[p] : items[p][i].id < nid[p]

\* Between its write and its replace nobody else touches a writer's tmp file.
TmpWritten(p) ==
    pc[p] \in {"mergeReplace", "creditReplace"} => tmp[PidOf[p]] = items[p]

LockHeld(p) == Locked /\ pc[p] \in Inside => lock = p

KeepsDisk(p) == Locked /\ pc[p] \in Editing => Evolves(disk, items[p])

IInv ==
    /\ TypeOK
    /\ GoodStore(disk)
    /\ \A p \in Proc : GoodStore(items[p])
    /\ \A p \in Proc : FreshId(p)
    /\ \A p \in Proc : TmpWritten(p)
    /\ \A p \in Proc : LockHeld(p)
    /\ \A p \in Proc : KeepsDisk(p)
=============================================================================
