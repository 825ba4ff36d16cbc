-------------------------- MODULE ReflectionProofs --------------------------
(***************************************************************************)
(* Proofs about Reflection, for every set of processes, every store, every *)
(* answer of the Reflector and both locking disciplines; and, under the    *)
(* lock, that it implements AtomicStore.                                   *)
(***************************************************************************)
EXTENDS ReflectionRefinement, Recursion

-----------------------------------------------------------------------------
\* The curator's operations on one bullet.

\* The fields of a bullet have their types.
LEMMA BulletFields ==
    ASSUME NEW b \in Bullet
    PROVE  /\ b.id \in Nat \ {0} /\ b.content \in Content
           /\ b.helpful \in Nat /\ b.harmful \in Nat /\ b.uses \in Nat
           /\ b.status \in Status
BY DEF Bullet

\* The elements of a list of bullets are bullets.
LEMMA BulletsOfList ==
    ASSUME NEW s \in Seq(Bullet)
    PROVE  /\ Len(s) \in Nat
           /\ DOMAIN s = 1 .. Len(s)
           /\ \A i \in DOMAIN s :
                /\ s[i] \in Bullet
                /\ s[i].id \in Nat \ {0} /\ s[i].content \in Content
                /\ s[i].helpful \in Nat /\ s[i].harmful \in Nat
                /\ s[i].uses \in Nat
                /\ s[i].status \in Status
<1>1. Len(s) \in Nat /\ DOMAIN s = 1 .. Len(s)
  OBVIOUS
<1>2. \A i \in DOMAIN s : s[i] \in Bullet
  OBVIOUS
<1>3. QED
  BY <1>1, <1>2, BulletFields

\* What each counter update changes.
LEMMA Bumps ==
    ASSUME NEW b \in Bullet
    PROVE  /\ BumpUses(b) \in Bullet
           /\ BumpUses(b).id = b.id
           /\ BumpUses(b).uses = b.uses + 1
           /\ BumpUses(b).helpful = b.helpful
           /\ BumpUses(b).harmful = b.harmful
           /\ BumpUses(b).status = b.status
           /\ BumpHelpful(b) \in Bullet
           /\ BumpHelpful(b).id = b.id
           /\ BumpHelpful(b).uses = b.uses
           /\ BumpHelpful(b).helpful = b.helpful + 1
           /\ BumpHelpful(b).harmful = b.harmful
           /\ BumpHelpful(b).status = b.status
           /\ BumpHarmful(b) \in Bullet
           /\ BumpHarmful(b).id = b.id
           /\ BumpHarmful(b).uses = b.uses
           /\ BumpHarmful(b).helpful = b.helpful
           /\ BumpHarmful(b).harmful = b.harmful + 1
           /\ BumpHarmful(b).status = b.status
BY DEF BumpUses, BumpHelpful, BumpHarmful, Bullet

\* An edit of a bullet: a later version that is still sound.
Improves(b, r) == r \in Bullet /\ SoundBullet(r) /\ Later(b, r)

LEMMA LaterReflexive ==
    ASSUME NEW b \in Bullet
    PROVE  Later(b, b)
BY BulletFields DEF Later

LEMMA LaterTransitive ==
    ASSUME NEW x \in Bullet, NEW y \in Bullet, NEW z \in Bullet,
           Later(x, y), Later(y, z)
    PROVE  Later(x, z)
BY BulletFields DEF Later

\* A near-duplicate's vote improves a bullet.
LEMMA BumpHelpfulImproves ==
    ASSUME NEW b \in Bullet, SoundBullet(b)
    PROVE  Improves(b, BumpHelpful(b))
<1>1. SoundBullet(BumpHelpful(b))
  BY Bumps, BulletFields, DeprecateHarmfulAssumption
     DEF SoundBullet, Misleading
<1>2. QED
  BY <1>1, Bumps, BulletFields DEF Improves, Later

\* A reinforcement improves a bullet: the deprecation test sees the vote.
LEMMA ReinforcedImproves ==
    ASSUME NEW b \in Bullet, SoundBullet(b), NEW h \in BOOLEAN
    PROVE  Improves(b, Reinforced(b, h))
<1> DEFINE voted == IF h THEN BumpHelpful(BumpUses(b))
                         ELSE BumpHarmful(BumpUses(b))
           r == Reinforced(b, h)
<1>1. /\ voted \in Bullet
      /\ voted.id = b.id
      /\ voted.uses = b.uses + 1
      /\ voted.helpful = IF h THEN b.helpful + 1 ELSE b.helpful
      /\ voted.harmful = IF h THEN b.harmful ELSE b.harmful + 1
      /\ voted.status = b.status
  BY Bumps
<1>2. r = [voted EXCEPT !.status =
             IF Misleading(voted) THEN "deprecated" ELSE voted.status]
  BY DEF Reinforced
<1> HIDE DEF voted
<1>3. /\ r \in Bullet
      /\ r.id = voted.id /\ r.uses = voted.uses
      /\ r.helpful = voted.helpful /\ r.harmful = voted.harmful
      /\ r.status = IF Misleading(voted) THEN "deprecated" ELSE voted.status
  BY <1>1, <1>2 DEF Bullet, Status
<1> HIDE DEF r
<1>4. SoundBullet(r)
  BY <1>1, <1>3, BulletFields, DeprecateHarmfulAssumption
     DEF SoundBullet, Misleading
<1>5. Improves(b, r)
  BY <1>1, <1>3, <1>4, BulletFields DEF Improves, Later
<1>6. QED
  BY <1>5 DEF r

\* A credit improves a bullet: it never adds a harmful vote.
LEMMA CreditedImproves ==
    ASSUME NEW b \in Bullet, SoundBullet(b), NEW ok \in BOOLEAN
    PROVE  Improves(b, Credited(b, ok))
<1> DEFINE r == Credited(b, ok)
<1>1. /\ r \in Bullet
      /\ r.id = b.id /\ r.uses = b.uses + 1 /\ r.harmful = b.harmful
      /\ r.helpful = IF ok THEN b.helpful + 1 ELSE b.helpful
      /\ r.status = b.status
  BY Bumps DEF Credited
<1> HIDE DEF r
<1>2. SoundBullet(r)
  BY <1>1, BulletFields, DeprecateHarmfulAssumption
     DEF SoundBullet, Misleading
<1>3. Improves(b, r)
  BY <1>1, <1>2, BulletFields DEF Improves, Later
<1>4. QED
  BY <1>3 DEF r

\* A revision improves a bullet: only its text changes.
LEMMA RevisedImproves ==
    ASSUME NEW b \in Bullet, SoundBullet(b), NEW c \in Content
    PROVE  Improves(b, [b EXCEPT !.content = c])
<1> DEFINE r == [b EXCEPT !.content = c]
<1>1. /\ r \in Bullet
      /\ r.id = b.id /\ r.uses = b.uses /\ r.harmful = b.harmful
      /\ r.helpful = b.helpful /\ r.status = b.status
  BY DEF Bullet
<1> HIDE DEF r
<1>2. Improves(b, r)
  BY <1>1, BulletFields DEF Improves, Later, SoundBullet, Misleading
<1>3. QED
  BY <1>2 DEF r

-----------------------------------------------------------------------------
\* Lists of bullets.

\* max(...) + 1 is an id no bullet has and larger than all there are.
LEMMA NextIdFresh ==
    ASSUME NEW s, GoodStore(s)
    PROVE  /\ NextId(s) \in Nat \ {0}
           /\ \A i \in DOMAIN s : s[i].id < NextId(s)
<1> DEFINE Used == {0} \cup {s[i].id : i \in DOMAIN s}
<1>1. /\ s \in Seq(Bullet)
      /\ \A i \in DOMAIN s : s[i].id \in Nat \ {0}
  BY BulletsOfList DEF GoodStore
<1>2. \E m \in Used : m \in Nat /\ \A n \in Used : m >= n
  <2>1. CASE s = <<>>
    <3>1. DOMAIN s = {}
      BY <2>1
    <3>2. Used = {0}
      BY <3>1
    <3>3. QED
      BY <3>2
  <2>2. CASE s # <<>>
    <3>1. Len(s) \in DOMAIN s /\ Len(s) \in Nat
      BY <2>2, <1>1
    <3>2. \A i \in DOMAIN s : s[i].id <= s[Len(s)].id
      BY <3>1, <1>1 DEF GoodStore, IdsIncrease
    <3>3. s[Len(s)].id \in Used /\ \A n \in Used : s[Len(s)].id >= n
      BY <3>1, <3>2, <1>1
    <3>4. QED
      BY <3>1, <3>3, <1>1
  <2>3. QED
    BY <2>1, <2>2
<1>3. Max(Used) \in Used /\ \A n \in Used : Max(Used) >= n
  BY <1>2 DEF Max
<1>4. Max(Used) \in Nat
  BY <1>3, <1>1
<1>5. NextId(s) = 1 + Max(Used)
  BY DEF NextId
<1> HIDE DEF Used
<1>6. \A i \in DOMAIN s : s[i].id <= Max(Used)
  BY <1>1, <1>3, <1>4 DEF Used
<1>7. QED
  BY <1>1, <1>4, <1>5, <1>6

\* Improving one bullet keeps a list good, and its ids.
LEMMA EditGood ==
    ASSUME NEW s, GoodStore(s), NEW i \in DOMAIN s,
           NEW b, Improves(s[i], b)
    PROVE  /\ GoodStore([s EXCEPT ![i] = b])
           /\ DOMAIN [s EXCEPT ![i] = b] = DOMAIN s
           /\ \A j \in DOMAIN s : [s EXCEPT ![i] = b][j].id = s[j].id
<1> DEFINE t == [s EXCEPT ![i] = b]
<1>1. /\ s \in Seq(Bullet)
      /\ b \in Bullet /\ b.id = s[i].id /\ SoundBullet(b)
  BY DEF GoodStore, Improves, Later
<1>2. t \in Seq(Bullet) /\ DOMAIN t = DOMAIN s
  BY <1>1
<1>3. \A j \in DOMAIN s : t[j] = IF j = i THEN b ELSE s[j]
  BY <1>1
<1> HIDE DEF t
<1>4. \A j \in DOMAIN s : t[j].id = s[j].id
  BY <1>1, <1>3
<1>5. IdsIncrease(t)
  BY <1>2, <1>4 DEF GoodStore, IdsIncrease
<1>6. \A j \in DOMAIN t : SoundBullet(t[j])
  BY <1>1, <1>2, <1>3 DEF GoodStore
<1>7. GoodStore(t)
  BY <1>2, <1>5, <1>6 DEF GoodStore
<1>8. QED
  BY <1>2, <1>4, <1>7 DEF t

\* Appending a new bullet under a fresh id keeps a list good.
LEMMA AppendGood ==
    ASSUME NEW s, GoodStore(s), NEW n \in Nat \ {0}, NEW c \in Content,
           \A i \in DOMAIN s : s[i].id < n
    PROVE  /\ GoodStore(Append(s, NewBullet(n, c)))
           /\ \A i \in DOMAIN Append(s, NewBullet(n, c)) :
                Append(s, NewBullet(n, c))[i].id < n + 1
<1> DEFINE b == NewBullet(n, c)
           t == Append(s, b)
<1>1. s \in Seq(Bullet)
  BY DEF GoodStore
<1>2. b \in Bullet /\ b.id = n /\ SoundBullet(b)
  BY DeprecateHarmfulAssumption
     DEF NewBullet, Bullet, Status, SoundBullet, Misleading
<1> HIDE DEF b
<1>3. /\ t \in Seq(Bullet)
      /\ DOMAIN t = 1 .. Len(s) + 1
      /\ DOMAIN s = 1 .. Len(s)
      /\ Len(s) \in Nat
      /\ t[Len(s) + 1] = b
      /\ \A i \in 1 .. Len(s) : t[i] = s[i]
  BY <1>1, <1>2
<1>4. \A i \in 1 .. Len(s) : s[i].id \in Nat /\ s[i].id < n
  BY <1>1, <1>3, BulletsOfList
<1>5. IdsIncrease(t)
  BY <1>2, <1>3, <1>4 DEF GoodStore, IdsIncrease
<1>6. \A i \in DOMAIN t : SoundBullet(t[i])
  BY <1>2, <1>3 DEF GoodStore
<1>7. \A i \in DOMAIN t : t[i].id < n + 1
  BY <1>2, <1>3, <1>4
<1>8. QED
  BY <1>3, <1>5, <1>6, <1>7 DEF GoodStore, b

\* A list evolves into itself.
LEMMA EvolvesReflexive ==
    ASSUME NEW s \in Seq(Bullet)
    PROVE  Evolves(s, s)
BY BulletsOfList, LaterReflexive DEF Evolves

\* Improving one bullet continues an evolution.
LEMMA EditEvolves ==
    ASSUME NEW old \in Seq(Bullet), NEW s \in Seq(Bullet), Evolves(old, s),
           NEW i \in DOMAIN s, NEW b, Improves(s[i], b)
    PROVE  Evolves(old, [s EXCEPT ![i] = b])
<1> DEFINE t == [s EXCEPT ![i] = b]
<1>1. /\ t \in Seq(Bullet) /\ Len(t) = Len(s)
      /\ \A j \in DOMAIN s : t[j] = IF j = i THEN b ELSE s[j]
  BY DEF Improves
<1> HIDE DEF t
<1>2. Len(old) \in Nat /\ Len(s) \in Nat /\ DOMAIN old \subseteq DOMAIN s
  BY DEF Evolves
<1>3. ASSUME NEW j \in DOMAIN old
      PROVE  Later(old[j], t[j])
  <2>1. old[j] \in Bullet /\ s[j] \in Bullet /\ t[j] \in Bullet
    BY <1>1, <1>2, BulletsOfList
  <2>2. Later(old[j], s[j])
    BY DEF Evolves
  <2>3. Later(s[j], t[j])
    BY <1>1, <1>2, <2>1, LaterReflexive DEF Improves
  <2>4. QED
    BY <2>1, <2>2, <2>3, LaterTransitive
<1>4. Evolves(old, t)
  BY <1>1, <1>2, <1>3 DEF Evolves
<1>5. QED
  BY <1>4 DEF t

\* Appending continues an evolution.
LEMMA AppendEvolves ==
    ASSUME NEW old \in Seq(Bullet), NEW s \in Seq(Bullet), Evolves(old, s),
           NEW b \in Bullet
    PROVE  Evolves(old, Append(s, b))
<1> DEFINE t == Append(s, b)
<1>1. /\ Len(old) \in Nat /\ Len(s) \in Nat /\ Len(old) <= Len(s)
      /\ Len(t) = Len(s) + 1
      /\ DOMAIN old = 1 .. Len(old)
      /\ \A j \in 1 .. Len(s) : t[j] = s[j]
  BY DEF Evolves
<1>2. \A j \in DOMAIN old : t[j] = s[j]
  BY <1>1
<1> HIDE DEF t
<1>3. Evolves(old, t)
  BY <1>1, <1>2 DEF Evolves
<1>4. QED
  BY <1>3 DEF t

-----------------------------------------------------------------------------
\* The inductive invariant, one lemma for each kind of step.

\* Initially nothing is loaded and nobody holds the lock.
LEMMA InitIInv == Init => IInv
<1> SUFFICES ASSUME Init PROVE IInv
  OBVIOUS
<1> USE DEF Init
<1>1. disk \in Seq(Bullet) /\ GoodStore(disk)
  BY ReflectionAssumption DEF GoodStore
<1>2. <<>> \in Seq(Bullet) /\ GoodStore(<<>>)
  BY DEF GoodStore, IdsIncrease
<1>3. TypeOK
  BY <1>1, <1>2 DEF TypeOK, Inside
<1>4. ASSUME NEW p \in Proc
      PROVE  /\ GoodStore(items[p]) /\ FreshId(p) /\ TmpWritten(p)
             /\ LockHeld(p) /\ KeepsDisk(p)
  <2>1. pc[p] = "idle" /\ items[p] = <<>>
    OBVIOUS
  <2>2. QED
    BY <1>2, <2>1
       DEF FreshId, TmpWritten, LockHeld, KeepsDisk, Inside, Editing,
           MergeSave, CreditSave
<1>5. QED
  BY <1>1, <1>3, <1>4 DEF IInv

\* A step of p that leaves the files and the lock alone disturbs nobody else.
LEMMA LocalStep ==
    ASSUME IInv, NEW p \in Proc, UNCHANGED <<disk, tmp, lock>>, TypeOK',
           \A q \in Proc \ {p} :
              pc'[q] = pc[q] /\ items'[q] = items[q] /\ nid'[q] = nid[q],
           GoodStore(items'[p]),
           FreshId(p)', TmpWritten(p)', LockHeld(p)', KeepsDisk(p)'
    PROVE  IInv'
<1>1. GoodStore(disk')
  BY DEF IInv
<1>2. ASSUME NEW q \in Proc \ {p}
      PROVE  /\ GoodStore(items'[q]) /\ FreshId(q)' /\ TmpWritten(q)'
             /\ LockHeld(q)' /\ KeepsDisk(q)'
  <2>1. /\ GoodStore(items[q]) /\ FreshId(q) /\ TmpWritten(q)
        /\ LockHeld(q) /\ KeepsDisk(q)
    BY DEF IInv
  <2>2. /\ pc'[q] = pc[q] /\ items'[q] = items[q] /\ nid'[q] = nid[q]
        /\ disk' = disk /\ tmp' = tmp /\ lock' = lock
    OBVIOUS
  <2>3. QED
    BY <2>1, <2>2 DEF FreshId, TmpWritten, LockHeld, KeepsDisk
<1>3. QED
  BY <1>1, <1>2 DEF IInv

\* A step that only moves p's program counter, and not to a label that
\* promises more than the one it leaves.
LEMMA MoveStep ==
    ASSUME IInv, NEW p \in Proc, UNCHANGED <<disk, tmp, lock, items, nid>>,
           TypeOK',
           \A q \in Proc \ {p} : pc'[q] = pc[q],
           pc'[p] \notin {"merge", "mergeReplace", "creditReplace"},
           pc'[p] \in Inside => pc[p] \in Inside,
           pc'[p] \in Editing => pc[p] \in Editing
    PROVE  IInv'
<1>1. /\ GoodStore(items[p]) /\ LockHeld(p) /\ KeepsDisk(p)
  BY DEF IInv
<1>2. FreshId(p)' /\ TmpWritten(p)' /\ LockHeld(p)' /\ KeepsDisk(p)'
  BY <1>1 DEF FreshId, TmpWritten, LockHeld, KeepsDisk
<1>3. QED
  BY <1>1, <1>2, LocalStep

\* p improves a bullet of its list.
LEMMA EditStep ==
    ASSUME IInv, NEW p \in Proc, pc[p] \in {"merge", "credit"},
           UNCHANGED <<disk, tmp, lock, pc, nid>>,
           NEW i \in DOMAIN items[p], NEW b, Improves(items[p][i], b),
           Edit(p, i, b),
           todo' \in [Proc -> Seq(Delta)], ids' \in [Proc -> Seq(Nat)],
           success' \in [Proc -> BOOLEAN], runs' \in Nat
    PROVE  IInv'
<1> DEFINE t == [items[p] EXCEPT ![i] = b]
<1>1. /\ items \in [Proc -> Seq(Bullet)] /\ dirty \in [Proc -> BOOLEAN]
      /\ items' = [items EXCEPT ![p] = t]
      /\ dirty' = [dirty EXCEPT ![p] = TRUE]
  BY DEF IInv, TypeOK, Edit
<1>2. /\ GoodStore(items[p]) /\ FreshId(p) /\ LockHeld(p) /\ KeepsDisk(p)
      /\ GoodStore(disk)
  BY DEF IInv
<1>3. GoodStore(t) /\ DOMAIN t = DOMAIN items[p]
      /\ \A j \in DOMAIN items[p] : t[j].id = items[p][j].id
  BY <1>2, EditGood
<1>4. Evolves(disk, items[p]) => Evolves(disk, t)
  BY <1>2, EditEvolves DEF GoodStore
<1> HIDE DEF t
<1>5. t \in Seq(Bullet)
  BY <1>3 DEF GoodStore
<1>6. items'[p] = t /\ \A q \in Proc \ {p} : items'[q] = items[q]
  BY <1>1
<1>7. TypeOK'
  BY <1>1, <1>5 DEF IInv, TypeOK
<1>8. FreshId(p)'
  BY <1>2, <1>3, <1>6 DEF FreshId
<1>9. TmpWritten(p)'
  BY DEF TmpWritten
<1>10. LockHeld(p)'
  BY <1>2 DEF LockHeld
<1>11. KeepsDisk(p)'
  BY <1>2, <1>4, <1>6 DEF KeepsDisk
<1>12. QED
  BY <1>3, <1>6, <1>7, <1>8, <1>9, <1>10, <1>11, LocalStep

\* No two reflections inside their read-modify-write share a tmp file: a lock
\* keeps threads apart, their pids keep processes apart.
LEMMA OwnTmpFile ==
    ASSUME IInv, NEW p \in Proc, NEW q \in Proc,
           pc[p] \in Inside, pc[q] \in Inside, PidOf[p] = PidOf[q]
    PROVE  p = q
<1>1. LockHeld(p) /\ LockHeld(q)
  BY DEF IInv
<1>2. CASE Locked
  BY <1>1, <1>2 DEF LockHeld
<1>3. CASE ~Locked
  BY <1>3, WriterAssumption
<1>4. QED
  BY <1>2, <1>3

LEMMA BeginStep ==
    ASSUME IInv, NEW p \in Proc, Begin(p)
    PROVE  IInv'
<1>1. PICK dl \in DeltaLists : todo' = [todo EXCEPT ![p] = dl]
  BY DEF Begin
<1>2. PICK cl \in CreditLists : ids' = [ids EXCEPT ![p] = cl]
  BY DEF Begin
<1>3. PICK ok \in BOOLEAN : success' = [success EXCEPT ![p] = ok]
  BY DEF Begin
<1>4. /\ pc[p] = "idle"
      /\ pc' = [pc EXCEPT ![p] = IF Locked THEN "lock" ELSE "mergeLoad"]
      /\ runs' = runs + 1
      /\ UNCHANGED <<disk, tmp, lock, items, nid, dirty>>
  BY DEF Begin, Goto
<1>5. TypeOK'
  BY <1>1, <1>2, <1>3, <1>4, ReflectionAssumption
     DEF IInv, TypeOK, Inside
<1>6. /\ pc'[p] = IF Locked THEN "lock" ELSE "mergeLoad"
      /\ \A q \in Proc \ {p} : pc'[q] = pc[q]
  BY <1>4 DEF IInv, TypeOK
<1>7. GoodStore(items'[p])
  BY <1>4 DEF IInv
<1>8. FreshId(p)' /\ TmpWritten(p)' /\ LockHeld(p)' /\ KeepsDisk(p)'
  BY <1>6 DEF FreshId, TmpWritten, LockHeld, KeepsDisk, Inside, Editing,
              MergeSave, CreditSave
<1>9. QED
  BY <1>4, <1>5, <1>6, <1>7, <1>8, LocalStep

LEMMA AcquireStep ==
    ASSUME IInv, NEW p \in Proc, Acquire(p)
    PROVE  IInv'
<1>1. /\ pc[p] = "lock" /\ pc' = [pc EXCEPT ![p] = "mergeLoad"]
      /\ lock = NoProc /\ lock' = p
      /\ UNCHANGED <<disk, tmp, items, nid, dirty, todo, ids, success, runs>>
  BY DEF Acquire, Goto, local
<1>2. TypeOK'
  BY <1>1 DEF IInv, TypeOK, Inside
<1>3. /\ pc'[p] = "mergeLoad"
      /\ \A q \in Proc \ {p} : pc'[q] = pc[q]
  BY <1>1 DEF IInv, TypeOK
<1>4. ASSUME NEW q \in Proc
      PROVE  /\ GoodStore(items'[q]) /\ FreshId(q)' /\ TmpWritten(q)'
             /\ LockHeld(q)' /\ KeepsDisk(q)'
  <2>1. /\ GoodStore(items[q]) /\ FreshId(q) /\ TmpWritten(q)
        /\ LockHeld(q) /\ KeepsDisk(q)
    BY DEF IInv
  <2>2. CASE q = p
    BY <1>1, <1>3, <2>1, <2>2
       DEF FreshId, TmpWritten, LockHeld, KeepsDisk, Editing, MergeSave,
           CreditSave
  <2>3. CASE q # p
    BY <1>1, <1>3, <2>1, <2>3, ReflectionAssumption
       DEF FreshId, TmpWritten, LockHeld, KeepsDisk
  <2>4. QED
    BY <2>2, <2>3
<1>5. QED
  BY <1>1, <1>2, <1>4 DEF IInv

\* What p loads is the file, under a lock or not.
LEMMA LoadedGood ==
    ASSUME IInv
    PROVE  /\ Loaded = disk
           /\ GoodStore(Loaded)
           /\ Evolves(disk, Loaded)
<1>1. GoodStore(disk) /\ disk \in Seq(Bullet)
  BY DEF IInv, GoodStore
<1>2. Loaded = disk
  BY <1>1, ReflectionAssumption DEF Loaded
<1>3. QED
  BY <1>1, <1>2, EvolvesReflexive

LEMMA MergeLoadStep ==
    ASSUME IInv, NEW p \in Proc, MergeLoad(p)
    PROVE  IInv'
<1>1. /\ pc[p] = "mergeLoad" /\ pc' = [pc EXCEPT ![p] = "merge"]
      /\ items' = [items EXCEPT ![p] = Loaded]
      /\ nid' = [nid EXCEPT ![p] = NextId(Loaded)]
      /\ dirty' = [dirty EXCEPT ![p] = FALSE]
      /\ UNCHANGED <<disk, tmp, lock, todo, ids, success, runs>>
  BY DEF MergeLoad, Goto
<1>2. /\ GoodStore(Loaded) /\ Loaded \in Seq(Bullet)
      /\ Evolves(disk, Loaded)
      /\ NextId(Loaded) \in Nat \ {0}
      /\ \A i \in DOMAIN Loaded : Loaded[i].id < NextId(Loaded)
  BY LoadedGood, NextIdFresh DEF GoodStore
<1>3. TypeOK'
  BY <1>1, <1>2 DEF IInv, TypeOK, Inside
<1>4. /\ pc'[p] = "merge" /\ items'[p] = Loaded /\ nid'[p] = NextId(Loaded)
      /\ \A q \in Proc \ {p} :
            pc'[q] = pc[q] /\ items'[q] = items[q] /\ nid'[q] = nid[q]
  BY <1>1 DEF IInv, TypeOK
<1>5. FreshId(p)' /\ TmpWritten(p)' /\ KeepsDisk(p)'
  BY <1>1, <1>2, <1>4 DEF FreshId, TmpWritten, KeepsDisk
<1>6. LockHeld(p)'
  BY <1>1 DEF IInv, LockHeld, Inside
<1>7. QED
  BY <1>1, <1>2, <1>3, <1>4, <1>5, <1>6, LocalStep

LEMMA CreditLoadStep ==
    ASSUME IInv, NEW p \in Proc, CreditLoad(p)
    PROVE  IInv'
<1>1. /\ pc[p] = "creditLoad" /\ pc' = [pc EXCEPT ![p] = "credit"]
      /\ items' = [items EXCEPT ![p] = Loaded]
      /\ dirty' = [dirty EXCEPT ![p] = FALSE]
      /\ UNCHANGED <<disk, tmp, lock, nid, todo, ids, success, runs>>
  BY DEF CreditLoad, Goto
<1>2. /\ GoodStore(Loaded) /\ Loaded \in Seq(Bullet)
      /\ Evolves(disk, Loaded)
  BY LoadedGood DEF GoodStore
<1>3. TypeOK'
  BY <1>1, <1>2 DEF IInv, TypeOK, Inside
<1>4. /\ pc'[p] = "credit" /\ items'[p] = Loaded
      /\ \A q \in Proc \ {p} :
            pc'[q] = pc[q] /\ items'[q] = items[q] /\ nid'[q] = nid[q]
  BY <1>1 DEF IInv, TypeOK
<1>5. FreshId(p)' /\ TmpWritten(p)' /\ KeepsDisk(p)'
  BY <1>1, <1>2, <1>4 DEF FreshId, TmpWritten, KeepsDisk
<1>6. LockHeld(p)'
  BY <1>1 DEF IInv, LockHeld, Inside
<1>7. QED
  BY <1>1, <1>2, <1>3, <1>4, <1>5, <1>6, LocalStep

\* The delta the merge loop stands at, and the rest of the list.
LEMMA AtDeltaTypes ==
    ASSUME IInv, NEW p \in Proc, NEW op, AtDelta(p, op)
    PROVE  /\ pc[p] = "merge"
           /\ Head(todo[p]) \in Delta
           /\ Head(todo[p]).content \in Content \cup {Blank}
           /\ Head(todo[p]).helpful \in BOOLEAN
           /\ NextDelta(p) => todo' \in [Proc -> Seq(Delta)]
<1>1. todo \in [Proc -> Seq(Delta)]
  BY DEF IInv, TypeOK
<1>2. todo[p] \in Seq(Delta) /\ todo[p] # <<>> /\ pc[p] = "merge"
  BY <1>1 DEF AtDelta
<1>3. Head(todo[p]) \in Delta /\ Tail(todo[p]) \in Seq(Delta)
  BY <1>2
<1>4. NextDelta(p) => todo' \in [Proc -> Seq(Delta)]
  BY <1>1, <1>3 DEF NextDelta
<1>5. QED
  BY <1>2, <1>3, <1>4 DEF Delta

LEMMA AddNewStep ==
    ASSUME IInv, NEW p \in Proc, AddNew(p)
    PROVE  IInv'
<1> DEFINE c == Head(todo[p]).content
           t == Append(items[p], NewBullet(nid[p], c))
<1>1. /\ pc[p] = "merge" /\ c \in Content
      /\ items' = [items EXCEPT ![p] = t]
      /\ nid' = [nid EXCEPT ![p] = @ + 1]
      /\ dirty' = [dirty EXCEPT ![p] = TRUE]
      /\ todo' \in [Proc -> Seq(Delta)]
      /\ UNCHANGED <<disk, tmp, lock, pc, ids, success, runs>>
  BY AtDeltaTypes DEF AddNew
<1>2. /\ GoodStore(items[p]) /\ FreshId(p) /\ LockHeld(p) /\ KeepsDisk(p)
      /\ GoodStore(disk) /\ nid[p] \in Nat \ {0}
  BY DEF IInv, TypeOK
<1>3. \A i \in DOMAIN items[p] : items[p][i].id < nid[p]
  BY <1>1, <1>2 DEF FreshId
<1>4. GoodStore(t) /\ \A i \in DOMAIN t : t[i].id < nid[p] + 1
  BY <1>1, <1>2, <1>3, AppendGood
<1>5. Evolves(disk, items[p]) => Evolves(disk, t)
  <2>1. NewBullet(nid[p], c) \in Bullet
    BY <1>1, <1>2 DEF NewBullet, Bullet, Status
  <2>2. QED
    BY <1>2, <2>1, AppendEvolves DEF GoodStore
<1> HIDE DEF c, t
<1>6. t \in Seq(Bullet)
  BY <1>4 DEF GoodStore
<1>7. TypeOK'
  <2>1. items' \in [Proc -> Seq(Bullet)] /\ dirty' \in [Proc -> BOOLEAN]
    BY <1>1, <1>6 DEF IInv, TypeOK
  <2>2. nid' \in [Proc -> Nat \ {0}]
    <3>1. nid \in [Proc -> Nat \ {0}] /\ nid[p] + 1 \in Nat \ {0}
      BY <1>2 DEF IInv, TypeOK
    <3>2. QED
      BY <1>1, <3>1
  <2>3. QED
    BY <1>1, <2>1, <2>2 DEF IInv, TypeOK
<1>8. /\ items'[p] = t /\ nid'[p] = nid[p] + 1
      /\ \A q \in Proc \ {p} :
            pc'[q] = pc[q] /\ items'[q] = items[q] /\ nid'[q] = nid[q]
  BY <1>1 DEF IInv, TypeOK
<1>9. FreshId(p)' /\ TmpWritten(p)' /\ LockHeld(p)' /\ KeepsDisk(p)'
  BY <1>1, <1>2, <1>4, <1>5, <1>8
     DEF FreshId, TmpWritten, LockHeld, KeepsDisk
<1>10. QED
  BY <1>1, <1>4, <1>7, <1>8, <1>9, LocalStep

LEMMA AddDuplicateStep ==
    ASSUME IInv, NEW p \in Proc, AddDuplicate(p)
    PROVE  IInv'
<1>1. PICK i \in DOMAIN items[p] : Edit(p, i, BumpHelpful(items[p][i]))
  BY DEF AddDuplicate
<1>2. items[p] \in Seq(Bullet) /\ SoundBullet(items[p][i])
  BY DEF IInv, GoodStore
<1>3. Improves(items[p][i], BumpHelpful(items[p][i]))
  BY <1>2, BulletsOfList, BumpHelpfulImproves
<1>4. /\ pc[p] = "merge" /\ todo' \in [Proc -> Seq(Delta)]
      /\ UNCHANGED <<disk, tmp, lock, pc, nid, ids, success, runs>>
  BY AtDeltaTypes DEF AddDuplicate
<1>5. /\ ids' \in [Proc -> Seq(Nat)] /\ success' \in [Proc -> BOOLEAN]
      /\ runs' \in Nat
  BY <1>4 DEF IInv, TypeOK
<1>6. QED
  BY <1>1, <1>3, <1>4, <1>5, EditStep

LEMMA ReinforceStep ==
    ASSUME IInv, NEW p \in Proc, Reinforce(p)
    PROVE  IInv'
<1> DEFINE h == Head(todo[p]).helpful
<1>1. PICK i \in DOMAIN items[p] : Edit(p, i, Reinforced(items[p][i], h))
  BY DEF Reinforce
<1>2. items[p] \in Seq(Bullet) /\ SoundBullet(items[p][i])
  BY DEF IInv, GoodStore
<1>3. /\ pc[p] = "merge" /\ todo' \in [Proc -> Seq(Delta)] /\ h \in BOOLEAN
      /\ UNCHANGED <<disk, tmp, lock, pc, nid, ids, success, runs>>
  BY AtDeltaTypes DEF Reinforce
<1>4. Improves(items[p][i], Reinforced(items[p][i], h))
  BY <1>2, <1>3, BulletsOfList, ReinforcedImproves
<1>5. /\ ids' \in [Proc -> Seq(Nat)] /\ success' \in [Proc -> BOOLEAN]
      /\ runs' \in Nat
  BY <1>3 DEF IInv, TypeOK
<1>6. QED
  BY <1>1, <1>3, <1>4, <1>5, EditStep

LEMMA ReviseStep ==
    ASSUME IInv, NEW p \in Proc, Revise(p)
    PROVE  IInv'
<1> DEFINE c == Head(todo[p]).content
<1>1. PICK i \in DOMAIN items[p] :
        Edit(p, i, [items[p][i] EXCEPT !.content = c])
  BY DEF Revise
<1>2. items[p] \in Seq(Bullet) /\ SoundBullet(items[p][i])
  BY DEF IInv, GoodStore
<1>3. /\ pc[p] = "merge" /\ todo' \in [Proc -> Seq(Delta)] /\ c \in Content
      /\ UNCHANGED <<disk, tmp, lock, pc, nid, ids, success, runs>>
  BY AtDeltaTypes DEF Revise
<1>4. Improves(items[p][i], [items[p][i] EXCEPT !.content = c])
  BY <1>2, <1>3, BulletsOfList, RevisedImproves
<1>5. /\ ids' \in [Proc -> Seq(Nat)] /\ success' \in [Proc -> BOOLEAN]
      /\ runs' \in Nat
  BY <1>3 DEF IInv, TypeOK
<1>6. QED
  BY <1>1, <1>3, <1>4, <1>5, EditStep

LEMMA CreditBulletStep ==
    ASSUME IInv, NEW p \in Proc, CreditBullet(p)
    PROVE  IInv'
<1>1. PICK i \in DOMAIN items[p] :
        Edit(p, i, Credited(items[p][i], success[p]))
  BY DEF CreditBullet
<1>2. items[p] \in Seq(Bullet) /\ SoundBullet(items[p][i])
  BY DEF IInv, GoodStore
<1>3. /\ pc[p] = "credit" /\ ids' = [ids EXCEPT ![p] = Tail(@)]
      /\ ids[p] # <<>> /\ success[p] \in BOOLEAN
      /\ UNCHANGED <<disk, tmp, lock, pc, nid, todo, success, runs>>
  BY DEF CreditBullet, IInv, TypeOK
<1>4. Improves(items[p][i], Credited(items[p][i], success[p]))
  BY <1>2, <1>3, BulletsOfList, CreditedImproves
<1>5. /\ ids' \in [Proc -> Seq(Nat)] /\ success' \in [Proc -> BOOLEAN]
      /\ todo' \in [Proc -> Seq(Delta)] /\ runs' \in Nat
  BY <1>3 DEF IInv, TypeOK
<1>6. QED
  BY <1>1, <1>3, <1>4, <1>5, EditStep

\* A delta or an id that names nothing changes only the list of what is left.
LEMMA SkipStep ==
    ASSUME IInv, NEW p \in Proc, SkipDelta(p) \/ CreditUnknown(p)
    PROVE  IInv'
<1>1. /\ UNCHANGED <<disk, tmp, lock, pc, items, nid, dirty, success, runs>>
      /\ todo' \in [Proc -> Seq(Delta)]
      /\ ids' \in [Proc -> Seq(Nat)]
  <2>1. CASE SkipDelta(p)
    <3>1. todo' \in [Proc -> Seq(Delta)]
      BY <2>1, AtDeltaTypes DEF SkipDelta
    <3>2. QED
      BY <2>1, <3>1 DEF SkipDelta, IInv, TypeOK
  <2>2. CASE CreditUnknown(p)
    BY <2>2 DEF CreditUnknown, IInv, TypeOK
  <2>3. QED
    BY <2>1, <2>2
<1>2. TypeOK'
  BY <1>1 DEF IInv, TypeOK
<1>3. /\ GoodStore(items[p]) /\ FreshId(p) /\ TmpWritten(p)
      /\ LockHeld(p) /\ KeepsDisk(p)
  BY DEF IInv
<1>4. FreshId(p)' /\ TmpWritten(p)' /\ LockHeld(p)' /\ KeepsDisk(p)'
  BY <1>1, <1>3 DEF FreshId, TmpWritten, LockHeld, KeepsDisk
<1>5. QED
  BY <1>1, <1>2, <1>3, <1>4, LocalStep

\* The loops' ends only move the program counter.
LEMMA EndStep ==
    ASSUME IInv, NEW p \in Proc,
           MergeEnd(p) \/ CreditNone(p) \/ CreditEnd(p)
    PROVE  IInv'
<1>1. /\ pc[p] \in {"merge", "credit", "creditLoad"}
      /\ \/ /\ pc[p] \in {"merge", "credit"}
            /\ pc' \in {[pc EXCEPT ![p] = l] :
                       l \in {"mergeOpen", "creditLoad", "creditOpen", "finish"}}
         \/ pc' = [pc EXCEPT ![p] = "finish"]
      /\ UNCHANGED <<disk, tmp, lock, items, nid, dirty, todo, ids, success, runs>>
  BY DEF MergeEnd, CreditNone, CreditEnd, Goto, local
<1>2. TypeOK'
  BY <1>1 DEF IInv, TypeOK, Inside, MergeSave, CreditSave
<1>3. /\ \A q \in Proc \ {p} : pc'[q] = pc[q]
      /\ pc'[p] \in {"mergeOpen", "creditLoad", "creditOpen", "finish"}
      /\ pc'[p] \in {"mergeOpen", "creditOpen"} => pc[p] \in {"merge", "credit"}
  BY <1>1 DEF IInv, TypeOK
<1>4. /\ pc[p] \in Inside
      /\ pc'[p] \in Editing => pc[p] \in Editing
  BY <1>1, <1>3 DEF Inside, Editing, MergeSave, CreditSave
<1>5. QED
  BY <1>1, <1>2, <1>3, <1>4, MoveStep

LEMMA MalformedCaughtStep ==
    ASSUME IInv, NEW p \in Proc, MalformedCaught(p)
    PROVE  IInv'
<1>1. /\ pc[p] = "merge" /\ pc' = [pc EXCEPT ![p] = "creditLoad"]
      /\ todo' = [todo EXCEPT ![p] = <<>>]
      /\ UNCHANGED <<disk, tmp, lock, items, nid, dirty, ids, success, runs>>
  BY DEF MalformedCaught, Goto
<1>2. TypeOK'
  BY <1>1 DEF IInv, TypeOK, Inside
<1>3. pc'[p] = "creditLoad" /\ \A q \in Proc \ {p} : pc'[q] = pc[q]
  BY <1>1 DEF IInv, TypeOK
<1>4. QED
  BY <1>1, <1>2, <1>3, MoveStep
     DEF Inside, Editing, MergeSave, CreditSave

\* p is idle again, with nothing loaded.
LEMMA ForgetStep ==
    ASSUME IInv, NEW p \in Proc, Forget(p),
           pc' = [pc EXCEPT ![p] = "idle"],
           UNCHANGED <<disk, tmp, lock, runs>>
    PROVE  IInv'
<1>1. <<>> \in Seq(Bullet) /\ GoodStore(<<>>)
  BY DEF GoodStore, IdsIncrease
<1>2. TypeOK'
  BY <1>1 DEF Forget, IInv, TypeOK
<1>3. /\ pc'[p] = "idle" /\ items'[p] = <<>>
      /\ \A q \in Proc \ {p} :
            pc'[q] = pc[q] /\ items'[q] = items[q] /\ nid'[q] = nid[q]
  BY DEF Forget, IInv, TypeOK
<1>4. FreshId(p)' /\ TmpWritten(p)' /\ LockHeld(p)' /\ KeepsDisk(p)'
  BY <1>3 DEF FreshId, TmpWritten, LockHeld, KeepsDisk, Inside, Editing,
              MergeSave, CreditSave
<1>5. QED
  BY <1>1, <1>2, <1>3, <1>4, LocalStep

LEMMA CrashStep ==
    ASSUME IInv, NEW p \in Proc, Crash(p) \/ MalformedFatal(p)
    PROVE  IInv'
<1>1. /\ Forget(p) /\ pc' = [pc EXCEPT ![p] = "idle"]
      /\ UNCHANGED <<disk, tmp, lock, runs>>
  BY DEF Crash, MalformedFatal, Goto
<1>2. QED
  BY <1>1, ForgetStep

\* When the harness is killed nothing is loaded and nobody holds the lock.
LEMMA CrashAllStep == IInv /\ CrashAll => IInv'
<1> SUFFICES ASSUME IInv, CrashAll PROVE IInv'
  OBVIOUS
<1> USE DEF CrashAll
<1>1. disk' \in Seq(Bullet) \cup {Torn} /\ GoodStore(disk')
  BY DEF IInv, TypeOK
<1>2. <<>> \in Seq(Bullet) /\ GoodStore(<<>>)
  BY DEF GoodStore, IdsIncrease
<1>3. TypeOK'
  BY <1>1, <1>2 DEF IInv, TypeOK
<1>4. ASSUME NEW p \in Proc
      PROVE  /\ GoodStore(items[p])' /\ FreshId(p)' /\ TmpWritten(p)'
             /\ LockHeld(p)' /\ KeepsDisk(p)'
  <2>1. pc'[p] = "idle" /\ items'[p] = <<>>
    OBVIOUS
  <2>2. QED
    BY <1>2, <2>1
       DEF FreshId, TmpWritten, LockHeld, KeepsDisk, Inside, Editing,
           MergeSave, CreditSave
<1>5. QED
  BY <1>1, <1>3, <1>4 DEF IInv

LEMMA FinishStep ==
    ASSUME IInv, NEW p \in Proc, Finish(p)
    PROVE  IInv'
<1>1. /\ pc[p] = "finish" /\ pc' = [pc EXCEPT ![p] = "idle"]
      /\ lock' = IF Locked THEN NoProc ELSE lock
      /\ Forget(p) /\ UNCHANGED <<disk, tmp, runs>>
  BY DEF Finish, Goto
<1>2. <<>> \in Seq(Bullet) /\ GoodStore(<<>>)
  BY DEF GoodStore, IdsIncrease
<1>3. TypeOK'
  BY <1>1, <1>2 DEF Forget, IInv, TypeOK
<1>4. ASSUME NEW q \in Proc
      PROVE  /\ GoodStore(items'[q]) /\ FreshId(q)' /\ TmpWritten(q)'
             /\ LockHeld(q)' /\ KeepsDisk(q)'
  <2>1. /\ GoodStore(items[q]) /\ FreshId(q) /\ TmpWritten(q)
        /\ LockHeld(q) /\ KeepsDisk(q) /\ LockHeld(p)
    BY DEF IInv
  <2>2. CASE q = p
    <3>1. pc'[p] = "idle" /\ items'[p] = <<>>
      BY <1>1 DEF Forget, IInv, TypeOK
    <3>2. QED
      BY <1>2, <2>2, <3>1
         DEF FreshId, TmpWritten, LockHeld, KeepsDisk, Inside, Editing,
             MergeSave, CreditSave
  <2>3. CASE q # p
    <3>1. pc'[q] = pc[q] /\ items'[q] = items[q] /\ nid'[q] = nid[q]
      BY <1>1, <2>3 DEF Forget, IInv, TypeOK
    <3>2. Locked => pc[q] \notin Inside
      BY <1>1, <2>1, <2>3 DEF LockHeld, Inside
    <3>3. QED
      BY <1>1, <2>1, <3>1, <3>2 DEF FreshId, TmpWritten, LockHeld, KeepsDisk
  <2>4. QED
    BY <2>2, <2>3
<1>5. QED
  BY <1>1, <1>3, <1>4 DEF IInv

\* A write of p's tmp file changes no file another writer is about to publish.
LEMMA OpenTmpStep ==
    ASSUME IInv, NEW p \in Proc, OpenTmp(p)
    PROVE  IInv'
<1>1. /\ \/ pc[p] = "mergeOpen" /\ pc' = [pc EXCEPT ![p] = "mergeWrite"]
         \/ pc[p] = "creditOpen" /\ pc' = [pc EXCEPT ![p] = "creditWrite"]
      /\ tmp' = [tmp EXCEPT ![PidOf[p]] = Torn]
      /\ UNCHANGED <<disk, lock, items, nid, dirty, todo, ids, success, runs>>
  BY DEF OpenTmp, Goto, local
<1>2. TypeOK'
  BY <1>1 DEF IInv, TypeOK, Inside, MergeSave, CreditSave
<1>3. /\ pc[p] \in Inside /\ pc[p] \in Editing
      /\ pc'[p] \in {"mergeWrite", "creditWrite"}
      /\ \A q \in Proc \ {p} : pc'[q] = pc[q]
      /\ \A f \in Pids \ {PidOf[p]} : tmp'[f] = tmp[f]
  BY <1>1 DEF IInv, TypeOK, Inside, Editing, MergeSave, CreditSave
<1>4. ASSUME NEW q \in Proc
      PROVE  /\ GoodStore(items'[q]) /\ FreshId(q)' /\ TmpWritten(q)'
             /\ LockHeld(q)' /\ KeepsDisk(q)'
  <2>1. /\ GoodStore(items[q]) /\ FreshId(q) /\ TmpWritten(q)
        /\ LockHeld(q) /\ KeepsDisk(q)
    BY DEF IInv
  <2>2. CASE q = p
    BY <1>1, <1>3, <2>1, <2>2
       DEF FreshId, TmpWritten, LockHeld, KeepsDisk
  <2>3. CASE q # p
    <3>1. TmpWritten(q)'
      <4> SUFFICES ASSUME pc[q] \in {"mergeReplace", "creditReplace"}
                   PROVE  tmp'[PidOf[q]] = items[q]
        BY <1>1, <1>3, <2>3 DEF TmpWritten
      <4>1. pc[q] \in Inside
        BY DEF Inside, MergeSave, CreditSave
      <4>2. PidOf[q] \in Pids \ {PidOf[p]}
        BY <1>3, <2>3, <4>1, OwnTmpFile DEF Pids
      <4>3. QED
        BY <1>3, <2>1, <4>2 DEF TmpWritten
    <3>2. QED
      BY <1>1, <1>3, <2>1, <2>3, <3>1 DEF FreshId, LockHeld, KeepsDisk
  <2>4. QED
    BY <2>2, <2>3
<1>5. QED
  BY <1>1, <1>2, <1>4 DEF IInv

LEMMA WriteTmpStep ==
    ASSUME IInv, NEW p \in Proc, WriteTmp(p)
    PROVE  IInv'
<1>1. /\ \/ pc[p] = "mergeWrite" /\ pc' = [pc EXCEPT ![p] = "mergeReplace"]
         \/ pc[p] = "creditWrite" /\ pc' = [pc EXCEPT ![p] = "creditReplace"]
      /\ tmp' = [tmp EXCEPT ![PidOf[p]] = items[p]]
      /\ UNCHANGED <<disk, lock, items, nid, dirty, todo, ids, success, runs>>
  BY DEF WriteTmp, Goto, local
<1>2. TypeOK'
  BY <1>1 DEF IInv, TypeOK, Inside, MergeSave, CreditSave
<1>3. /\ pc[p] \in Inside /\ pc[p] \in Editing
      /\ pc'[p] \in {"mergeReplace", "creditReplace"}
      /\ \A q \in Proc \ {p} : pc'[q] = pc[q]
      /\ tmp'[PidOf[p]] = items[p]
      /\ \A f \in Pids \ {PidOf[p]} : tmp'[f] = tmp[f]
  BY <1>1 DEF IInv, TypeOK, Inside, Editing, MergeSave, CreditSave, Pids
<1>4. ASSUME NEW q \in Proc
      PROVE  /\ GoodStore(items'[q]) /\ FreshId(q)' /\ TmpWritten(q)'
             /\ LockHeld(q)' /\ KeepsDisk(q)'
  <2>1. /\ GoodStore(items[q]) /\ FreshId(q) /\ TmpWritten(q)
        /\ LockHeld(q) /\ KeepsDisk(q)
    BY DEF IInv
  <2>2. CASE q = p
    BY <1>1, <1>3, <2>1, <2>2
       DEF FreshId, TmpWritten, LockHeld, KeepsDisk
  <2>3. CASE q # p
    <3>1. TmpWritten(q)'
      <4> SUFFICES ASSUME pc[q] \in {"mergeReplace", "creditReplace"}
                   PROVE  tmp'[PidOf[q]] = items[q]
        BY <1>1, <1>3, <2>3 DEF TmpWritten
      <4>1. pc[q] \in Inside
        BY DEF Inside, MergeSave, CreditSave
      <4>2. PidOf[q] \in Pids \ {PidOf[p]}
        BY <1>3, <2>3, <4>1, OwnTmpFile DEF Pids
      <4>3. QED
        BY <1>3, <2>1, <4>2 DEF TmpWritten
    <3>2. QED
      BY <1>1, <1>3, <2>1, <2>3, <3>1 DEF FreshId, LockHeld, KeepsDisk
  <2>4. QED
    BY <2>2, <2>3
<1>5. QED
  BY <1>1, <1>2, <1>4 DEF IInv

\* What is published is the list p edited: complete, and under the lock a
\* later version of what it replaces.
LEMMA Publishes ==
    ASSUME IInv, NEW p \in Proc, ReplaceStore(p)
    PROVE  /\ disk' = items[p]
           /\ GoodStore(disk')
           /\ Locked => Evolves(disk, disk')
<1>1. pc[p] \in {"mergeReplace", "creditReplace"} /\ disk' = tmp[PidOf[p]]
  BY DEF ReplaceStore, Goto
<1>2. GoodStore(items[p]) /\ TmpWritten(p) /\ KeepsDisk(p)
  BY DEF IInv
<1>3. QED
  BY <1>1, <1>2 DEF TmpWritten, KeepsDisk, Editing, MergeSave, CreditSave

LEMMA ReplaceStoreStep ==
    ASSUME IInv, NEW p \in Proc, ReplaceStore(p)
    PROVE  IInv'
<1>1. /\ \/ pc[p] = "mergeReplace" /\ pc' = [pc EXCEPT ![p] = "creditLoad"]
         \/ pc[p] = "creditReplace" /\ pc' = [pc EXCEPT ![p] = "finish"]
      /\ tmp' = [tmp EXCEPT ![PidOf[p]] = NoFile]
      /\ UNCHANGED <<lock, items, nid, dirty, todo, ids, success, runs>>
  BY DEF ReplaceStore, Goto, local
<1>2. GoodStore(disk') /\ disk' \in Seq(Bullet)
  BY Publishes DEF GoodStore
<1>3. TypeOK'
  BY <1>1, <1>2 DEF IInv, TypeOK, Inside, MergeSave, CreditSave
<1>4. /\ pc[p] \in Inside
      /\ pc'[p] \in {"creditLoad", "finish"}
      /\ \A q \in Proc \ {p} : pc'[q] = pc[q]
      /\ \A f \in Pids \ {PidOf[p]} : tmp'[f] = tmp[f]
  BY <1>1 DEF IInv, TypeOK, Inside, MergeSave, CreditSave
<1>5. ASSUME NEW q \in Proc
      PROVE  /\ GoodStore(items'[q]) /\ FreshId(q)' /\ TmpWritten(q)'
             /\ LockHeld(q)' /\ KeepsDisk(q)'
  <2>1. /\ GoodStore(items[q]) /\ FreshId(q) /\ TmpWritten(q)
        /\ LockHeld(q) /\ LockHeld(p)
    BY DEF IInv
  <2>2. CASE q = p
    BY <1>1, <1>4, <2>1, <2>2
       DEF FreshId, TmpWritten, LockHeld, KeepsDisk, Editing, MergeSave,
           CreditSave
  <2>3. CASE q # p
    <3>1. TmpWritten(q)'
      <4> SUFFICES ASSUME pc[q] \in {"mergeReplace", "creditReplace"}
                   PROVE  tmp'[PidOf[q]] = items[q]
        BY <1>1, <1>4, <2>3 DEF TmpWritten
      <4>1. pc[q] \in Inside
        BY DEF Inside, MergeSave, CreditSave
      <4>2. PidOf[q] \in Pids \ {PidOf[p]}
        BY <1>4, <2>3, <4>1, OwnTmpFile DEF Pids
      <4>3. QED
        BY <1>4, <2>1, <4>2 DEF TmpWritten
    <3>2. Locked => pc[q] \notin Inside
      BY <1>4, <2>1, <2>3 DEF LockHeld
    <3>3. Locked => pc[q] \notin Editing
      BY <3>2 DEF Inside, Editing
    <3>4. QED
      BY <1>1, <1>4, <2>1, <2>3, <3>1, <3>3 DEF FreshId, LockHeld, KeepsDisk
  <2>4. QED
    BY <2>2, <2>3
<1>6. QED
  BY <1>2, <1>3, <1>5 DEF IInv

\* Only a replace writes the file.
LEMMA OnlyReplaceWrites ==
    ASSUME [Next]_vars, \A p \in Proc : ~ReplaceStore(p)
    PROVE  disk' = disk
<1>1. ASSUME NEW p \in Proc,
             Begin(p) \/ Acquire(p) \/ Merge(p) \/ Credit(p)
             \/ OpenTmp(p) \/ WriteTmp(p) \/ Finish(p) \/ Crash(p)
      PROVE  disk' = disk
  BY <1>1 DEF Begin, Acquire, Merge, Credit, OpenTmp, WriteTmp, Finish, Crash,
     MergeLoad, AddNew, AddDuplicate, Reinforce, Revise, SkipDelta,
     MalformedCaught, MalformedFatal, MergeEnd, CreditNone, CreditLoad,
     CreditBullet, CreditUnknown, CreditEnd
<1>2. CASE CrashAll \/ UNCHANGED vars
  BY <1>2 DEF CrashAll, vars
<1>3. QED
  BY <1>1, <1>2 DEF Next, Step, Save

-----------------------------------------------------------------------------
\* The theorems.

LEMMA NextIInv == IInv /\ [Next]_vars => IInv'
<1> SUFFICES ASSUME IInv, [Next]_vars PROVE IInv'
  OBVIOUS
<1>1. ASSUME NEW p \in Proc, Begin(p) PROVE IInv'
  BY <1>1, BeginStep
<1>2. ASSUME NEW p \in Proc, Acquire(p) PROVE IInv'
  BY <1>2, AcquireStep
<1>3. ASSUME NEW p \in Proc, Merge(p) PROVE IInv'
  BY <1>3, MergeLoadStep, AddNewStep, AddDuplicateStep, ReinforceStep,
     ReviseStep, SkipStep, MalformedCaughtStep, CrashStep, EndStep DEF Merge
<1>4. ASSUME NEW p \in Proc, Credit(p) PROVE IInv'
  BY <1>4, EndStep, CreditLoadStep, CreditBulletStep, SkipStep DEF Credit
<1>5. ASSUME NEW p \in Proc, Save(p) PROVE IInv'
  BY <1>5, OpenTmpStep, WriteTmpStep, ReplaceStoreStep DEF Save
<1>6. ASSUME NEW p \in Proc, Finish(p) PROVE IInv'
  BY <1>6, FinishStep
<1>7. ASSUME NEW p \in Proc, Crash(p) PROVE IInv'
  BY <1>7, CrashStep
<1>8. CASE CrashAll
  BY <1>8, CrashAllStep
<1>9. CASE UNCHANGED vars
  BY <1>9 DEF IInv, TypeOK, FreshId, TmpWritten, LockHeld, KeepsDisk, vars
<1>10. QED
  BY <1>1, <1>2, <1>3, <1>4, <1>5, <1>6, <1>7, <1>8, <1>9 DEF Next, Step

\* The strengthening is invariant.
LEMMA Invariant == Spec => []IInv
<1>1. QED
  BY InitIInv, NextIInv, PTL DEF Spec

\* Type correctness of the reflections, whatever their number.
THEOREM TypeCorrect == Spec => []TypeOK
<1>1. IInv => TypeOK
  BY DEF IInv
<1>2. QED
  BY <1>1, Invariant, PTL

\* No reader ever loads a half-written store (store._atomic_write), with
\* threads that share a pid under the lock or processes without one, and
\* wherever a process dies.
THEOREM AtomicReplacement == Spec => []NeverTorn
<1>1. IInv => NeverTorn
  BY ReflectionAssumption DEF IInv, GoodStore, NeverTorn
<1>2. QED
  BY <1>1, Invariant, PTL

\* Ids stay unique and in file order, even when writers overwrite each other.
THEOREM IdsStayUnique == Spec => []UniqueIds
<1>1. IInv => UniqueIds
  BY DEF IInv, GoodStore, UniqueIds
<1>2. QED
  BY <1>1, Invariant, PTL

\* Every published bullet's status agrees with its votes.
THEOREM StatusAgreesWithVotes == Spec => []SoundStore
<1>1. IInv => SoundStore
  BY DEF IInv, GoodStore, SoundStore
<1>2. QED
  BY <1>1, Invariant, PTL

\* Under STORE_LOCK no write of the store takes back an earlier one.
THEOREM LockedLosesNothing ==
    ASSUME Locked
    PROVE  Spec => NoLostUpdate
<1>1. IInv /\ [Next]_vars => [Evolves(disk, disk')]_disk
  <2> SUFFICES ASSUME IInv, [Next]_vars
               PROVE  [Evolves(disk, disk')]_disk
    OBVIOUS
  <2>1. ASSUME NEW p \in Proc, ReplaceStore(p)
        PROVE  Evolves(disk, disk')
    BY <2>1, Publishes
  <2>2. CASE \A p \in Proc : ~ReplaceStore(p)
    BY <2>2, OnlyReplaceWrites
  <2>3. QED
    BY <2>1, <2>2
<1>2. QED
  BY <1>1, Invariant, PTL DEF Spec, NoLostUpdate

-----------------------------------------------------------------------------
\* The abstract specification's functions of lists, against the steps that
\* compute them.

\* What merge's loop holds.
MergeStates == [items : Seq(Bullet), nid : Nat \ {0}]

\* The curator's functions, as AtomicStore sees them.
LEMMA SameCurator ==
    /\ \A s : Atomic!NextId(s) = NextId(s)
    /\ \A x, y : Atomic!NearDuplicate(x, y) = NearDuplicate(x, y)
    /\ \A n, x : Atomic!NewBullet(n, x) = NewBullet(n, x)
    /\ \A x : Atomic!BumpHelpful(x) = BumpHelpful(x)
    /\ \A x, h : Atomic!Reinforced(x, h) = Reinforced(x, h)
    /\ \A x, ok : Atomic!Credited(x, ok) = Credited(x, ok)
<1>1. \A s : Atomic!NextId(s) = NextId(s)
  BY DEF Atomic!NextId, NextId, Atomic!Max, Max
<1>2. \A x, y : Atomic!NearDuplicate(x, y) = NearDuplicate(x, y)
  BY DEF Atomic!NearDuplicate, NearDuplicate, Atomic!Cardinality, Cardinality
<1>3. \A n, x : Atomic!NewBullet(n, x) = NewBullet(n, x)
  BY DEF Atomic!NewBullet, NewBullet
<1>4. \A x : Atomic!BumpHelpful(x) = BumpHelpful(x)
  BY DEF Atomic!BumpHelpful, BumpHelpful
<1>5. \A x, h : Atomic!Reinforced(x, h) = Reinforced(x, h)
  BY DEF Atomic!Reinforced, Reinforced, Atomic!BumpHelpful, BumpHelpful,
     Atomic!BumpHarmful, BumpHarmful, Atomic!BumpUses, BumpUses,
     Atomic!Misleading, Misleading
<1>6. \A x, ok : Atomic!Credited(x, ok) = Credited(x, ok)
  BY DEF Atomic!Credited, Credited, Atomic!BumpHelpful, BumpHelpful,
     Atomic!BumpUses, BumpUses
<1>7. QED
  BY <1>1, <1>2, <1>3, <1>4, <1>5, <1>6

\* by_id finds the last bullet with this id ...
LEMMA ByIdFinds ==
    ASSUME NEW s \in Seq(Bullet), NEW id, NEW i \in DOMAIN s, IsById(id, s, i)
    PROVE  Atomic!ById(id, s) = i
<1> DEFINE At == {0} \cup {j \in DOMAIN s : s[j].id = id}
<1>1. i \in At /\ i \in Nat /\ \A j \in At : j \in Nat /\ i >= j
  BY DEF IsById
<1>2. Atomic!ById(id, s) = CHOOSE x \in At : \A y \in At : x >= y
  BY DEF Atomic!ById, Atomic!Max
<1> HIDE DEF At
<1>3. /\ (CHOOSE x \in At : \A y \in At : x >= y) \in At
      /\ (CHOOSE x \in At : \A y \in At : x >= y) >= i
  BY <1>1
<1>4. QED
  BY <1>1, <1>2, <1>3

\* ... or none.
LEMMA ByIdUnknown ==
    ASSUME NEW s \in Seq(Bullet), NEW id, ~KnownId(id, s)
    PROVE  Atomic!ById(id, s) = 0
<1> DEFINE At == {0} \cup {j \in DOMAIN s : s[j].id = id}
<1>1. At = {0}
  BY DEF KnownId
<1>2. Atomic!ById(id, s) = CHOOSE x \in At : \A y \in At : x >= y
  BY DEF Atomic!ById, Atomic!Max
<1> HIDE DEF At
<1>3. QED
  BY <1>1, <1>2

\* Of several near-duplicates the first is found.
LEMMA FirstDuplicateFound ==
    ASSUME NEW s \in Seq(Bullet), NEW c, NEW i \in DOMAIN s, IsFirstDuplicate(c, s, i),
           NEW Same, Same = {j \in DOMAIN s : NearDuplicate(c, s[j].content)}
    PROVE  Same # {} /\ Atomic!Min(Same) = i
<1>1. i \in Same /\ i \in Nat /\ \A j \in Same : j \in Nat /\ i <= j
  BY DEF IsFirstDuplicate
<1>2. /\ (CHOOSE x \in Same : \A y \in Same : x <= y) \in Same
      /\ (CHOOSE x \in Same : \A y \in Same : x <= y) <= i
  BY <1>1
<1>3. QED
  BY <1>1, <1>2 DEF Atomic!Min

\* A bullet in the place of another, and nothing outside of the list.
LEMMA EditInSeq ==
    ASSUME NEW s \in Seq(Bullet), NEW i, NEW b, i \in DOMAIN s => b \in Bullet
    PROVE  [s EXCEPT ![i] = b] \in Seq(Bullet)
<1>1. CASE i \in DOMAIN s
  BY <1>1
<1>2. CASE i \notin DOMAIN s
  <2>1. [s EXCEPT ![i] = b] = s
    BY <1>2
  <2>2. QED
    BY <2>1
<1>3. QED
  BY <1>1, <1>2

\* What the edits of a bullet are.
LEMMA EditsAreBullets ==
    ASSUME NEW b \in Bullet
    PROVE  /\ BumpHelpful(b) \in Bullet
           /\ \A h \in BOOLEAN : Reinforced(b, h) \in Bullet
           /\ \A ok \in BOOLEAN : Credited(b, ok) \in Bullet
           /\ \A c \in Content : [b EXCEPT !.content = c] \in Bullet
<1>1. BumpHelpful(b) \in Bullet
  BY Bumps
<1>2. ASSUME NEW h \in BOOLEAN PROVE Reinforced(b, h) \in Bullet
  <2> DEFINE v == IF h THEN BumpHelpful(BumpUses(b)) ELSE BumpHarmful(BumpUses(b))
  <2>1. v \in Bullet
    BY Bumps
  <2>2. Reinforced(b, h)
          = [v EXCEPT !.status = IF Misleading(v) THEN "deprecated" ELSE v.status]
    BY DEF Reinforced
  <2> HIDE DEF v
  <2>3. QED
    BY <2>1, <2>2 DEF Bullet, Status
<1>3. ASSUME NEW ok \in BOOLEAN PROVE Credited(b, ok) \in Bullet
  BY Bumps DEF Credited
<1>4. ASSUME NEW c \in Content PROVE [b EXCEPT !.content = c] \in Bullet
  BY DEF Bullet
<1>5. QED
  BY <1>1, <1>2, <1>3, <1>4

\* One turn of merge's loop stays among the states of the loop.
LEMMA AppliedStays ==
    ASSUME NEW s \in MergeStates, NEW d \in Delta
    PROVE  Atomic!Applied(s, d) \in MergeStates
<1> DEFINE its == s.items
           at == Atomic!ById(d.id, its)
           same == {i \in DOMAIN its :
                      d.content # Blank /\ Atomic!NearDuplicate(d.content, its[i].content)}
           first == Atomic!Min(same)
<1>1. /\ its \in Seq(Bullet) /\ s.nid \in Nat \ {0}
      /\ s = [items |-> its, nid |-> s.nid]
      /\ d.content \in Content \cup {Blank} /\ d.helpful \in BOOLEAN
  BY DEF MergeStates, Delta
<1>2. \A t \in Seq(Bullet) : [s EXCEPT !.items = t] \in MergeStates
  BY <1>1 DEF MergeStates
<1>3. \A i \in DOMAIN its : its[i] \in Bullet
  BY <1>1
<1>4. [its EXCEPT ![first] = BumpHelpful(its[first])] \in Seq(Bullet)
  BY <1>1, <1>3, EditsAreBullets, EditInSeq
<1>5. [its EXCEPT ![at] = Reinforced(its[at], d.helpful)] \in Seq(Bullet)
  BY <1>1, <1>3, EditsAreBullets, EditInSeq
<1>6. d.content # Blank =>
        [its EXCEPT ![at] = [its[at] EXCEPT !.content = d.content]] \in Seq(Bullet)
  BY <1>1, <1>3, EditsAreBullets, EditInSeq
<1>7. d.content # Blank =>
        [items |-> Append(its, NewBullet(s.nid, d.content)), nid |-> s.nid + 1]
          \in MergeStates
  <2> SUFFICES ASSUME d.content # Blank
               PROVE  Append(its, NewBullet(s.nid, d.content)) \in Seq(Bullet)
    BY <1>1 DEF MergeStates
  <2>1. NewBullet(s.nid, d.content) \in Bullet
    BY <1>1 DEF NewBullet, Bullet, Status
  <2>2. QED
    BY <1>1, <2>1
<1> DEFINE s1 == [s EXCEPT !.items = [its EXCEPT ![first] = BumpHelpful(its[first])]]
           s2 == [s EXCEPT !.items = [its EXCEPT ![at] = Reinforced(its[at], d.helpful)]]
           s3 == [s EXCEPT !.items = [its EXCEPT ![at] = [its[at] EXCEPT !.content = d.content]]]
           s4 == [items |-> Append(its, NewBullet(s.nid, d.content)), nid |-> s.nid + 1]
<1>8. \/ Atomic!Applied(s, d) = s1
      \/ Atomic!Applied(s, d) = s2
      \/ Atomic!Applied(s, d) = s3 /\ d.content # Blank
      \/ Atomic!Applied(s, d) = s4 /\ d.content # Blank
      \/ Atomic!Applied(s, d) = s
  BY SameCurator DEF Atomic!Applied
<1>9. s1 \in MergeStates /\ s2 \in MergeStates
  BY <1>2, <1>4, <1>5
<1>10. d.content # Blank => s3 \in MergeStates /\ s4 \in MergeStates
  BY <1>2, <1>6, <1>7
<1> HIDE DEF s1, s2, s3, s4
<1>11. QED
  BY <1>8, <1>9, <1>10

\* merge's loop: its first state, and every turn of it.
LEMMA MergingTurns ==
    ASSUME NEW s, GoodStore(s), NEW dl \in Seq(Delta)
    PROVE  /\ Atomic!Merging(s, dl)[0] = [items |-> s, nid |-> NextId(s)]
           /\ \A i \in 1 .. Len(dl) :
                Atomic!Merging(s, dl)[i] = Atomic!Applied(Atomic!Merging(s, dl)[i - 1], dl[i])
           /\ \A i \in 0 .. Len(dl) : Atomic!Merging(s, dl)[i] \in MergeStates
<1> DEFINE n == Len(dl)
           v0 == [items |-> s, nid |-> NextId(s)]
           step == [i \in 1 .. n |-> [v \in MergeStates |-> Atomic!Applied(v, dl[i])]]
           IsLoop(f) == f = [i \in 0 .. n |-> IF i = 0 THEN v0
                                              ELSE Atomic!Applied(f[i - 1], dl[i])]
           g == Atomic!Merging(s, dl)
<1>1. v0 \in MergeStates /\ n \in Nat /\ \A i \in 1 .. n : dl[i] \in Delta
  BY NextIdFresh DEF MergeStates, GoodStore
<1>2. step \in Turns(n, MergeStates)
  BY <1>1, AppliedStays DEF Turns
<1>3. g = CHOOSE f : IsLoop(f)
  BY SameCurator DEF Atomic!Merging
<1> HIDE DEF v0
<1>4. \E f : IsLoop(f)
  <2>1. PICK f : IsRun(f, MergeStates, v0, n, step)
    <3> HIDE DEF step, n
    <3>1. QED
      BY <1>1, <1>2, RecursionExists
  <2>2. ASSUME NEW i \in 1 .. n PROVE f[i] = Atomic!Applied(f[i - 1], dl[i])
    <3>1. f[i - 1] \in MergeStates
      BY <1>1, <2>1 DEF IsRun
    <3>2. f[i] = step[i][f[i - 1]]
      BY <2>1 DEF IsRun
    <3>3. QED
      BY <3>1, <3>2
  <2> HIDE DEF step
  <2>3. IsLoop(f)
    BY <1>1, <2>1, <2>2 DEF IsRun
  <2>4. QED
    BY <2>3
<1>5. IsLoop(g)
  <2> HIDE DEF IsLoop, g
  <2>1. QED
    BY <1>3, <1>4
<1> HIDE DEF g
<1>6. g[0] = v0 /\ \A i \in 1 .. n : g[i] = Atomic!Applied(g[i - 1], dl[i])
  BY <1>1, <1>5
<1>7. \A i \in 0 .. n : g[i] \in MergeStates
  <2> DEFINE S == {i \in 0 .. n : g[i] \in MergeStates}
  <2>1. 0 \in S
    BY <1>1, <1>6
  <2>2. ASSUME NEW i \in 1 .. n, i - 1 \in S PROVE i \in S
    <3>1. g[i - 1] \in MergeStates /\ dl[i] \in Delta
      BY <1>1, <2>2
    <3>2. QED
      BY <1>6, <3>1, AppliedStays
  <2> HIDE DEF S
  <2>3. 0 .. n \subseteq S
    BY <1>1, <2>1, <2>2, UpTo
  <2>4. QED
    BY <2>3 DEF S
<1>8. QED
  BY <1>6, <1>7 DEF g, v0

\* One turn of credit's loop stays a list of bullets.
LEMMA CreditedOneStays ==
    ASSUME NEW s \in Seq(Bullet), NEW id, NEW ok \in BOOLEAN
    PROVE  Atomic!CreditedOne(s, id, ok) \in Seq(Bullet)
<1> DEFINE at == Atomic!ById(id, s)
<1>1. at \in DOMAIN s => Credited(s[at], ok) \in Bullet
  BY EditsAreBullets
<1>2. [s EXCEPT ![at] = Credited(s[at], ok)] \in Seq(Bullet)
  BY <1>1, EditInSeq
<1>3. Atomic!CreditedOne(s, id, ok) \in {s, [s EXCEPT ![at] = Credited(s[at], ok)]}
  BY SameCurator DEF Atomic!CreditedOne
<1>4. QED
  BY <1>2, <1>3

\* credit's loop: its first state, and every turn of it.
LEMMA CreditingTurns ==
    ASSUME NEW s \in Seq(Bullet), NEW cl \in Seq(Nat), NEW ok \in BOOLEAN
    PROVE  /\ Atomic!Crediting(s, cl, ok)[0] = s
           /\ \A i \in 1 .. Len(cl) :
                Atomic!Crediting(s, cl, ok)[i]
                  = Atomic!CreditedOne(Atomic!Crediting(s, cl, ok)[i - 1], cl[i], ok)
           /\ \A i \in 0 .. Len(cl) : Atomic!Crediting(s, cl, ok)[i] \in Seq(Bullet)
<1> DEFINE n == Len(cl)
           V == Seq(Bullet)
           step == [i \in 1 .. n |-> [v \in V |-> Atomic!CreditedOne(v, cl[i], ok)]]
           IsLoop(f) == f = [i \in 0 .. n |-> IF i = 0 THEN s
                                              ELSE Atomic!CreditedOne(f[i - 1], cl[i], ok)]
           g == Atomic!Crediting(s, cl, ok)
<1>1. s \in V /\ n \in Nat
  OBVIOUS
<1>2. step \in Turns(n, V)
  BY CreditedOneStays DEF Turns
<1>3. g = CHOOSE f : IsLoop(f)
  BY DEF Atomic!Crediting
<1> HIDE DEF V
<1>4. \E f : IsLoop(f)
  <2>1. PICK f : IsRun(f, V, s, n, step)
    <3> HIDE DEF step, n
    <3>1. QED
      BY <1>1, <1>2, RecursionExists
  <2>2. ASSUME NEW i \in 1 .. n PROVE f[i] = Atomic!CreditedOne(f[i - 1], cl[i], ok)
    <3>1. f[i - 1] \in V
      BY <1>1, <2>1 DEF IsRun
    <3>2. f[i] = step[i][f[i - 1]]
      BY <2>1 DEF IsRun
    <3>3. QED
      BY <3>1, <3>2
  <2> HIDE DEF step
  <2>3. IsLoop(f)
    BY <1>1, <2>1, <2>2 DEF IsRun
  <2>4. QED
    BY <2>3
<1>5. IsLoop(g)
  <2> HIDE DEF IsLoop, g
  <2>1. QED
    BY <1>3, <1>4
<1> HIDE DEF g
<1>6. g[0] = s /\ \A i \in 1 .. n : g[i] = Atomic!CreditedOne(g[i - 1], cl[i], ok)
  BY <1>1, <1>5
<1>7. \A i \in 0 .. n : g[i] \in V
  <2> DEFINE S == {i \in 0 .. n : g[i] \in V}
  <2>1. 0 \in S
    BY <1>1, <1>6
  <2>2. ASSUME NEW i \in 1 .. n, i - 1 \in S PROVE i \in S
    BY <1>6, <2>2, CreditedOneStays DEF V
  <2> HIDE DEF S
  <2>3. 0 .. n \subseteq S
    BY <1>1, <2>1, <2>2, UpTo
  <2>4. QED
    BY <2>3 DEF S
<1>8. QED
  BY <1>6, <1>7 DEF g, V

-----------------------------------------------------------------------------
\* The steps of a reflection's loops, against the turns of the functions.

\* What the reflection holds, as the functions see it.
MergeState(p) == [items |-> items[p], nid |-> nid[p]]

\* Every step of the merge loop is a turn of Applied at the first delta left.
LEMMA MergeTurn ==
    ASSUME IInv, NEW p \in Proc,
           \/ AddNew(p) \/ AddDuplicate(p) \/ Reinforce(p)
           \/ Revise(p) \/ SkipDelta(p)
    PROVE  /\ pc[p] = "merge" /\ pc' = pc
           /\ todo[p] # <<>> /\ todo' = [todo EXCEPT ![p] = Tail(@)]
           /\ Head(todo[p]).op # "malformed"
           /\ MergeState(p)' = Atomic!Applied(MergeState(p), Head(todo[p]))
           /\ UNCHANGED <<disk, tmp, lock, ids, success>>
           /\ \A q \in Proc \ {p} :
                items'[q] = items[q] /\ nid'[q] = nid[q] /\ todo'[q] = todo[q]
<1> DEFINE s == MergeState(p)
           d == Head(todo[p])
           same == {i \in DOMAIN items[p] :
                      d.content # Blank /\ NearDuplicate(d.content, items[p][i].content)}
<1>1. /\ items \in [Proc -> Seq(Bullet)] /\ nid \in [Proc -> Nat \ {0}]
      /\ items[p] \in Seq(Bullet) /\ todo \in [Proc -> Seq(Delta)]
  BY DEF IInv, TypeOK
<1>2. s.items = items[p] /\ s.nid = nid[p]
  BY DEF MergeState
<1>3. \A t : /\ [s EXCEPT !.items = t] = [items |-> t, nid |-> nid[p]]
  BY DEF MergeState
<1>4. CASE AddNew(p)
  <2>1. /\ pc[p] = "merge" /\ d.op = "add" /\ todo[p] # <<>>
        /\ d.content # Blank
        /\ items' = [items EXCEPT ![p] = Append(items[p], NewBullet(nid[p], d.content))]
        /\ nid' = [nid EXCEPT ![p] = nid[p] + 1]
    BY <1>4 DEF AddNew, AtDelta
  <2>2. same = {}
    BY <1>4 DEF AddNew, HasDuplicate
  <2>3. Atomic!Applied(s, d) = [items |-> Append(items[p], NewBullet(nid[p], d.content)),
                                nid |-> nid[p] + 1]
    BY <1>2, <2>1, <2>2, SameCurator DEF Atomic!Applied
  <2>4. MergeState(p)' = Atomic!Applied(s, d)
    BY <1>1, <2>1, <2>3 DEF MergeState
  <2>5. QED
    BY <1>1, <1>4, <2>1, <2>4 DEF AddNew, NextDelta
<1>5. CASE AddDuplicate(p)
  <2>1. PICK i \in DOMAIN items[p] :
          /\ IsFirstDuplicate(d.content, items[p], i)
          /\ Edit(p, i, BumpHelpful(items[p][i]))
    BY <1>5 DEF AddDuplicate
  <2>2. /\ pc[p] = "merge" /\ d.op = "add" /\ todo[p] # <<>>
        /\ d.content # Blank /\ nid' = nid
        /\ items' = [items EXCEPT ![p] = [items[p] EXCEPT ![i] = BumpHelpful(items[p][i])]]
    BY <1>5, <2>1 DEF AddDuplicate, AtDelta, Edit
  <2>3. same # {} /\ Atomic!Min(same) = i
    <3>1. same = {j \in DOMAIN items[p] : NearDuplicate(d.content, items[p][j].content)}
      BY <2>2
    <3> HIDE DEF same, d
    <3>2. QED
      BY <1>1, <2>1, <3>1, FirstDuplicateFound
  <2>4. Atomic!Applied(s, d)
          = [items |-> [items[p] EXCEPT ![i] = BumpHelpful(items[p][i])], nid |-> nid[p]]
    BY <1>2, <1>3, <2>2, <2>3, SameCurator DEF Atomic!Applied
  <2>5. MergeState(p)' = Atomic!Applied(s, d)
    BY <1>1, <2>2, <2>4 DEF MergeState
  <2>6. QED
    BY <1>1, <1>5, <2>2, <2>5 DEF AddDuplicate, NextDelta
<1>6. CASE Reinforce(p)
  <2>1. PICK i \in DOMAIN items[p] :
          /\ IsById(d.id, items[p], i)
          /\ Edit(p, i, Reinforced(items[p][i], d.helpful))
    BY <1>6 DEF Reinforce
  <2>2. /\ pc[p] = "merge" /\ d.op = "reinforce" /\ todo[p] # <<>> /\ nid' = nid
        /\ items' = [items EXCEPT ![p] =
                       [items[p] EXCEPT ![i] = Reinforced(items[p][i], d.helpful)]]
    BY <1>6, <2>1 DEF Reinforce, AtDelta, Edit
  <2>3. Atomic!ById(d.id, items[p]) = i /\ i # 0
    BY <1>1, <2>1, ByIdFinds
  <2>4. Atomic!Applied(s, d)
          = [items |-> [items[p] EXCEPT ![i] = Reinforced(items[p][i], d.helpful)],
             nid |-> nid[p]]
    BY <1>2, <1>3, <2>2, <2>3, SameCurator DEF Atomic!Applied
  <2>5. MergeState(p)' = Atomic!Applied(s, d)
    BY <1>1, <2>2, <2>4 DEF MergeState
  <2>6. QED
    BY <1>1, <1>6, <2>2, <2>5 DEF Reinforce, NextDelta
<1>7. CASE Revise(p)
  <2>1. PICK i \in DOMAIN items[p] :
          /\ IsById(d.id, items[p], i)
          /\ Edit(p, i, [items[p][i] EXCEPT !.content = d.content])
    BY <1>7 DEF Revise
  <2>2. /\ pc[p] = "merge" /\ d.op = "revise" /\ todo[p] # <<>> /\ nid' = nid
        /\ d.content # Blank
        /\ items' = [items EXCEPT ![p] =
                       [items[p] EXCEPT ![i] = [items[p][i] EXCEPT !.content = d.content]]]
    BY <1>7, <2>1 DEF Revise, AtDelta, Edit
  <2>3. Atomic!ById(d.id, items[p]) = i /\ i # 0
    BY <1>1, <2>1, ByIdFinds
  <2>4. Atomic!Applied(s, d)
          = [items |-> [items[p] EXCEPT ![i] = [items[p][i] EXCEPT !.content = d.content]],
             nid |-> nid[p]]
    BY <1>2, <1>3, <2>2, <2>3, SameCurator DEF Atomic!Applied
  <2>5. MergeState(p)' = Atomic!Applied(s, d)
    BY <1>1, <2>2, <2>4 DEF MergeState
  <2>6. QED
    BY <1>1, <1>7, <2>2, <2>5 DEF Revise, NextDelta
<1>8. CASE SkipDelta(p)
  <2>1. /\ pc[p] = "merge" /\ todo[p] # <<>> /\ nid' = nid /\ items' = items
        /\ d.op \in {"other", "add", "reinforce", "revise"}
        /\ d.op = "add" => d.content = Blank
        /\ d.op = "reinforce" => ~KnownId(d.id, items[p])
        /\ d.op = "revise" => d.content = Blank \/ ~KnownId(d.id, items[p])
    BY <1>8 DEF SkipDelta, AtDelta
  <2>2. ~KnownId(d.id, items[p]) => Atomic!ById(d.id, items[p]) = 0
    BY <1>1, ByIdUnknown
  <2>3. Atomic!Applied(s, d) = s
    BY <1>2, <2>1, <2>2, SameCurator DEF Atomic!Applied
  <2>4. MergeState(p)' = Atomic!Applied(s, d)
    BY <2>1, <2>3 DEF MergeState
  <2>5. QED
    BY <1>1, <1>8, <2>1, <2>4 DEF SkipDelta, NextDelta
<1>9. QED
  BY <1>4, <1>5, <1>6, <1>7, <1>8

\* Every step of the credit loop is a turn of CreditedOne at the first id left.
LEMMA CreditTurn ==
    ASSUME IInv, NEW p \in Proc, CreditBullet(p) \/ CreditUnknown(p)
    PROVE  /\ pc[p] = "credit" /\ pc' = pc
           /\ ids[p] # <<>> /\ ids' = [ids EXCEPT ![p] = Tail(@)]
           /\ items'[p] = Atomic!CreditedOne(items[p], Head(ids[p]), success[p])
           /\ UNCHANGED <<disk, tmp, lock, nid, todo, success>>
           /\ \A q \in Proc \ {p} : items'[q] = items[q] /\ ids'[q] = ids[q]
<1>1. /\ items \in [Proc -> Seq(Bullet)] /\ items[p] \in Seq(Bullet)
      /\ ids \in [Proc -> Seq(Nat)]
  BY DEF IInv, TypeOK
<1>2. CASE CreditBullet(p)
  <2>1. PICK i \in DOMAIN items[p] :
          /\ IsById(Head(ids[p]), items[p], i)
          /\ Edit(p, i, Credited(items[p][i], success[p]))
    BY <1>2 DEF CreditBullet
  <2>2. Atomic!ById(Head(ids[p]), items[p]) = i /\ i # 0
    BY <1>1, <2>1, ByIdFinds
  <2>3. items' = [items EXCEPT ![p] =
                    [items[p] EXCEPT ![i] = Credited(items[p][i], success[p])]]
    BY <2>1 DEF Edit
  <2>4. Atomic!CreditedOne(items[p], Head(ids[p]), success[p])
          = [items[p] EXCEPT ![i] = Credited(items[p][i], success[p])]
    BY <2>2, SameCurator DEF Atomic!CreditedOne
  <2>5. items'[p] = Atomic!CreditedOne(items[p], Head(ids[p]), success[p])
    BY <1>1, <2>3, <2>4
  <2>6. QED
    BY <1>1, <1>2, <2>3, <2>5 DEF CreditBullet
<1>3. CASE CreditUnknown(p)
  <2>1. Atomic!ById(Head(ids[p]), items[p]) = 0 /\ items' = items
    BY <1>1, <1>3, ByIdUnknown DEF CreditUnknown
  <2>2. items'[p] = Atomic!CreditedOne(items[p], Head(ids[p]), success[p])
    BY <2>1 DEF Atomic!CreditedOne
  <2>3. QED
    BY <1>1, <1>3, <2>1, <2>2 DEF CreditUnknown
<1>4. QED
  BY <1>2, <1>3

-----------------------------------------------------------------------------
\* Under the lock every reflection's copy is what its loop has made of the
\* file, which nobody else replaces meanwhile.

\* What is left of a list behind its first k elements.
Rest(list, k, left) ==
    /\ Len(left) = Len(list) - k
    /\ \A j \in 1 .. Len(left) : left[j] = list[k + j]

\* The answers of the Reflector wait for their turn.
AnswersWait(p) ==
    /\ pc[p] \in {"lock", "mergeLoad"} => todo[p] \in DeltaLists
    /\ pc[p] \in {"lock", "mergeLoad", "merge", "creditLoad"} \cup MergeSave =>
         ids[p] \in CreditLists

\* p stands behind the first k turns of merge's loop over dl.
MergedSoFar(p, dl, k) ==
    /\ Rest(dl, k, todo[p])
    /\ \A j \in 1 .. k : dl[j].op # "malformed"
    /\ MergeState(p) = Atomic!Merging(disk, dl)[k]

MergeTracks(p) ==
    /\ pc[p] \in {"merge"} \cup MergeSave =>
         \E dl \in DeltaLists : \E k \in 0 .. Len(dl) : MergedSoFar(p, dl, k)
    /\ pc[p] \in MergeSave => todo[p] = <<>>

\* p stands behind the first k turns of credit's loop over cl.
CreditedSoFar(p, cl, k) ==
    /\ Rest(cl, k, ids[p])
    /\ items[p] = Atomic!Crediting(disk, cl, success[p])[k]

CreditTracks(p) ==
    /\ pc[p] \in {"credit"} \cup CreditSave =>
         \E cl \in CreditLists : \E k \in 0 .. Len(cl) : CreditedSoFar(p, cl, k)
    /\ pc[p] \in CreditSave => ids[p] = <<>>

Tracks(p) == AnswersWait(p) /\ MergeTracks(p) /\ CreditTracks(p)

TracksInv == \A p \in Proc : Tracks(p)

\* Taking the first of what is left.
LEMMA RestOfTail ==
    ASSUME NEW D, NEW list \in Seq(D), NEW left \in Seq(D), left # <<>>,
           NEW k \in 0 .. Len(list), Rest(list, k, left)
    PROVE  /\ k + 1 \in 1 .. Len(list)
           /\ Head(left) = list[k + 1]
           /\ Rest(list, k + 1, Tail(left))
<1>1. /\ Len(left) \in Nat /\ Len(left) > 0 /\ Len(list) \in Nat
      /\ Head(left) = left[1]
      /\ Len(Tail(left)) = Len(left) - 1
      /\ \A j \in 1 .. Len(left) - 1 : Tail(left)[j] = left[j + 1]
  OBVIOUS
<1>2. k + 1 \in 1 .. Len(list) /\ Head(left) = list[k + 1]
  BY <1>1 DEF Rest
<1>3. Len(Tail(left)) = Len(list) - (k + 1)
  BY <1>1 DEF Rest
<1>4. ASSUME NEW j \in 1 .. Len(Tail(left))
      PROVE  Tail(left)[j] = list[(k + 1) + j]
  <2>1. /\ j \in 1 .. Len(left) - 1 /\ j + 1 \in 1 .. Len(left)
        /\ k + (j + 1) = (k + 1) + j
    BY <1>1, <1>4
  <2>2. Tail(left)[j] = left[j + 1] /\ left[j + 1] = list[k + (j + 1)]
    BY <1>1, <2>1 DEF Rest
  <2>3. QED
    BY <2>1, <2>2
<1>5. QED
  BY <1>2, <1>3, <1>4 DEF Rest

\* Whoever does not move keeps track, unless the file changes under its copy.
LEMMA TracksStays ==
    ASSUME NEW q \in Proc, Tracks(q),
           pc'[q] = pc[q], items'[q] = items[q], nid'[q] = nid[q],
           todo'[q] = todo[q], ids'[q] = ids[q], success'[q] = success[q],
           disk' = disk \/ pc[q] \notin Inside
    PROVE  Tracks(q)'
<1>1. AnswersWait(q)'
  BY DEF Tracks, AnswersWait
<1>2. CASE disk' = disk
  <2>1. MergeTracks(q)'
    BY <1>2 DEF Tracks, MergeTracks, MergedSoFar, MergeState
  <2>2. CreditTracks(q)'
    BY <1>2 DEF Tracks, CreditTracks, CreditedSoFar
  <2>3. QED
    BY <1>1, <2>1, <2>2 DEF Tracks
<1>3. CASE pc[q] \notin Inside
  BY <1>1, <1>3 DEF Tracks, MergeTracks, CreditTracks, Inside, MergeSave, CreditSave
<1>4. QED
  BY <1>2, <1>3

\* p moves on with its copy and the file as they are, in the same loop or
\* behind it.
LEMMA TracksMoves ==
    ASSUME NEW p \in Proc, Tracks(p), UNCHANGED <<disk, items, nid, ids, success>>,
           todo' = todo \/ pc'[p] \notin {"merge"} \cup MergeSave,
           pc'[p] \notin {"lock", "mergeLoad"},
           pc'[p] \in {"merge"} \cup MergeSave => pc[p] \in {"merge"} \cup MergeSave,
           pc'[p] \in MergeSave => todo[p] = <<>>,
           pc'[p] = "creditLoad" => pc[p] \in {"merge"} \cup MergeSave,
           pc'[p] \in {"credit"} \cup CreditSave => pc[p] \in {"credit"} \cup CreditSave,
           pc'[p] \in CreditSave => ids[p] = <<>>
    PROVE  Tracks(p)'
<1>1. AnswersWait(p)'
  BY DEF Tracks, AnswersWait, MergeSave
<1>2. MergeTracks(p)'
  <2>1. CASE todo' = todo
    BY <2>1 DEF Tracks, MergeTracks, MergedSoFar, MergeState
  <2>2. CASE pc'[p] \notin {"merge"} \cup MergeSave
    BY <2>2 DEF MergeTracks
  <2>3. QED
    BY <2>1, <2>2
<1>3. CreditTracks(p)'
  BY DEF Tracks, CreditTracks, CreditedSoFar
<1>4. QED
  BY <1>1, <1>2, <1>3 DEF Tracks

LEMMA TracksBegin ==
    ASSUME Locked, IInv, NEW p \in Proc, Begin(p)
    PROVE  Tracks(p)'
<1>1. /\ pc'[p] = "lock" /\ todo'[p] \in DeltaLists /\ ids'[p] \in CreditLists
  BY DEF Begin, Goto, IInv, TypeOK
<1>2. QED
  BY <1>1 DEF Tracks, AnswersWait, MergeTracks, CreditTracks, MergeSave, CreditSave

LEMMA TracksAcquire ==
    ASSUME IInv, NEW p \in Proc, Tracks(p), Acquire(p)
    PROVE  Tracks(p)'
<1>1. /\ pc[p] = "lock" /\ pc'[p] = "mergeLoad" /\ todo' = todo /\ ids' = ids
  BY DEF Acquire, Goto, IInv, TypeOK, local
<1>2. QED
  BY <1>1 DEF Tracks, AnswersWait, MergeTracks, CreditTracks, MergeSave, CreditSave

LEMMA TracksMergeLoad ==
    ASSUME IInv, NEW p \in Proc, Tracks(p), MergeLoad(p)
    PROVE  Tracks(p)'
<1>1. /\ pc[p] = "mergeLoad" /\ pc'[p] = "merge"
      /\ items'[p] = disk /\ nid'[p] = NextId(disk)
      /\ UNCHANGED <<disk, todo, ids>>
  BY LoadedGood DEF MergeLoad, Goto, IInv, TypeOK
<1>2. todo[p] \in DeltaLists /\ ids[p] \in CreditLists
  BY <1>1 DEF Tracks, AnswersWait
<1>3. todo[p] \in Seq(Delta) /\ GoodStore(disk)
  BY DEF IInv, TypeOK
<1>4. 0 \in 0 .. Len(todo[p]) /\ Rest(todo[p], 0, todo[p])
  BY <1>3 DEF Rest
<1>5. MergedSoFar(p, todo[p], 0)'
  BY <1>1, <1>3, <1>4, MergingTurns DEF MergedSoFar, MergeState
<1>6. QED
  BY <1>1, <1>2, <1>4, <1>5
     DEF Tracks, AnswersWait, MergeTracks, CreditTracks, MergeSave, CreditSave

LEMMA TracksMergeTurn ==
    ASSUME IInv, NEW p \in Proc, Tracks(p),
           \/ AddNew(p) \/ AddDuplicate(p) \/ Reinforce(p)
           \/ Revise(p) \/ SkipDelta(p)
    PROVE  Tracks(p)'
<1>1. /\ pc[p] = "merge" /\ pc' = pc
      /\ todo[p] # <<>> /\ todo'[p] = Tail(todo[p])
      /\ Head(todo[p]).op # "malformed"
      /\ MergeState(p)' = Atomic!Applied(MergeState(p), Head(todo[p]))
      /\ disk' = disk /\ ids' = ids
  BY MergeTurn DEF IInv, TypeOK
<1>2. PICK dl \in DeltaLists : \E k \in 0 .. Len(dl) : MergedSoFar(p, dl, k)
  BY <1>1 DEF Tracks, MergeTracks
<1>3. PICK k \in 0 .. Len(dl) : MergedSoFar(p, dl, k)
  BY <1>2
<1>4. dl \in Seq(Delta) /\ todo[p] \in Seq(Delta) /\ GoodStore(disk)
  BY ReflectionAssumption DEF IInv, TypeOK
<1>5. /\ k + 1 \in 1 .. Len(dl) /\ Head(todo[p]) = dl[k + 1]
      /\ Rest(dl, k + 1, Tail(todo[p]))
  BY <1>1, <1>3, <1>4, RestOfTail DEF MergedSoFar
<1>6. Atomic!Merging(disk, dl)[k + 1] = Atomic!Applied(Atomic!Merging(disk, dl)[k], dl[k + 1])
  <2>1. (k + 1) - 1 = k
    BY <1>3, <1>4
  <2>2. QED
    BY <1>4, <1>5, <2>1, MergingTurns
<1>7. \A j \in 1 .. k + 1 : dl[j].op # "malformed"
  BY <1>1, <1>3, <1>4, <1>5 DEF MergedSoFar
<1>8. MergedSoFar(p, dl, k + 1)'
  <2>1. MergeState(p)' = Atomic!Merging(disk, dl)[k + 1]
    BY <1>1, <1>3, <1>5, <1>6 DEF MergedSoFar
  <2>2. QED
    BY <1>1, <1>5, <1>7, <2>1 DEF MergedSoFar
<1>9. k + 1 \in 0 .. Len(dl)
  BY <1>4, <1>5
<1>10. QED
  BY <1>1, <1>8, <1>9
     DEF Tracks, AnswersWait, MergeTracks, CreditTracks, MergeSave, CreditSave

LEMMA TracksCreditLoad ==
    ASSUME IInv, NEW p \in Proc, Tracks(p), CreditLoad(p)
    PROVE  Tracks(p)'
<1>1. /\ pc[p] = "creditLoad" /\ pc'[p] = "credit"
      /\ items'[p] = disk /\ UNCHANGED <<disk, ids, success>>
  BY LoadedGood DEF CreditLoad, Goto, IInv, TypeOK
<1>2. ids[p] \in CreditLists
  BY <1>1 DEF Tracks, AnswersWait
<1>3. /\ ids[p] \in Seq(Nat) /\ disk \in Seq(Bullet) /\ success[p] \in BOOLEAN
  BY DEF IInv, TypeOK, GoodStore
<1>4. 0 \in 0 .. Len(ids[p]) /\ Rest(ids[p], 0, ids[p])
  BY <1>3 DEF Rest
<1>5. CreditedSoFar(p, ids[p], 0)'
  BY <1>1, <1>3, <1>4, CreditingTurns DEF CreditedSoFar
<1>6. QED
  BY <1>1, <1>2, <1>4, <1>5
     DEF Tracks, AnswersWait, MergeTracks, CreditTracks, MergeSave, CreditSave

LEMMA TracksCreditTurn ==
    ASSUME IInv, NEW p \in Proc, Tracks(p), CreditBullet(p) \/ CreditUnknown(p)
    PROVE  Tracks(p)'
<1>1. /\ pc[p] = "credit" /\ pc' = pc
      /\ ids[p] # <<>> /\ ids'[p] = Tail(ids[p])
      /\ items'[p] = Atomic!CreditedOne(items[p], Head(ids[p]), success[p])
      /\ disk' = disk /\ success' = success
  BY CreditTurn DEF IInv, TypeOK
<1>2. PICK cl \in CreditLists : \E k \in 0 .. Len(cl) : CreditedSoFar(p, cl, k)
  BY <1>1 DEF Tracks, CreditTracks
<1>3. PICK k \in 0 .. Len(cl) : CreditedSoFar(p, cl, k)
  BY <1>2
<1>4. /\ cl \in Seq(Nat) /\ ids[p] \in Seq(Nat) /\ disk \in Seq(Bullet)
      /\ success[p] \in BOOLEAN
  BY ReflectionAssumption DEF IInv, TypeOK, GoodStore
<1>5. /\ k + 1 \in 1 .. Len(cl) /\ Head(ids[p]) = cl[k + 1]
      /\ Rest(cl, k + 1, Tail(ids[p]))
  BY <1>1, <1>3, <1>4, RestOfTail DEF CreditedSoFar
<1>6. Atomic!Crediting(disk, cl, success[p])[k + 1]
        = Atomic!CreditedOne(Atomic!Crediting(disk, cl, success[p])[k], cl[k + 1], success[p])
  <2>1. (k + 1) - 1 = k
    BY <1>3, <1>4
  <2>2. \A i \in 1 .. Len(cl) :
          Atomic!Crediting(disk, cl, success[p])[i]
            = Atomic!CreditedOne(Atomic!Crediting(disk, cl, success[p])[i - 1], cl[i], success[p])
    BY <1>4, CreditingTurns
  <2>3. QED
    BY <1>5, <2>1, <2>2
<1>7. CreditedSoFar(p, cl, k + 1)'
  <2>1. items'[p] = Atomic!Crediting(disk, cl, success[p])[k + 1]
    BY <1>1, <1>3, <1>5, <1>6 DEF CreditedSoFar
  <2>2. QED
    BY <1>1, <1>5, <2>1 DEF CreditedSoFar
<1>8. k + 1 \in 0 .. Len(cl)
  BY <1>4, <1>5
<1>9. QED
  BY <1>1, <1>7, <1>8
     DEF Tracks, AnswersWait, MergeTracks, CreditTracks, MergeSave, CreditSave

\* The steps between the loops, and those of a save.
LEMMA TracksSteps ==
    ASSUME Locked, IInv, NEW p \in Proc, Tracks(p),
           \/ MalformedCaught(p) \/ MergeEnd(p)
           \/ CreditNone(p) \/ CreditEnd(p) \/ OpenTmp(p) \/ WriteTmp(p)
    PROVE  Tracks(p)'
<1> USE DEF IInv, TypeOK, Goto, MergeSave, CreditSave, local
<1>1. CASE MalformedCaught(p)
  BY <1>1, TracksMoves DEF MalformedCaught
<1>2. CASE MergeEnd(p)
  BY <1>2, TracksMoves DEF MergeEnd
<1>3. CASE CreditNone(p)
  BY <1>3, TracksMoves DEF CreditNone
<1>4. CASE CreditEnd(p)
  BY <1>4, TracksMoves DEF CreditEnd
<1>5. CASE OpenTmp(p)
  BY <1>5, TracksMoves DEF OpenTmp, Tracks, MergeTracks, CreditTracks
<1>6. CASE WriteTmp(p)
  BY <1>6, TracksMoves DEF WriteTmp, Tracks, MergeTracks, CreditTracks
<1>7. QED
  BY <1>1, <1>2, <1>3, <1>4, <1>5, <1>6

LEMMA TracksReplace ==
    ASSUME IInv, NEW p \in Proc, Tracks(p), ReplaceStore(p) \/ Finish(p)
    PROVE  Tracks(p)'
<1>1. CASE ReplaceStore(p)
  <2>1. /\ \/ pc[p] \in MergeSave /\ pc'[p] = "creditLoad"
           \/ pc'[p] = "finish"
        /\ ids' = ids
    BY <1>1 DEF ReplaceStore, Goto, IInv, TypeOK, local, MergeSave
  <2>2. QED
    BY <2>1 DEF Tracks, AnswersWait, MergeTracks, CreditTracks, MergeSave, CreditSave
<1>2. CASE Finish(p)
  <2>1. pc'[p] = "idle"
    BY <1>2 DEF Finish, Goto, IInv, TypeOK
  <2>2. QED
    BY <2>1 DEF Tracks, AnswersWait, MergeTracks, CreditTracks, MergeSave, CreditSave
<1>3. QED
  BY <1>1, <1>2

\* A step of p leaves the rest alone, and the file to whoever is inside.
LEMMA StepOfOne ==
    ASSUME Locked, IInv, NEW p \in Proc, Begin(p) \/ Step(p),
           NEW q \in Proc \ {p}
    PROVE  /\ pc'[q] = pc[q] /\ items'[q] = items[q] /\ nid'[q] = nid[q]
           /\ todo'[q] = todo[q] /\ ids'[q] = ids[q] /\ success'[q] = success[q]
           /\ disk' = disk \/ pc[q] \notin Inside
<1> USE DEF IInv, TypeOK
<1>1. CASE Begin(p)
  BY <1>1 DEF Begin, Goto
<1>2. CASE \/ Acquire(p) \/ MergeEnd(p) \/ CreditNone(p) \/ CreditEnd(p)
           \/ OpenTmp(p) \/ WriteTmp(p)
  BY <1>2 DEF Acquire, MergeEnd, CreditNone, CreditEnd, OpenTmp, WriteTmp, Goto, local
<1>3. CASE MergeLoad(p) \/ CreditLoad(p) \/ MalformedCaught(p)
  BY <1>3 DEF MergeLoad, CreditLoad, MalformedCaught, Goto
<1>4. CASE AddNew(p) \/ AddDuplicate(p) \/ Reinforce(p) \/ Revise(p) \/ SkipDelta(p)
  BY <1>4, MergeTurn
<1>5. CASE CreditBullet(p) \/ CreditUnknown(p)
  BY <1>5, CreditTurn
<1>6. CASE ReplaceStore(p)
  <2>1. pc[p] \in Inside /\ UNCHANGED local
    BY <1>6 DEF ReplaceStore, Goto, Inside, MergeSave, CreditSave
  <2>2. pc[q] \notin Inside
    BY <2>1 DEF LockHeld
  <2>3. QED
    BY <1>6, <2>1, <2>2 DEF ReplaceStore, Goto, local
<1>7. CASE Finish(p)
  BY <1>7 DEF Finish, Goto, Forget
<1>8. ~MalformedFatal(p)
  BY DEF MalformedFatal
<1>9. QED
  BY <1>1, <1>2, <1>3, <1>4, <1>5, <1>6, <1>7, <1>8 DEF Step, Merge, Credit, Save

LEMMA TracksNext ==
    ASSUME Locked, IInv, TracksInv, [Next]_vars
    PROVE  TracksInv'
<1>1. ASSUME NEW p \in Proc, Begin(p) \/ Step(p)
      PROVE  TracksInv'
  <2>1. Tracks(p)'
    <3>1. ~MalformedFatal(p)
      BY DEF MalformedFatal
    <3>2. QED
      BY <1>1, <3>1, TracksBegin, TracksAcquire, TracksMergeLoad, TracksMergeTurn,
         TracksCreditLoad, TracksCreditTurn, TracksSteps, TracksReplace
         DEF TracksInv, Step, Merge, Credit, Save
  <2>2. ASSUME NEW q \in Proc \ {p} PROVE Tracks(q)'
    BY <1>1, StepOfOne, TracksStays DEF TracksInv
  <2>3. QED
    BY <2>1, <2>2 DEF TracksInv
<1>2. ASSUME NEW p \in Proc, Crash(p) PROVE FALSE
  BY <1>2 DEF Crash
<1>3. CASE CrashAll
  <2>1. \A p \in Proc : pc'[p] = "idle"
    BY <1>3 DEF CrashAll
  <2>2. QED
    BY <2>1 DEF TracksInv, Tracks, AnswersWait, MergeTracks, CreditTracks, MergeSave, CreditSave
<1>4. CASE UNCHANGED vars
  <2>1. ASSUME NEW q \in Proc PROVE Tracks(q)'
    BY <1>4, TracksStays DEF TracksInv, vars
  <2>2. QED
    BY <2>1 DEF TracksInv
<1>5. QED
  BY <1>1, <1>2, <1>3, <1>4 DEF Next

\* A step that replaces the file is a whole merge or a whole credit.
LEMMA ReplacesWhole ==
    ASSUME Locked, IInv, NEW p \in Proc, Tracks(p), ReplaceStore(p)
    PROVE  Atomic!Next
<1>1. disk' = items[p] /\ pc[p] \in {"mergeReplace", "creditReplace"}
  BY Publishes DEF ReplaceStore, Goto
<1>2. CASE pc[p] = "mergeReplace"
  <2>1. PICK dl \in DeltaLists : \E k \in 0 .. Len(dl) : MergedSoFar(p, dl, k)
    BY <1>2 DEF Tracks, MergeTracks, MergeSave
  <2>2. PICK k \in 0 .. Len(dl) : MergedSoFar(p, dl, k)
    BY <2>1
  <2>3. dl \in Seq(Delta) /\ todo[p] = <<>>
    BY <1>2, ReflectionAssumption DEF Tracks, MergeTracks, MergeSave
  <2>4. k = Len(dl)
    BY <2>2, <2>3 DEF MergedSoFar, Rest
  <2>5. /\ ~ \E j \in DOMAIN dl : dl[j].op = "malformed"
        /\ items[p] = Atomic!Merging(disk, dl)[Len(dl)].items
    BY <2>2, <2>3, <2>4 DEF MergedSoFar, MergeState
  <2>6. disk' = Atomic!Merged(disk, dl)
    BY <1>1, <2>5 DEF Atomic!Merged
  <2>7. QED
    BY <2>6 DEF Atomic!Next, Atomic!MergeAtomically
<1>3. CASE pc[p] = "creditReplace"
  <2>1. PICK cl \in CreditLists : \E k \in 0 .. Len(cl) : CreditedSoFar(p, cl, k)
    BY <1>3 DEF Tracks, CreditTracks, CreditSave
  <2>2. PICK k \in 0 .. Len(cl) : CreditedSoFar(p, cl, k)
    BY <2>1
  <2>3. cl \in Seq(Nat) /\ ids[p] = <<>> /\ success[p] \in BOOLEAN
    BY <1>3, ReflectionAssumption DEF Tracks, CreditTracks, CreditSave, IInv, TypeOK
  <2>4. k = Len(cl)
    BY <2>2, <2>3 DEF CreditedSoFar, Rest
  <2>5. disk' = Atomic!CreditedAll(disk, cl, success[p])
    BY <1>1, <2>2, <2>4 DEF CreditedSoFar, Atomic!CreditedAll
  <2>6. QED
    BY <2>3, <2>5 DEF Atomic!Next, Atomic!CreditAtomically
<1>4. QED
  BY <1>1, <1>2, <1>3

\* Under STORE_LOCK learning is serializable: whatever the threads' steps, the
\* file goes from the result of one whole merge or credit to that of another.
THEOREM LockedIsAtomic ==
    ASSUME Locked
    PROVE  Spec => RefinesAtomicStore
<1>1. Init => TracksInv
  BY DEF Init, TracksInv, Tracks, AnswersWait, MergeTracks, CreditTracks, MergeSave, CreditSave
<1>2. IInv /\ TracksInv /\ [Next]_vars => TracksInv'
  BY TracksNext
<1>3. Init => Atomic!Init
  BY DEF Init, Atomic!Init
<1>4. IInv /\ TracksInv /\ [Next]_vars => [Atomic!Next]_disk
  <2> SUFFICES ASSUME IInv, TracksInv, [Next]_vars
               PROVE  [Atomic!Next]_disk
    OBVIOUS
  <2>1. ASSUME NEW p \in Proc, ReplaceStore(p) PROVE Atomic!Next
    BY <2>1, ReplacesWhole DEF TracksInv
  <2>2. CASE \A p \in Proc : ~ReplaceStore(p)
    BY <2>2, OnlyReplaceWrites
  <2>3. QED
    BY <2>1, <2>2
<1>5. QED
  BY <1>1, <1>2, <1>3, <1>4, Invariant, PTL DEF Spec, RefinesAtomicStore, Atomic!Spec
-----------------------------------------------------------------------------
\* What the abstract specification keeps, by itself.

\* A state of merge's loop that continues a store: good, with room for new ids.
Continues(old, s) ==
    /\ s \in MergeStates
    /\ GoodStore(s.items)
    /\ \A i \in DOMAIN s.items : s.items[i].id < s.nid
    /\ Evolves(old, s.items)

\* by_id finds a bullet of the list, or none.
LEMMA ByIdInList ==
    ASSUME NEW s \in Seq(Bullet), NEW id
    PROVE  Atomic!ById(id, s) = 0 \/ Atomic!ById(id, s) \in DOMAIN s
<1>1. CASE KnownId(id, s)
  <2> DEFINE At == {j \in DOMAIN s : s[j].id = id}
             Back == {k \in Nat : \E j \in At : k = Len(s) - j}
  <2>1. PICK j \in At : TRUE
    BY <1>1 DEF KnownId
  <2>2. Len(s) \in Nat /\ \A k \in At : k \in 1 .. Len(s)
    OBVIOUS
  <2>3. Back \in SUBSET Nat /\ Len(s) - j \in Back
    BY <2>1, <2>2
  <2>4. PICK m \in Back : \A k \in Back : m <= k
    BY <2>3, LeastNatural
  <2>5. PICK i \in At : m = Len(s) - i
    BY <2>4
  <2>6. \A k \in At : Len(s) - k \in Back
    BY <2>2
  <2>7. ASSUME NEW k \in At PROVE i >= k
    <3> HIDE DEF At, Back
    <3>1. k \in 1 .. Len(s) /\ i \in 1 .. Len(s)
      BY <2>2
    <3>2. m <= Len(s) - k
      BY <2>4, <2>6
    <3>3. QED
      BY <2>2, <2>5, <3>1, <3>2
  <2>8. i \in DOMAIN s /\ IsById(id, s, i)
    BY <2>2, <2>5, <2>7 DEF IsById
  <2>9. QED
    BY <2>8, ByIdFinds
<1>2. CASE ~KnownId(id, s)
  BY <1>2, ByIdUnknown
<1>3. QED
  BY <1>1, <1>2

\* Improving a bullet of the list continues the store.
LEMMA EditContinues ==
    ASSUME NEW old \in Seq(Bullet), NEW s, Continues(old, s),
           NEW i \in DOMAIN s.items, NEW b, Improves(s.items[i], b)
    PROVE  Continues(old, [s EXCEPT !.items = [s.items EXCEPT ![i] = b]])
<1> DEFINE its == s.items
           t == [its EXCEPT ![i] = b]
<1>1. /\ GoodStore(its) /\ its \in Seq(Bullet) /\ Evolves(old, its)
      /\ s \in MergeStates
  BY DEF Continues, GoodStore
<1>2. /\ GoodStore(t) /\ t \in Seq(Bullet) /\ DOMAIN t = DOMAIN its
      /\ \A j \in DOMAIN its : t[j].id = its[j].id
  BY <1>1, EditGood DEF GoodStore
<1>3. Evolves(old, t)
  BY <1>1, EditEvolves
<1> HIDE DEF t
<1>4. /\ [s EXCEPT !.items = t] \in MergeStates
      /\ [s EXCEPT !.items = t].items = t
      /\ [s EXCEPT !.items = t].nid = s.nid
  BY <1>1, <1>2 DEF MergeStates
<1>5. Continues(old, [s EXCEPT !.items = t])
  BY <1>2, <1>3, <1>4 DEF Continues
<1>6. QED
  BY <1>5 DEF t

\* A new bullet under the next id continues the store.
LEMMA AppendContinues ==
    ASSUME NEW old \in Seq(Bullet), NEW s, Continues(old, s), NEW c \in Content
    PROVE  Continues(old, [items |-> Append(s.items, NewBullet(s.nid, c)),
                           nid |-> s.nid + 1])
<1> DEFINE its == s.items
           n == s.nid
           t == Append(its, NewBullet(n, c))
<1>1. /\ GoodStore(its) /\ its \in Seq(Bullet) /\ Evolves(old, its)
      /\ n \in Nat \ {0} /\ \A i \in DOMAIN its : its[i].id < n
  BY DEF Continues, GoodStore, MergeStates
<1>2. NewBullet(n, c) \in Bullet
  BY <1>1 DEF NewBullet, Bullet, Status
<1>3. GoodStore(t) /\ \A i \in DOMAIN t : t[i].id < n + 1
  BY <1>1, AppendGood
<1>4. Evolves(old, t)
  BY <1>1, <1>2, AppendEvolves
<1> HIDE DEF t
<1>5. Continues(old, [items |-> t, nid |-> n + 1])
  BY <1>1, <1>3, <1>4 DEF Continues, MergeStates, GoodStore
<1>6. QED
  BY <1>5 DEF t

\* Every turn of merge's loop continues the store, whatever the delta.
LEMMA AppliedContinues ==
    ASSUME NEW old \in Seq(Bullet), NEW s, Continues(old, s), NEW d \in Delta
    PROVE  Continues(old, Atomic!Applied(s, d))
<1> DEFINE its == s.items
           at == Atomic!ById(d.id, its)
           same == {i \in DOMAIN its :
                      d.content # Blank /\ NearDuplicate(d.content, its[i].content)}
           first == Atomic!Min(same)
           edited(i, b) == [s EXCEPT !.items = [its EXCEPT ![i] = b]]
           appended == [items |-> Append(its, NewBullet(s.nid, d.content)), nid |-> s.nid + 1]
<1>1. /\ its \in Seq(Bullet) /\ s \in MergeStates
      /\ \A i \in DOMAIN its : its[i] \in Bullet /\ SoundBullet(its[i])
      /\ d.content \in Content \cup {Blank} /\ d.helpful \in BOOLEAN
  BY DEF Continues, GoodStore, Delta
<1>2. same # {} => first \in DOMAIN its
  <2> SUFFICES ASSUME NEW j \in same PROVE first \in same
    OBVIOUS
  <2>1. same \in SUBSET Nat
    BY <1>1
  <2>2. \E m \in same : \A k \in same : m <= k
    BY <2>1, LeastNatural
  <2> HIDE DEF same
  <2>3. QED
    BY <2>2 DEF Atomic!Min
<1>3. at # 0 => at \in DOMAIN its
  BY <1>1, ByIdInList
<1>4. same # {} => Continues(old, edited(first, BumpHelpful(its[first])))
  <2> SUFFICES ASSUME same # {}
               PROVE  Continues(old, edited(first, BumpHelpful(its[first])))
    OBVIOUS
  <2>1. first \in DOMAIN its /\ Improves(its[first], BumpHelpful(its[first]))
    BY <1>1, <1>2, BumpHelpfulImproves
  <2> HIDE DEF first, same
  <2>2. QED
    BY <2>1, EditContinues
<1>5. at # 0 => Continues(old, edited(at, Reinforced(its[at], d.helpful)))
  <2> SUFFICES ASSUME at # 0
               PROVE  Continues(old, edited(at, Reinforced(its[at], d.helpful)))
    OBVIOUS
  <2>1. at \in DOMAIN its /\ Improves(its[at], Reinforced(its[at], d.helpful))
    BY <1>1, <1>3, ReinforcedImproves
  <2> HIDE DEF at
  <2>2. QED
    BY <2>1, EditContinues
<1>6. at # 0 /\ d.content # Blank =>
        Continues(old, edited(at, [its[at] EXCEPT !.content = d.content]))
  <2> SUFFICES ASSUME at # 0, d.content # Blank
               PROVE  Continues(old, edited(at, [its[at] EXCEPT !.content = d.content]))
    OBVIOUS
  <2>1. at \in DOMAIN its /\ Improves(its[at], [its[at] EXCEPT !.content = d.content])
    BY <1>1, <1>3, RevisedImproves
  <2> HIDE DEF at
  <2>2. QED
    BY <2>1, EditContinues
<1>7. d.content # Blank => Continues(old, appended)
  BY <1>1, AppendContinues
<1>8. \/ same # {} /\ Atomic!Applied(s, d) = edited(first, BumpHelpful(its[first]))
      \/ at # 0 /\ Atomic!Applied(s, d) = edited(at, Reinforced(its[at], d.helpful))
      \/ /\ at # 0 /\ d.content # Blank
         /\ Atomic!Applied(s, d) = edited(at, [its[at] EXCEPT !.content = d.content])
      \/ d.content # Blank /\ Atomic!Applied(s, d) = appended
      \/ Atomic!Applied(s, d) = s
  BY SameCurator DEF Atomic!Applied
<1> HIDE DEF same, first, at, edited, appended
<1>9. QED
  BY <1>4, <1>5, <1>6, <1>7, <1>8

\* A merge leaves a good store that has all the old one had.
LEMMA MergedContinues ==
    ASSUME NEW s, GoodStore(s), NEW dl \in Seq(Delta)
    PROVE  GoodStore(Atomic!Merged(s, dl)) /\ Evolves(s, Atomic!Merged(s, dl))
<1> DEFINE n == Len(dl)
           g == Atomic!Merging(s, dl)
           S == {i \in 0 .. n : Continues(s, g[i])}
<1>1. s \in Seq(Bullet) /\ Evolves(s, s) /\ n \in Nat
  BY EvolvesReflexive DEF GoodStore
<1>2. /\ g[0] = [items |-> s, nid |-> NextId(s)]
      /\ \A i \in 1 .. n : g[i] = Atomic!Applied(g[i - 1], dl[i]) /\ dl[i] \in Delta
  BY MergingTurns
<1>3. 0 \in S
  BY <1>1, <1>2, NextIdFresh DEF Continues, MergeStates
<1>4. ASSUME NEW i \in 1 .. n, i - 1 \in S PROVE i \in S
  BY <1>1, <1>2, <1>4, AppliedContinues
<1>5. 0 .. n \subseteq S
  <2> HIDE DEF S
  <2>1. QED
    BY <1>1, <1>3, <1>4, UpTo
<1>6. Continues(s, g[n])
  BY <1>1, <1>5
<1>7. Atomic!Merged(s, dl) = s \/ Atomic!Merged(s, dl) = g[n].items
  BY DEF Atomic!Merged
<1> HIDE DEF g
<1>8. QED
  BY <1>1, <1>6, <1>7 DEF Continues

\* A credit leaves a good store that has all the old one had.
LEMMA CreditedAllContinues ==
    ASSUME NEW s, GoodStore(s), NEW cl \in Seq(Nat), NEW ok \in BOOLEAN
    PROVE  GoodStore(Atomic!CreditedAll(s, cl, ok)) /\ Evolves(s, Atomic!CreditedAll(s, cl, ok))
<1> DEFINE n == Len(cl)
           g == Atomic!Crediting(s, cl, ok)
           S == {i \in 0 .. n : GoodStore(g[i]) /\ Evolves(s, g[i])}
<1>1. s \in Seq(Bullet) /\ Evolves(s, s) /\ n \in Nat
  BY EvolvesReflexive DEF GoodStore
<1>2. /\ g[0] = s
      /\ \A i \in 1 .. n : g[i] = Atomic!CreditedOne(g[i - 1], cl[i], ok)
  BY <1>1, CreditingTurns
<1>3. 0 \in S
  BY <1>1, <1>2
<1>4. ASSUME NEW i \in 1 .. n, i - 1 \in S PROVE i \in S
  <2> DEFINE t == g[i - 1]
             at == Atomic!ById(cl[i], t)
  <2>1. GoodStore(t) /\ t \in Seq(Bullet) /\ Evolves(s, t)
    BY <1>4 DEF GoodStore
  <2>2. g[i] = IF at = 0 THEN t ELSE [t EXCEPT ![at] = Credited(t[at], ok)]
    BY <1>2, SameCurator DEF Atomic!CreditedOne
  <2>3. at # 0 => at \in DOMAIN t
    BY <2>1, ByIdInList
  <2> HIDE DEF t, at, g
  <2>4. CASE at = 0
    BY <2>1, <2>2, <2>4
  <2>5. CASE at # 0
    <3>1. at \in DOMAIN t /\ Improves(t[at], Credited(t[at], ok))
      BY <2>1, <2>3, <2>5, BulletsOfList, CreditedImproves DEF GoodStore
    <3>2. GoodStore(g[i]) /\ Evolves(s, g[i])
      BY <1>1, <2>1, <2>2, <2>5, <3>1, EditGood, EditEvolves
    <3>3. QED
      BY <3>2
  <2>6. QED
    BY <2>4, <2>5
<1>5. 0 .. n \subseteq S
  <2> HIDE DEF S
  <2>1. QED
    BY <1>1, <1>3, <1>4, UpTo
<1>6. QED
  BY <1>1, <1>5 DEF Atomic!CreditedAll

\* The promise is worth keeping: whole merges and whole credits, one after the
\* other, keep ids unique and statuses in agreement with the votes, and take back
\* nothing, for any answers of the Reflector and any ids that are credited.  What
\* implements AtomicStore has all this from it.
THEOREM AtomicKeepsLessons ==
    Atomic!Spec => [](UniqueIds /\ SoundStore) /\ NoLostUpdate
<1>1. Atomic!Init => GoodStore(disk)
  BY ReflectionAssumption DEF Atomic!Init, GoodStore
<1>2. GoodStore(disk) /\ [Atomic!Next]_disk
        => GoodStore(disk)' /\ [Evolves(disk, disk')]_disk
  <2> SUFFICES ASSUME GoodStore(disk), [Atomic!Next]_disk
               PROVE  GoodStore(disk') /\ [Evolves(disk, disk')]_disk
    OBVIOUS
  <2>1. CASE Atomic!MergeAtomically
    BY <2>1, MergedContinues, ReflectionAssumption DEF Atomic!MergeAtomically
  <2>2. CASE Atomic!CreditAtomically
    BY <2>2, CreditedAllContinues, ReflectionAssumption DEF Atomic!CreditAtomically
  <2>3. CASE UNCHANGED disk
    BY <2>3
  <2>4. QED
    BY <2>1, <2>2, <2>3 DEF Atomic!Next
<1>3. GoodStore(disk) => UniqueIds /\ SoundStore
  BY DEF GoodStore, UniqueIds, SoundStore
<1>4. QED
  BY <1>1, <1>2, <1>3, PTL DEF Atomic!Spec, NoLostUpdate
==============================================================================
