------------------------ MODULE DeployCatalogProofs ------------------------
(***************************************************************************)
(* Proofs about DeployCatalog, for any number of processes, memories and   *)
(* skills, however the processes interleave and wherever they are killed.  *)
(***************************************************************************)
EXTENDS DeployCatalog, TLAPS

-----------------------------------------------------------------------------
\* The inductive invariant.

\* A tracked skill is a directory: an assembly finds nothing there to unlink.
AuthoredAreReal == \A x \in Authored : tracked[x] \in {"none", "empty", "skill"}

\* Clearing and writing visit memories only.
VisitsMemories(p) ==
    /\ pc[p] \in {"clear", "write", "writeFile"} => todo[p] \in SUBSET Memory
    /\ pc[p] = "writeFile" => cur[p] \in Memory

\* What is published is an authored skill, and what is linked is published.
HandlesAuthored(p) ==
    /\ pc[p] = "targetFile" => cur[p] \in Authored
    /\ pc[p] \in Linking /\ cur[p] \in Authored => tracked[cur[p]] = "skill"

IInv ==
    /\ TypeOK
    /\ AuthoredAreReal
    /\ \A p \in Proc : VisitsMemories(p)
    /\ \A p \in Proc : HandlesAuthored(p)

\* No published skill leaves the tracked directory in this step.
Keeps == \A x \in Authored : tracked[x] = "skill" => tracked'[x] = "skill"

-----------------------------------------------------------------------------

\* Put writes one entry, of one of the two directories.
LEMMA PutOne ==
    ASSUME TypeOK, NEW x \in Name, NEW e \in Entry, Put(x, e)
    PROVE  /\ link' \in {"none", "symlink", "dir"}
           /\ catalog' \in [Name -> Entry]
           /\ tracked' \in [Name -> Entry]
           /\ \A y \in Name : y # x => tracked'[y] = tracked[y]
           /\ link = "symlink" => tracked'[x] = e
           /\ link # "symlink" => tracked' = tracked
BY DEF TypeOK, Put, Entry

\* The other processes are where they were, and what they rely on still is.
LEMMA OthersUndisturbed ==
    ASSUME IInv, NEW p \in Proc, NEW q \in Proc \ {p}, Keeps,
           NEW l, pc' = [pc EXCEPT ![p] = l],
           NEW ns, todo' = [todo EXCEPT ![p] = ns],
           NEW n, cur' = [cur EXCEPT ![p] = n]
    PROVE  VisitsMemories(q)' /\ HandlesAuthored(q)'
<1>1. pc'[q] = pc[q] /\ todo'[q] = todo[q] /\ cur'[q] = cur[q]
  BY DEF IInv, TypeOK
<1>2. QED
  BY <1>1 DEF IInv, Keeps, VisitsMemories, HandlesAuthored

LEMMA InitHolds == Init => IInv
<1> SUFFICES ASSUME Init PROVE IInv
  OBVIOUS
<1>1. PICK a \in SUBSET Authored :
        tracked = [x \in Name |-> IF x \in a THEN "skill" ELSE "none"]
  BY DEF Init
<1>2. tracked \in [Name -> Entry] /\ AuthoredAreReal
  BY <1>1 DEF Entry, AuthoredAreReal, Name
<1>3. \A p \in Proc : pc[p] = "idle"
  BY DEF Init
<1>4. TypeOK
  BY <1>2, <1>3 DEF Init, TypeOK, Entry, Named, Linking, Publishing
<1>5. QED
  BY <1>2, <1>3, <1>4 DEF IInv, VisitsMemories, HandlesAuthored, Linking

\* A process that leaves is idle, and nothing else has changed.
LEMMA Leaving ==
    ASSUME IInv, NEW p \in Proc, Raise(p)
    PROVE  TypeOK' /\ VisitsMemories(p)' /\ HandlesAuthored(p)'
<1>1. /\ pc' = [pc EXCEPT ![p] = "idle"]
      /\ todo' = [todo EXCEPT ![p] = {}]
      /\ cur' = [cur EXCEPT ![p] = None]
  BY DEF Raise, Leave, Goto, Visit, At
<1>2. TypeOK'
  <2>1. pc' \in [Proc -> {"idle", "isLink", "unlink", "mkdir", "pruneList", "prune",
                          "clear", "write", "link"} \cup Publishing \cup Named]
    BY <1>1 DEF IInv, TypeOK
  <2>2. todo' \in [Proc -> SUBSET Name] /\ cur' \in [Proc -> Name \cup {None}]
    BY <1>1 DEF IInv, TypeOK
  <2>3. \A q \in Proc : pc'[q] \in Named => cur'[q] \in Name
    BY <1>1 DEF IInv, TypeOK, Named, Linking
  <2>4. QED
    BY <2>1, <2>2, <2>3 DEF IInv, TypeOK, Raise, files
<1>3. pc'[p] = "idle"
  BY <1>1 DEF IInv, TypeOK
<1>4. QED
  BY <1>2, <1>3 DEF VisitsMemories, HandlesAuthored, Linking

\* Steps that leave the tracked directory alone.
LEMMA StepBesideTracked ==
    ASSUME IInv, NEW p \in Proc,
           \/ StartAssembly(p) \/ StartPublishing(p) \/ Crash(p)
           \/ EnsureTest(p) \/ Relink(p)
           \/ IsLink(p) \/ Unlink(p) \/ Mkdir(p) \/ PruneList(p) \/ PruneTest(p)
           \/ ClearList(p) \/ Load(p)
           \/ LinkList(p) \/ LinkTest(p) \/ Assembled(p)
    PROVE  IInv' /\ Keeps
<1> USE CatalogAssumption
    DEF Goto, Visit, At, Done, Leave, Raise, Publishing, Linking, Named, Name
<1>1. UNCHANGED tracked
  BY DEF StartAssembly, StartPublishing, Start, Crash, EnsureTest, Relink, IsLink,
         Unlink, Mkdir, PruneList, PruneTest, ClearList, Load, LinkList, LinkTest,
         Assembled, files
<1>2. Keeps /\ AuthoredAreReal'
  BY <1>1 DEF Keeps, IInv, AuthoredAreReal
<1>3. TypeOK' /\ VisitsMemories(p)' /\ HandlesAuthored(p)'
  <2> USE DEF IInv, TypeOK, VisitsMemories, HandlesAuthored
  <2>1. CASE StartAssembly(p) \/ StartPublishing(p)
    <3>1. calm' \in BOOLEAN /\ orderly' \in BOOLEAN
      BY <2>1, Zenon DEF StartAssembly, StartPublishing, Start
    <3>2. QED
      BY <2>1, <3>1 DEF StartAssembly, StartPublishing, Start, files
  <2>2. CASE Crash(p)
    BY <2>2, Leaving DEF Crash
  <2>3. CASE EnsureTest(p)
    BY <2>3 DEF EnsureTest, files, ghost
  <2>4. CASE Relink(p)
    BY <2>4 DEF Relink
  <2>5. CASE IsLink(p)
    BY <2>5 DEF IsLink, files, ghost
  <2>6. CASE Unlink(p)
    <3>1. CASE Raise(p)
      BY <3>1, Leaving
    <3>2. CASE link' = "none" /\ Goto(p, "mkdir")
      BY <2>6, <3>2 DEF Unlink, files, ghost
    <3>3. QED
      BY <2>6, <3>1, <3>2 DEF Unlink
  <2>7. CASE Mkdir(p)
    BY <2>7 DEF Mkdir, ghost
  <2>8. CASE PruneList(p)
    <3>1. CASE Raise(p)
      BY <3>1, Leaving
    <3>2. CASE ~Raise(p)
      <4> DEFINE there == {x \in Name : Here(x) # "none"}
      <4>1. there \in SUBSET Name
        OBVIOUS
      <4>2. /\ Visit(p, there) /\ Goto(p, "prune")
            /\ UNCHANGED <<files, active, cur, ghost>>
        BY <2>8, <3>2 DEF PruneList
      <4> HIDE DEF there
      <4>3. QED
        BY <4>1, <4>2 DEF files, ghost
    <3>3. QED
      BY <3>1, <3>2
  <2>9. CASE PruneTest(p)
    BY <2>9 DEF PruneTest, files, ghost
  <2>10. CASE ClearList(p)
    BY <2>10 DEF ClearList, ghost
  <2>11. CASE Load(p)
    BY <2>11 DEF Load, files, ghost
  <2>12. CASE LinkList(p)
    BY <2>12 DEF LinkList, files, ghost
  <2>13. CASE LinkTest(p)
    BY <2>13 DEF LinkTest, files, ghost
  <2>14. CASE Assembled(p)
    BY <2>14 DEF Assembled, files, ghost
  <2>15. QED
    BY <2>1, <2>2, <2>3, <2>4, <2>5, <2>6, <2>7, <2>8, <2>9, <2>10, <2>11,
       <2>12, <2>13, <2>14
<1>4. \E l, ns, n : /\ pc' = [pc EXCEPT ![p] = l]
                    /\ todo' = [todo EXCEPT ![p] = ns]
                    /\ cur' = [cur EXCEPT ![p] = n]
  <2>1. /\ pc = [pc EXCEPT ![p] = pc[p]]
        /\ todo = [todo EXCEPT ![p] = todo[p]]
        /\ cur = [cur EXCEPT ![p] = cur[p]]
    BY DEF IInv, TypeOK
  <2>2. QED
    BY <2>1
     DEF IInv, TypeOK, StartAssembly, StartPublishing, Start, Crash, EnsureTest,
         Relink, IsLink, Unlink, Mkdir, PruneList, PruneTest, ClearList, Load,
         LinkList, LinkTest, Assembled, files
<1>5. \A q \in Proc \ {p} : VisitsMemories(q)' /\ HandlesAuthored(q)'
  BY <1>2, <1>4, OthersUndisturbed
<1>6. QED
  BY <1>2, <1>3, <1>5 DEF IInv

\* Publishing adds to the tracked directory ...
LEMMA StepOfPublishing ==
    ASSUME IInv, NEW p \in Proc, MakeTarget(p) \/ WriteTarget(p)
    PROVE  IInv' /\ Keeps
<1> USE CatalogAssumption DEF Goto, At, Publishing, Linking, Named, Name
<1>1. PICK x \in Authored, e \in {"empty", "skill"} :
        /\ tracked' = [tracked EXCEPT ![x] = e]
        /\ tracked[x] = "skill" => e = "skill"
  <2>1. CASE MakeTarget(p)
    <3>1. PICK x \in Authored :
            tracked' = [tracked EXCEPT ![x] = IF @ = "none" THEN "empty" ELSE @]
      BY <2>1 DEF MakeTarget
    <3>2. tracked[x] \in {"none", "empty", "skill"}
      BY DEF IInv, AuthoredAreReal
    <3>3. QED
      BY <3>1, <3>2
  <2>2. CASE WriteTarget(p)
    BY <2>2 DEF WriteTarget, IInv, HandlesAuthored
  <2>3. QED
    BY <2>1, <2>2
<1>2. Keeps /\ AuthoredAreReal'
  BY <1>1 DEF Keeps, IInv, TypeOK, AuthoredAreReal
<1>3. tracked' \in [Name -> Entry]
  BY <1>1 DEF IInv, TypeOK, Entry
<1>4. TypeOK' /\ VisitsMemories(p)' /\ HandlesAuthored(p)'
  BY <1>3 DEF IInv, TypeOK, VisitsMemories, HandlesAuthored, MakeTarget,
              WriteTarget, ghost
<1>5. \E l, n : /\ pc' = [pc EXCEPT ![p] = l]
                /\ todo' = [todo EXCEPT ![p] = todo[p]]
                /\ cur' = [cur EXCEPT ![p] = n]
  BY DEF IInv, TypeOK, MakeTarget, WriteTarget
<1>6. \A q \in Proc \ {p} : VisitsMemories(q)' /\ HandlesAuthored(q)'
  BY <1>2, <1>5, OthersUndisturbed
<1>7. QED
  BY <1>2, <1>4, <1>6 DEF IInv

\* ... and an assembly whose path leads there writes no authored name: it
\* unlinks only symlinks, clears and writes only memories, and links only
\* names that are not taken.
LEMMA OneEntryWritten ==
    ASSUME IInv, NEW x \in Name, NEW e \in Entry, Put(x, e),
           x \in Memory \/ Here(x) = "link"
             \/ (x \in Authored => tracked[x] = "skill" /\ Here(x) = "none")
    PROVE  /\ Keeps /\ AuthoredAreReal'
           /\ link' \in {"none", "symlink", "dir"}
           /\ catalog' \in [Name -> Entry]
           /\ tracked' \in [Name -> Entry]
<1>1. /\ link' \in {"none", "symlink", "dir"}
      /\ catalog' \in [Name -> Entry]
      /\ tracked' \in [Name -> Entry]
      /\ \A y \in Name : y # x => tracked'[y] = tracked[y]
      /\ link # "symlink" => tracked' = tracked
  BY PutOne DEF IInv
<1>2. link = "symlink" => x \notin Authored
  BY CatalogAssumption DEF Here, IInv, AuthoredAreReal
<1>3. \A y \in Authored : tracked'[y] = tracked[y]
  BY <1>1, <1>2 DEF Name
<1>4. QED
  BY <1>1, <1>3 DEF Keeps, IInv, AuthoredAreReal

LEMMA StepOfAssembly ==
    ASSUME IInv, NEW p \in Proc,
           \/ PruneUnlink(p) \/ ClearEntry(p) \/ MakeEntry(p) \/ WriteEntry(p)
           \/ Symlink(p) \/ CopyTree(p)
    PROVE  IInv' /\ Keeps
<1> USE CatalogAssumption
    DEF Goto, Visit, At, Done, Publishing, Linking, Named, Name
<1>1. /\ Keeps /\ AuthoredAreReal'
      /\ link' \in {"none", "symlink", "dir"}
      /\ catalog' \in [Name -> Entry]
      /\ tracked' \in [Name -> Entry]
  <2>1. CASE UNCHANGED files
    BY <2>1 DEF files, Keeps, IInv, TypeOK, AuthoredAreReal
  <2>2. CASE PruneUnlink(p)
    BY <2>1, <2>2, OneEntryWritten DEF PruneUnlink, Raise, IInv, TypeOK, Entry
  <2>3. CASE ClearEntry(p)
    BY <2>1, <2>3, OneEntryWritten DEF ClearEntry, IInv, VisitsMemories, Entry
  <2>4. CASE MakeEntry(p)
    BY <2>1, <2>4, OneEntryWritten DEF MakeEntry, IInv, VisitsMemories, Entry
  <2>5. CASE WriteEntry(p)
    <3>1. Here(cur[p]) \in Entry /\ cur[p] \in Memory
      BY <2>5 DEF WriteEntry, IInv, TypeOK, VisitsMemories, Here
    <3>2. (IF Here(cur[p]) = "empty" THEN "skill" ELSE Here(cur[p])) \in Entry
      BY <3>1 DEF Entry
    <3>3. QED
      BY <2>1, <2>5, <3>1, <3>2, OneEntryWritten DEF WriteEntry, Raise
  <2>6. CASE Symlink(p)
    BY <2>1, <2>6, OneEntryWritten
       DEF Symlink, IInv, TypeOK, HandlesAuthored, Entry
  <2>7. CASE CopyTree(p)
    BY <2>1, <2>7, OneEntryWritten
       DEF CopyTree, Raise, IInv, TypeOK, HandlesAuthored, Entry
  <2>8. QED
    BY <2>2, <2>3, <2>4, <2>5, <2>6, <2>7
<1>2. TypeOK' /\ VisitsMemories(p)' /\ HandlesAuthored(p)'
  <2>1. CASE Raise(p)
    BY <2>1, Leaving
  <2>2. CASE PruneUnlink(p) /\ ~Raise(p)
    BY <1>1, <2>2
       DEF PruneUnlink, IInv, TypeOK, VisitsMemories, HandlesAuthored, ghost
  <2>3. CASE ClearEntry(p)
    BY <1>1, <2>3
       DEF ClearEntry, IInv, TypeOK, VisitsMemories, HandlesAuthored, ghost
  <2>4. CASE MakeEntry(p)
    BY <1>1, <2>4
       DEF MakeEntry, IInv, TypeOK, VisitsMemories, HandlesAuthored, ghost
  <2>5. CASE WriteEntry(p) /\ ~Raise(p)
    BY <1>1, <2>5
       DEF WriteEntry, IInv, TypeOK, VisitsMemories, HandlesAuthored, ghost
  <2>6. CASE Symlink(p)
    <3>1. cur'[p] \in Authored /\ pc'[p] = "copytree" => tracked'[cur'[p]] = "skill"
      BY <1>1, <2>6
         DEF Symlink, IInv, TypeOK, HandlesAuthored, Keeps, files
    <3>2. QED
      BY <1>1, <2>6, <3>1
         DEF Symlink, IInv, TypeOK, VisitsMemories, HandlesAuthored, ghost
  <2>7. CASE CopyTree(p) /\ ~Raise(p)
    BY <1>1, <2>7
       DEF CopyTree, IInv, TypeOK, VisitsMemories, HandlesAuthored, ghost
  <2>8. QED
    BY <2>1, <2>2, <2>3, <2>4, <2>5, <2>6, <2>7
<1>3. \E l, ns, n : /\ pc' = [pc EXCEPT ![p] = l]
                    /\ todo' = [todo EXCEPT ![p] = ns]
                    /\ cur' = [cur EXCEPT ![p] = n]
  <2>1. /\ pc = [pc EXCEPT ![p] = pc[p]]
        /\ todo = [todo EXCEPT ![p] = todo[p]]
        /\ cur = [cur EXCEPT ![p] = cur[p]]
    BY DEF IInv, TypeOK
  <2>2. QED
    BY <2>1
       DEF PruneUnlink, ClearEntry, MakeEntry, WriteEntry, Symlink, CopyTree,
           Raise, Leave
<1>4. \A q \in Proc \ {p} : VisitsMemories(q)' /\ HandlesAuthored(q)'
  BY <1>1, <1>3, OthersUndisturbed
<1>5. QED
  BY <1>1, <1>2, <1>4 DEF IInv

\* Every step keeps the invariant and every published skill.
LEMMA StepKeeps == IInv /\ [Next]_vars => IInv' /\ Keeps
<1> SUFFICES ASSUME IInv, [Next]_vars PROVE IInv' /\ Keeps
  OBVIOUS
<1>1. ASSUME NEW p \in Proc,
             \/ StartAssembly(p) \/ StartPublishing(p) \/ Publish(p)
             \/ OwnDirectory(p) \/ MaterializeInto(p) \/ LinkAllSkills(p)
             \/ Crash(p)
      PROVE  IInv' /\ Keeps
  BY <1>1, StepBesideTracked, StepOfPublishing, StepOfAssembly
     DEF Publish, OwnDirectory, MaterializeInto, LinkAllSkills
<1>2. CASE SaveStore
  <2>1. TypeOK'
    <3>1. /\ UNCHANGED <<link, catalog, tracked, pc, todo, cur, starts, calm>>
          /\ active' \in SUBSET Memory
      BY <1>2 DEF SaveStore, files, local
    <3>2. saves \in Nat /\ saves' = saves + 1
      BY <1>2 DEF IInv, TypeOK, SaveStore
    <3>3. saves' \in Nat
      BY <3>2
    <3>4. orderly' \in BOOLEAN
      BY <1>2, Zenon DEF SaveStore
    <3>5. QED
      BY <3>1, <3>3, <3>4 DEF IInv, TypeOK
  <2>2. QED
    BY <1>2, <2>1
       DEF IInv, Keeps, SaveStore, files, local, AuthoredAreReal,
           VisitsMemories, HandlesAuthored
<1>3. CASE UNCHANGED vars
  BY <1>3
     DEF IInv, TypeOK, Keeps, vars, files, local, ghost, AuthoredAreReal,
         VisitsMemories, HandlesAuthored
<1>4. QED
  BY <1>1, <1>2, <1>3 DEF Next

-----------------------------------------------------------------------------

\* Every variable of DeployCatalog keeps its type, for any number of processes
\* that assemble and publish (materialize.py, config.ensure_skill_link).
THEOREM CatalogTypeCorrect == Spec => []TypeOK
<1>1. IInv => TypeOK
  BY DEF IInv
<1>2. QED
  BY <1>1, InitHolds, StepKeeps, PTL DEF Spec

\* No step of assemble_deploy_catalog or of write_skill takes a published skill
\* out of the tracked directory, also while .claude/skills leads into it and
\* other processes are at work or have been killed.
THEOREM TrackedSkillsStay == Spec => NeverClobbers
<1>1. IInv /\ [Next]_vars
        => [\A x \in Authored : tracked[x] = "skill" => tracked'[x] = "skill"]_vars
  BY StepKeeps DEF Keeps
<1>2. QED
  BY <1>1, InitHolds, StepKeeps, PTL DEF Spec, NeverClobbers

-----------------------------------------------------------------------------
\* Processes that run one after the other.

\* Where a process stands before it has made .claude/skills a directory, and
\* where it relies on that.
BeforeDir == Publishing \cup {"isLink", "unlink", "mkdir"}
InDir == {"pruneList", "prune", "pruneUnlink", "clear", "write", "writeFile", "link"}
         \cup Linking

OwnsDir(p) ==
    /\ pc[p] = "mkdir" => link # "symlink"
    /\ pc[p] \in InDir => link = "dir"

\* A process alone at work finds the directory its own and every name it is
\* about to link free.
WorksAlone(p) ==
    /\ \A q \in Proc \ {p} : pc[q] = "idle"
    /\ OwnsDir(p)
    /\ pc[p] # "copytree"
    /\ pc[p] = "symlink" => catalog[cur[p]] = "none"

\* A step of the work of p, no start and no end by force.
Works(p) == Publish(p) \/ OwnDirectory(p) \/ MaterializeInto(p) \/ LinkAllSkills(p)

\* As long as no process has started beside another, each works alone.
CalmInv ==
    calm => /\ ~Scarred
            /\ \A p \in Proc : pc[p] # "idle" => WorksAlone(p)

LEMMA CalmBegins == Init => CalmInv
BY CatalogAssumption DEF Init, CalmInv, Scarred, Name

\* The step of a process that works alone leaves nothing that stays.
LEMMA AloneStep ==
    ASSUME IInv, NEW p \in Proc, WorksAlone(p), ~Scarred, Works(p)
    PROVE  /\ ~Scarred'
           /\ pc'[p] # "idle" => /\ OwnsDir(p)'
                                 /\ pc'[p] # "copytree"
                                 /\ pc'[p] = "symlink" => catalog'[cur'[p]] = "none"
<1> USE CatalogAssumption
    DEF IInv, TypeOK, VisitsMemories, WorksAlone, OwnsDir, InDir, Scarred,
        Goto, Visit, At, Done, Leave, Raise, Publishing, Linking, Name, Entry, files
<1>1. CASE EnsureTest(p)
  BY <1>1 DEF EnsureTest
<1>2. CASE Relink(p)
  BY <1>2 DEF Relink
<1>3. CASE MakeTarget(p)
  BY <1>3 DEF MakeTarget
<1>4. CASE WriteTarget(p)
  BY <1>4 DEF WriteTarget, HandlesAuthored
<1>5. CASE IsLink(p)
  BY <1>5 DEF IsLink
<1>6. CASE Unlink(p)
  BY <1>6 DEF Unlink
<1>7. CASE Mkdir(p)
  BY <1>7 DEF Mkdir
<1>8. CASE PruneList(p)
  BY <1>8 DEF PruneList
<1>9. CASE PruneTest(p)
  BY <1>9 DEF PruneTest
<1>10. CASE PruneUnlink(p)
  BY <1>10 DEF PruneUnlink, Here, Put
<1>11. CASE ClearList(p)
  BY <1>11 DEF ClearList
<1>12. CASE ClearEntry(p)
  BY <1>12 DEF ClearEntry, Here, Put
<1>13. CASE Load(p)
  BY <1>13 DEF Load
<1>14. CASE MakeEntry(p)
  BY <1>14 DEF MakeEntry, Here, Put
<1>15. CASE WriteEntry(p)
  BY <1>15 DEF WriteEntry, Here, Put
<1>16. CASE LinkList(p)
  BY <1>16 DEF LinkList
<1>17. CASE LinkTest(p)
  BY <1>17 DEF LinkTest, Here
<1>18. CASE Symlink(p)
  BY <1>18 DEF Symlink, Here, Put
<1>19. CASE CopyTree(p)
  BY <1>19 DEF CopyTree
<1>20. CASE Assembled(p)
  BY <1>20 DEF Assembled
<1>21. QED
  BY <1>1, <1>2, <1>3, <1>4, <1>5, <1>6, <1>7, <1>8, <1>9, <1>10, <1>11, <1>12, <1>13,
     <1>14, <1>15, <1>16, <1>17, <1>18, <1>19, <1>20
     DEF Works, Publish, OwnDirectory, MaterializeInto, LinkAllSkills

\* What a step of p leaves to the other processes: where they stand.
LEMMA OneProcessMoves ==
    ASSUME IInv, NEW p \in Proc, Works(p) \/ Crash(p)
    PROVE  /\ pc[p] # "idle"
           /\ calm' = calm /\ active' = active
           /\ orderly' => orderly
           /\ \A q \in Proc \ {p} : /\ pc'[q] = pc[q]
                                    /\ todo'[q] = todo[q]
                                    /\ cur'[q] = cur[q]
BY DEF Works, Publish, OwnDirectory, MaterializeInto, LinkAllSkills, Crash,
       EnsureTest, Relink, MakeTarget, WriteTarget, IsLink, Unlink, Mkdir, PruneList,
       PruneTest, PruneUnlink, ClearList, ClearEntry, Load, MakeEntry, WriteEntry,
       LinkList, LinkTest, Symlink, CopyTree, Assembled, Raise, Leave, Done,
       Goto, Visit, At, ghost, IInv, TypeOK

\* Whoever starts while another is at work ends the calm.
LEMMA CalmKept == IInv /\ CalmInv /\ [Next]_vars => CalmInv'
<1> SUFFICES ASSUME IInv, CalmInv, [Next]_vars, calm'
             PROVE  /\ ~Scarred'
                    /\ \A p \in Proc : pc'[p] # "idle" => WorksAlone(p)'
  BY DEF CalmInv
<1>1. CASE UNCHANGED vars \/ SaveStore
  BY <1>1 DEF SaveStore, vars, files, local, ghost, CalmInv, Scarred, WorksAlone,
              OwnsDir
<1>2. ASSUME NEW p \in Proc, StartAssembly(p) \/ StartPublishing(p)
      PROVE  /\ ~Scarred'
             /\ \A q \in Proc : pc'[q] # "idle" => WorksAlone(q)'
  <2>1. PICK l \in {"isLink", "ensure"} : Start(p, l)
    BY <1>2 DEF StartAssembly, StartPublishing
  <2>2. calm /\ Quiet
    BY <2>1, Zenon DEF Start
  <2>3. pc'[p] = l /\ \A q \in Proc \ {p} : pc'[q] = "idle"
    BY <2>1, <2>2 DEF Start, Goto, Quiet, IInv, TypeOK
  <2>4. QED
    BY <2>1, <2>2, <2>3
       DEF Start, files, CalmInv, Scarred, WorksAlone, OwnsDir, InDir, Linking
<1>3. ASSUME NEW p \in Proc, Works(p)
      PROVE  /\ ~Scarred'
             /\ \A q \in Proc : pc'[q] # "idle" => WorksAlone(q)'
  <2>1. /\ calm /\ pc[p] # "idle"
        /\ \A q \in Proc \ {p} : pc'[q] = pc[q]
    BY <1>3, OneProcessMoves
  <2>2. ~Scarred /\ WorksAlone(p)
    BY <2>1 DEF CalmInv
  <2>3. /\ ~Scarred'
        /\ pc'[p] # "idle" => /\ OwnsDir(p)'
                              /\ pc'[p] # "copytree"
                              /\ pc'[p] = "symlink" => catalog'[cur'[p]] = "none"
    BY <1>3, <2>1, <2>2, AloneStep
  <2>4. \A q \in Proc \ {p} : pc'[q] = "idle"
    BY <2>1, <2>2 DEF WorksAlone
  <2>5. ASSUME NEW q \in Proc, pc'[q] # "idle" PROVE WorksAlone(q)'
    BY <2>3, <2>4, <2>5 DEF WorksAlone
  <2>6. QED
    BY <2>3, <2>5
<1>4. ASSUME NEW p \in Proc, Crash(p)
      PROVE  /\ ~Scarred'
             /\ \A q \in Proc : pc'[q] # "idle" => WorksAlone(q)'
  <2>1. pc[p] # "idle" /\ calm /\ \A q \in Proc \ {p} : pc'[q] = pc[q]
    BY <1>4, OneProcessMoves
  <2>2. pc'[p] = "idle" /\ UNCHANGED files
    BY <1>4 DEF Crash, Raise, Leave, Goto, IInv, TypeOK
  <2>3. QED
    BY <2>1, <2>2 DEF CalmInv, WorksAlone, Scarred, files
<1>5. QED
  BY <1>1, <1>2, <1>3, <1>4 DEF Next, Works

\* Processes that assemble and publish one after the other, wherever each of
\* them is killed, neither write a memory into the tracked directory nor leave
\* a copy of a skill in the catalog (materialize.assemble_deploy_catalog): both
\* take two of them at work at once.
THEOREM OverlapAloneScars == Spec => []OnlyOverlapScars
<1>1. CalmInv => OnlyOverlapScars
  BY DEF CalmInv, OnlyOverlapScars
<1>2. Init /\ [][Next]_vars => [](IInv /\ CalmInv)
  BY InitHolds, StepKeeps, CalmBegins, CalmKept, PTL
<1>3. QED
  BY <1>1, <1>2, PTL DEF Spec

-----------------------------------------------------------------------------
\* Processes that overlap in order.

\* .claude/skills holds authored names as the links or copies of tracked
\* skills only.
AuthoredLinked ==
    \A x \in Authored : /\ catalog[x] \in {"none", "link", "copy"}
                        /\ catalog[x] = "link" => tracked[x] = "skill"

\* The directory is there, or a process is about to make it; a process at work
\* in it still has it.
OrderInv ==
    orderly => /\ \A p \in Proc : OwnsDir(p)
               /\ link = "dir" \/ \E q \in Proc : pc[q] \in BeforeDir

\* A process at work walks through what it is to walk through.
Walks(p) ==
    /\ pc[p] \in {"write", "writeFile"} => todo[p] \subseteq active
    /\ pc[p] = "writeFile" => cur[p] \in active
    /\ pc[p] \in {"link"} \cup Linking => todo[p] \subseteq Authored
    /\ pc[p] \in Linking => cur[p] \in Authored

\* p has passed the memory x in its pruning, in its clearing.
Pruned(p, x) ==
    \/ pc[p] = "prune" /\ x \notin todo[p]
    \/ pc[p] = "pruneUnlink" /\ x \notin todo[p] /\ x # cur[p]
    \/ pc[p] \in {"clear", "write", "writeFile"}

Cleared(p, x) ==
    \/ pc[p] = "clear" /\ x \notin todo[p]
    \/ pc[p] \in {"write", "writeFile"}

\* What p has passed stays as p left it, or as another has written it since.
Passed(p, x) ==
    /\ Pruned(p, x) => catalog[x] # "link"
    /\ Cleared(p, x) =>
         catalog[x] \in IF x \in active THEN {"none", "empty", "skill"} ELSE {"none"}

\* p has still to write the memory x, or to look at it; to link the skill x.
ToWrite(p, x) ==
    \/ pc[p] \in BeforeDir \cup {"pruneList", "prune", "pruneUnlink", "clear"}
    \/ pc[p] \in {"write", "writeFile"} /\ x \in todo[p]
    \/ pc[p] = "writeFile" /\ x = cur[p]

ToLink(p, x) ==
    \/ pc[p] \in BeforeDir
                   \cup {"pruneList", "prune", "pruneUnlink", "clear", "write", "writeFile"}
    \/ pc[p] \in {"link"} \cup Linking /\ x \in todo[p]
    \/ pc[p] \in Linking /\ x = cur[p]

MemoryRight(x) == catalog[x] = IF x \in active THEN "skill" ELSE "none"
SkillRight(x) == tracked[x] = "skill" => catalog[x] = "link"

TidyInv ==
    orderly /\ ~Scarred =>
        /\ \A p \in Proc : Walks(p) /\ \A x \in Memory : Passed(p, x)
        /\ \A x \in Memory : MemoryRight(x) \/ \E q \in Proc : ToWrite(q, x)
        /\ \A x \in Authored : SkillRight(x) \/ \E q \in Proc : ToLink(q, x)

QInv == AuthoredLinked /\ OrderInv /\ TidyInv

\* An authored name gets an entry by linking only.
LEMMA AuthoredLinkedKept == IInv /\ AuthoredLinked /\ [Next]_vars => AuthoredLinked'
<1> SUFFICES ASSUME IInv, AuthoredLinked, [Next]_vars PROVE AuthoredLinked'
  OBVIOUS
<1> USE CatalogAssumption
<1>1. Keeps
  BY StepKeeps
<1>2. CASE UNCHANGED catalog
  BY <1>1, <1>2 DEF AuthoredLinked, Keeps
<1>3. ASSUME NEW p \in Proc,
             \/ PruneUnlink(p) \/ ClearEntry(p) \/ MakeEntry(p) \/ WriteEntry(p)
             \/ Symlink(p) \/ CopyTree(p)
      PROVE  AuthoredLinked'
  <2>1. PICK x \in Name, e \in Entry :
          /\ catalog' \in {catalog, [catalog EXCEPT ![x] = e]}
          /\ x \in Authored => e \in {"none", "link", "copy"}
          /\ x \in Authored /\ e = "link" => tracked[x] = "skill"
    <3> USE DEF IInv, TypeOK, VisitsMemories, HandlesAuthored, Put, files, Named,
                Linking, Entry, Name
    <3>1. CASE PruneUnlink(p)
      BY <3>1 DEF PruneUnlink, Raise
    <3>2. CASE ClearEntry(p)
      BY <3>2 DEF ClearEntry
    <3>3. CASE MakeEntry(p)
      BY <3>3 DEF MakeEntry
    <3>4. CASE WriteEntry(p)
      BY <3>4 DEF WriteEntry, Raise, Here
    <3>5. CASE Symlink(p)
      BY <3>5 DEF Symlink
    <3>6. CASE CopyTree(p)
      BY <3>6 DEF CopyTree, Raise
    <3>7. QED
      BY <1>3, <3>1, <3>2, <3>3, <3>4, <3>5, <3>6
  <2>2. QED
    BY <1>1, <2>1 DEF AuthoredLinked, Keeps, IInv, TypeOK, Name
<1>4. QED
  BY <1>2, <1>3
     DEF Next, vars, files, StartAssembly, StartPublishing, Start, Publish, EnsureTest,
         Relink, MakeTarget, WriteTarget, OwnDirectory, IsLink, Unlink, Mkdir, PruneList,
         PruneTest, MaterializeInto, ClearList, Load, LinkAllSkills, LinkList, LinkTest,
         Assembled, Crash, Raise, SaveStore

\* In order, the directory does not go, nor comes the legacy symlink while
\* another process is at work.
LEMMA DirectoryStays ==
    ASSUME IInv, NEW p \in Proc, Works(p), OwnsDir(p), orderly'
    PROVE  /\ link = "dir" => link' = "dir"
           /\ link # "symlink" /\ link' = "symlink" => \A q \in Proc \ {p} : pc[q] = "idle"
           /\ OwnsDir(p)'
           /\ pc[p] \in BeforeDir => pc'[p] \in BeforeDir \/ link' = "dir"
<1> USE DEF IInv, TypeOK, OwnsDir, BeforeDir, InDir, Publishing, Linking, Raise, Leave,
            Goto, files, ghost
<1>1. CASE Publish(p)
  BY <1>1 DEF Publish, EnsureTest, Relink, MakeTarget, WriteTarget
<1>2. CASE OwnDirectory(p)
  BY <1>2 DEF OwnDirectory, IsLink, Unlink, Mkdir, PruneList, PruneTest, PruneUnlink, Put
<1>3. CASE MaterializeInto(p)
  BY <1>3 DEF MaterializeInto, ClearList, ClearEntry, Load, MakeEntry, WriteEntry, Put
<1>4. CASE LinkAllSkills(p)
  BY <1>4 DEF LinkAllSkills, LinkList, LinkTest, Symlink, CopyTree, Assembled, Put
<1>5. QED
  BY <1>1, <1>2, <1>3, <1>4 DEF Works

\* Every step in order keeps the directory for those at work in it.
LEMMA OrderKept == IInv /\ OrderInv /\ [Next]_vars => OrderInv'
<1> SUFFICES ASSUME IInv, OrderInv, [Next]_vars, orderly'
             PROVE  /\ \A p \in Proc : OwnsDir(p)'
                    /\ link' = "dir" \/ \E q \in Proc : pc'[q] \in BeforeDir
  BY DEF OrderInv
<1>1. CASE UNCHANGED vars
  BY <1>1 DEF vars, files, local, ghost, OrderInv, OwnsDir
<1>2. CASE SaveStore
  BY <1>2 DEF SaveStore
<1>3. ASSUME NEW p \in Proc, StartAssembly(p) \/ StartPublishing(p)
      PROVE  /\ \A q \in Proc : OwnsDir(q)'
             /\ link' = "dir" \/ \E q \in Proc : pc'[q] \in BeforeDir
  <2>1. PICK l \in {"isLink", "ensure"} : Start(p, l)
    BY <1>3 DEF StartAssembly, StartPublishing
  <2>2. orderly \/ Quiet
    BY <2>1, Zenon DEF Start
  <2>3. /\ pc'[p] = l /\ link' = link
        /\ \A q \in Proc \ {p} : pc'[q] = pc[q]
    BY <2>1 DEF Start, Goto, files, IInv, TypeOK
  <2>4. \A q \in Proc \ {p} : OwnsDir(q)'
    BY <2>2, <2>3 DEF OrderInv, OwnsDir, Quiet, InDir, Linking
  <2>5. OwnsDir(p)' /\ pc'[p] \in BeforeDir
    BY <2>3 DEF OwnsDir, InDir, Linking, BeforeDir, Publishing
  <2>6. QED
    BY <2>4, <2>5
<1>4. ASSUME NEW p \in Proc, Works(p)
      PROVE  /\ \A q \in Proc : OwnsDir(q)'
             /\ link' = "dir" \/ \E q \in Proc : pc'[q] \in BeforeDir
  <2>1. /\ orderly /\ pc[p] # "idle"
        /\ \A q \in Proc \ {p} : pc'[q] = pc[q]
    BY <1>4, OneProcessMoves
  <2>2. /\ \A q \in Proc : OwnsDir(q)
        /\ link = "dir" \/ \E q \in Proc : pc[q] \in BeforeDir
    BY <2>1 DEF OrderInv
  <2>3. /\ link = "dir" => link' = "dir"
        /\ link # "symlink" /\ link' = "symlink" => \A q \in Proc \ {p} : pc[q] = "idle"
        /\ OwnsDir(p)'
        /\ pc[p] \in BeforeDir => pc'[p] \in BeforeDir \/ link' = "dir"
    BY <1>4, <2>2, DirectoryStays
  <2>4. \A q \in Proc \ {p} : OwnsDir(q)'
    BY <2>1, <2>2, <2>3 DEF OwnsDir
  <2>5. QED
    BY <2>1, <2>2, <2>3, <2>4
<1>5. ASSUME NEW p \in Proc, Crash(p) PROVE FALSE
  BY <1>5 DEF Crash, Raise
<1>6. QED
  BY <1>1, <1>2, <1>3, <1>4, <1>5 DEF Next, Works

\* What a step in order leaves to the others, and what it does for its own.
Careful(p) ==
    /\ \A x \in Memory :
         /\ tracked'[x] = tracked[x]
         /\ \/ catalog'[x] \in {catalog[x], "none"}
            \/ x \in active /\ catalog'[x] \in {"empty", "skill"}
         /\ catalog'[x] = catalog[x] \/ MemoryRight(x)' \/ ToWrite(p, x)'
         /\ ToWrite(p, x) => MemoryRight(x)' \/ ToWrite(p, x)'
    /\ \A x \in Authored :
         /\ SkillRight(x) => SkillRight(x)' \/ ToLink(p, x)'
         /\ ToLink(p, x) => SkillRight(x)' \/ ToLink(p, x)'
    /\ Walks(p)'
    /\ \A x \in Memory : Passed(p, x)'

\* Nothing that stays is taken back while each process has its directory.
LEMMA ScarsStay ==
    ASSUME IInv, NEW p \in Proc, Works(p), OwnsDir(p), ~Scarred'
    PROVE  ~Scarred
<1> USE CatalogAssumption
    DEF IInv, TypeOK, OwnsDir, InDir, Linking, VisitsMemories, Scarred, Named, Name,
        Put, Here
<1>1. CASE UNCHANGED <<catalog, tracked>>
  BY <1>1
<1>2. CASE Publish(p)
  BY <1>2 DEF Publish, EnsureTest, Relink, MakeTarget, WriteTarget, HandlesAuthored, files
<1>3. CASE PruneUnlink(p)
  BY <1>1, <1>3 DEF PruneUnlink, Raise, files
<1>4. CASE ClearEntry(p)
  BY <1>1, <1>4 DEF ClearEntry, files
<1>5. CASE MakeEntry(p)
  BY <1>1, <1>5 DEF MakeEntry, files
<1>6. CASE WriteEntry(p)
  BY <1>1, <1>6 DEF WriteEntry, Raise, files
<1>7. CASE Symlink(p)
  BY <1>1, <1>7 DEF Symlink, Raise, files
<1>8. CASE CopyTree(p)
  BY <1>1, <1>8 DEF CopyTree, Raise, files
<1>9. QED
  BY <1>1, <1>2, <1>3, <1>4, <1>5, <1>6, <1>7, <1>8
     DEF Works, OwnDirectory, IsLink, Unlink, Mkdir, PruneList, PruneTest,
         MaterializeInto, ClearList, Load, LinkAllSkills, LinkList, LinkTest, Assembled,
         Raise, files

\* One case per action.
LEMMA StepIsCareful ==
    ASSUME IInv, AuthoredLinked, NEW p \in Proc, Works(p), OwnsDir(p), orderly',
           ~Scarred, ~Scarred',
           Walks(p), \A x \in Memory : Passed(p, x)
    PROVE  Careful(p)
<1> USE CatalogAssumption
    DEF IInv, TypeOK, AuthoredLinked, OwnsDir, InDir, BeforeDir, Publishing, Linking,
        Walks, Passed, Pruned, Cleared, ToWrite, ToLink, MemoryRight, SkillRight, Careful,
        Scarred, Goto, Visit, At, Done, Leave, Raise, Name, Named, Entry, files, Here, Put
<1>1. CASE EnsureTest(p)
  BY <1>1 DEF EnsureTest
<1>2. CASE Relink(p)
  BY <1>2 DEF Relink
<1>3. CASE MakeTarget(p)
  BY <1>3 DEF MakeTarget
<1>4. CASE WriteTarget(p)
  BY <1>4 DEF WriteTarget, HandlesAuthored
<1>5. CASE IsLink(p)
  BY <1>5 DEF IsLink
<1>6. CASE Unlink(p)
  BY <1>6 DEF Unlink
<1>7. CASE Mkdir(p)
  BY <1>7 DEF Mkdir
<1>8. CASE PruneList(p)
  BY <1>8 DEF PruneList
<1>9. CASE PruneTest(p)
  BY <1>9 DEF PruneTest
<1>10. CASE PruneUnlink(p)
  BY <1>10 DEF PruneUnlink
<1>11. CASE ClearList(p)
  BY <1>11 DEF ClearList
<1>12. CASE ClearEntry(p)
  BY <1>12 DEF ClearEntry
<1>13. CASE Load(p)
  BY <1>13 DEF Load
<1>14. CASE MakeEntry(p)
  BY <1>14 DEF MakeEntry
<1>15. CASE WriteEntry(p)
  BY <1>15 DEF WriteEntry
<1>16. CASE LinkList(p)
  BY <1>16 DEF LinkList
<1>17. CASE LinkTest(p)
  BY <1>17 DEF LinkTest
<1>18. CASE Symlink(p)
  BY <1>18 DEF Symlink
<1>19. CASE CopyTree(p)
  BY <1>19 DEF CopyTree
<1>20. CASE Assembled(p)
  BY <1>20 DEF Assembled
<1>21. QED
  BY <1>1, <1>2, <1>3, <1>4, <1>5, <1>6, <1>7, <1>8, <1>9, <1>10, <1>11, <1>12, <1>13,
     <1>14, <1>15, <1>16, <1>17, <1>18, <1>19, <1>20
     DEF Works, Publish, OwnDirectory, MaterializeInto, LinkAllSkills

\* A process that starts alone is ahead of every name; one at work is careful,
\* and another's care takes nothing from what it has passed or has ahead.
LEMMA TidyKept == IInv /\ AuthoredLinked /\ OrderInv /\ TidyInv /\ [Next]_vars => TidyInv'
<1> DEFINE Tidy ==
      /\ \A p \in Proc : Walks(p) /\ \A x \in Memory : Passed(p, x)
      /\ \A x \in Memory : MemoryRight(x) \/ \E q \in Proc : ToWrite(q, x)
      /\ \A x \in Authored : SkillRight(x) \/ \E q \in Proc : ToLink(q, x)
<1> SUFFICES ASSUME IInv, AuthoredLinked, OrderInv, TidyInv, [Next]_vars,
                    orderly', ~Scarred'
             PROVE  Tidy'
  BY DEF TidyInv
<1>1. CASE UNCHANGED vars
  <2>1. orderly /\ ~Scarred
    BY <1>1 DEF vars, files, ghost, Scarred
  <2>2. Tidy
    BY <2>1 DEF TidyInv
  <2>3. QED
    BY <1>1, <2>2
       DEF vars, files, local, Walks, Passed, Pruned, Cleared, MemoryRight,
           SkillRight, ToWrite, ToLink
<1>2. CASE SaveStore
  BY <1>2 DEF SaveStore
<1>3. ASSUME NEW p \in Proc, StartAssembly(p) \/ StartPublishing(p)
      PROVE  Tidy'
  <2>1. PICK l \in {"isLink", "ensure"} : Start(p, l)
    BY <1>3 DEF StartAssembly, StartPublishing
  <2>2. orderly \/ Quiet
    BY <2>1, Zenon DEF Start
  <2>3. /\ pc'[p] = l /\ \A q \in Proc \ {p} : pc'[q] = pc[q]
        /\ UNCHANGED <<link, catalog, tracked, active, todo, cur>>
    BY <2>1 DEF Start, Goto, files, IInv, TypeOK
  <2>4. ~Scarred
    BY <2>3 DEF Scarred
  <2>5. ASSUME NEW q \in Proc
        PROVE  Walks(q)' /\ \A x \in Memory : Passed(q, x)'
    <3>1. CASE pc'[q] \in {"isLink", "ensure", "idle"}
      BY <3>1 DEF Walks, Passed, Pruned, Cleared, Linking
    <3>2. CASE pc'[q] \notin {"isLink", "ensure", "idle"}
      <4>1. pc'[q] = pc[q] /\ orderly
        BY <2>2, <2>3, <3>2 DEF Quiet
      <4>2. Walks(q) /\ \A x \in Memory : Passed(q, x)
        BY <2>4, <4>1 DEF TidyInv
      <4>3. QED
        BY <2>3, <4>1, <4>2 DEF Walks, Passed, Pruned, Cleared
    <3>3. QED
      BY <3>1, <3>2
  <2>6. \A x : ToWrite(p, x)' /\ ToLink(p, x)'
    BY <2>3 DEF ToWrite, ToLink, BeforeDir, Publishing
  <2>7. QED
    BY <2>5, <2>6
<1>4. ASSUME NEW p \in Proc, Works(p) PROVE Tidy'
  <2>1. /\ orderly /\ active' = active
        /\ \A q \in Proc \ {p} : /\ pc'[q] = pc[q]
                                 /\ todo'[q] = todo[q]
                                 /\ cur'[q] = cur[q]
    BY <1>4, OneProcessMoves
  <2>2. OwnsDir(p)
    BY <2>1 DEF OrderInv
  <2>3. ~Scarred
    BY <1>4, <2>2, ScarsStay
  <2>4. Tidy
    BY <2>1, <2>3 DEF TidyInv
  <2>5. Careful(p)
    <3>1. Walks(p) /\ \A x \in Memory : Passed(p, x)
      BY <2>4
    <3>2. QED
      BY <1>4, <2>2, <2>3, <3>1, StepIsCareful
  <2> HIDE DEF Tidy
  <2>6. ASSUME NEW q \in Proc
        PROVE  Walks(q)' /\ \A x \in Memory : Passed(q, x)'
    <3>1. CASE q = p
      BY <2>5, <3>1 DEF Careful
    <3>2. CASE q # p
      <4>1. Walks(q) /\ \A x \in Memory : Passed(q, x)
        BY <2>4 DEF Tidy
      <4>2. pc'[q] = pc[q] /\ todo'[q] = todo[q] /\ cur'[q] = cur[q]
        BY <2>1, <3>2
      <4>3. Walks(q)'
        BY <2>1, <4>1, <4>2 DEF Walks
      <4>4. ASSUME NEW x \in Memory PROVE Passed(q, x)'
        <5>1. \/ catalog'[x] \in {catalog[x], "none"}
              \/ x \in active /\ catalog'[x] \in {"empty", "skill"}
          BY <2>5 DEF Careful
        <5>2. QED
          BY <2>1, <4>1, <4>2, <5>1 DEF Passed, Pruned, Cleared
      <4>5. QED
        BY <4>3, <4>4
    <3>3. QED
      BY <3>1, <3>2
  <2>7. ASSUME NEW x \in Memory
        PROVE  MemoryRight(x)' \/ \E q \in Proc : ToWrite(q, x)'
    <3>1. CASE catalog'[x] # catalog[x] \/ ToWrite(p, x)
      BY <2>5, <3>1 DEF Careful
    <3>2. CASE catalog'[x] = catalog[x] /\ MemoryRight(x)
      BY <2>1, <3>2 DEF MemoryRight
    <3>3. ASSUME NEW q \in Proc \ {p}, ToWrite(q, x)
          PROVE  ToWrite(q, x)'
      BY <2>1, <3>3 DEF ToWrite
    <3>4. QED
      BY <2>4, <3>1, <3>2, <3>3 DEF Tidy
  <2>8. ASSUME NEW x \in Authored
        PROVE  SkillRight(x)' \/ \E q \in Proc : ToLink(q, x)'
    <3>1. CASE SkillRight(x) \/ ToLink(p, x)
      BY <2>5, <3>1 DEF Careful
    <3>2. ASSUME NEW q \in Proc \ {p}, ToLink(q, x)
          PROVE  ToLink(q, x)'
      BY <2>1, <3>2 DEF ToLink
    <3>3. QED
      BY <2>4, <3>1, <3>2 DEF Tidy
  <2>9. QED
    BY <2>6, <2>7, <2>8 DEF Tidy
<1>5. ASSUME NEW p \in Proc, Crash(p) PROVE FALSE
  BY <1>5 DEF Crash, Raise
<1>6. QED
  BY <1>1, <1>2, <1>3, <1>4, <1>5 DEF Next, Works

LEMMA QBegins == Init => QInv
BY DEF Init, QInv, AuthoredLinked, OrderInv, TidyInv, Name

\* However many assemblies overlap, once all have reached their end over one
\* content of the store, the catalog holds exactly the active memories and a
\* symlink for each tracked skill (materialize.assemble_deploy_catalog), if no
\* earlier overlap has left something that stays.
THEOREM QuietCatalogIsExact == Spec => []QuietIsExact
<1>1. QInv => QuietIsExact
  <2> SUFFICES ASSUME QInv, Quiet, orderly, ~Scarred
               PROVE  /\ link = "dir"
                      /\ \A x \in Memory : MemoryRight(x)
                      /\ \A x \in Authored :
                           catalog[x] = IF tracked[x] = "skill" THEN "link" ELSE "none"
    BY DEF QuietIsExact, MemoryRight
  <2>1. \A q \in Proc : /\ pc[q] \notin BeforeDir
                        /\ \A x : ~ToWrite(q, x) /\ ~ToLink(q, x)
    BY DEF Quiet, BeforeDir, Publishing, ToWrite, ToLink, Linking
  <2>2. \A x \in Authored : SkillRight(x) /\ catalog[x] # "copy"
    BY <2>1 DEF QInv, TidyInv, Scarred
  <2>3. QED
    BY <2>1, <2>2 DEF QInv, OrderInv, TidyInv, AuthoredLinked, SkillRight
<1>2. Init /\ [][Next]_vars => [](IInv /\ QInv)
  <2>1. IInv /\ QInv /\ [Next]_vars => IInv' /\ QInv'
    BY StepKeeps, AuthoredLinkedKept, OrderKept, TidyKept DEF QInv
  <2>2. QED
    BY <2>1, InitHolds, QBegins, PTL
<1>3. QED
  BY <1>1, <1>2, PTL DEF Spec
=============================================================================
