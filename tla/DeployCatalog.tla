---------------------------- MODULE DeployCatalog ----------------------------
(***************************************************************************)
(* The catalog an agent discovers (materialize.assemble_deploy_catalog):   *)
(* .claude/skills holds one directory per active memory and one symlink    *)
(* per skill of the git-tracked skills directory.  A SessionStart hook and *)
(* every consolidation assemble it again, in processes that take no lock;  *)
(* publishing a live skill (induce.write_skill) first calls the legacy     *)
(* config.ensure_skill_link, which makes .claude/skills itself a symlink   *)
(* to the tracked directory whenever it finds nothing there.               *)
(***************************************************************************)
EXTENDS Naturals, FiniteSets

CONSTANTS
    Proc,       \* processes that assemble or publish
    Memory,     \* names of memory skills: mem-* and ex-*
    Authored,   \* names of skills of the tracked directory
    None,       \* no name
    MaxStarts,  \* bound: how often a process starts
    MaxSaves    \* bound: how often the store changes

ASSUME CatalogAssumption ==
    /\ Memory \cap Authored = {}
    /\ None \notin Memory \cup Authored
    /\ MaxStarts \in Nat
    /\ MaxSaves \in Nat

VARIABLES
    link,     \* what .claude/skills is
    catalog,  \* its entries once it is a directory of its own
    tracked,  \* the entries of the tracked skills directory
    active,   \* the memories the store holds active
    pc,       \* [Proc -> where it stands]
    todo,     \* [Proc -> names its loop still has to visit]
    cur,      \* [Proc -> the name its loop is at]
    starts, saves,
    calm,     \* no process has started while another was at work
    orderly   \* since a process last started alone none was killed or raised,
              \* the store stayed as it was, and none made the legacy symlink
              \* under the feet of another

files == <<link, catalog, tracked>>
local == <<pc, todo, cur>>
ghost == <<starts, saves, calm, orderly>>
vars == <<files, active, local, ghost>>

Name == Memory \cup Authored

\* none; a directory without and with SKILL.md; a symlink; a copy of a skill.
Entry == {"none", "empty", "skill", "link", "copy"}

Init ==
    /\ link \in {"none", "symlink", "dir"}
    /\ catalog = [x \in Name |-> "none"]
    /\ \E a \in SUBSET Authored :
         tracked = [x \in Name |-> IF x \in a THEN "skill" ELSE "none"]
    /\ active \in SUBSET Memory
    /\ pc = [p \in Proc |-> "idle"]
    /\ todo = [p \in Proc |-> {}]
    /\ cur = [p \in Proc |-> None]
    /\ starts = 0 /\ saves = 0
    /\ calm = TRUE /\ orderly = FALSE

-----------------------------------------------------------------------------
\* The path .claude/skills/x leads into the tracked directory as long as
\* .claude/skills is the symlink.

Here(x) == IF link = "symlink" THEN tracked[x] ELSE catalog[x]

\* Creating the parents as os.makedirs does.
Put(x, e) ==
    IF link = "symlink"
    THEN /\ tracked' = [tracked EXCEPT ![x] = e]
         /\ UNCHANGED <<link, catalog>>
    ELSE /\ catalog' = [catalog EXCEPT ![x] = e]
         /\ link' = "dir"
         /\ UNCHANGED tracked

Goto(p, l) == pc' = [pc EXCEPT ![p] = l]
Visit(p, names) == todo' = [todo EXCEPT ![p] = names]
At(p, x) == cur' = [cur EXCEPT ![p] = x]
Done(p, x) == Visit(p, todo[p] \ {x})

Quiet == \A p \in Proc : pc[p] = "idle"

\* The process leaves: at the end of its work, by an exception, killed.
Leave(p) == Goto(p, "idle") /\ Visit(p, {}) /\ At(p, None)

Raise(p) ==
    /\ Leave(p)
    /\ orderly' = FALSE
    /\ UNCHANGED <<files, active, starts, saves, calm>>

-----------------------------------------------------------------------------

Start(p, l) ==
    /\ pc[p] = "idle"
    /\ starts < MaxStarts
    /\ starts' = starts + 1
    /\ Goto(p, l)
    /\ calm' = (calm /\ Quiet)
    /\ orderly' = (orderly \/ Quiet)
    /\ UNCHANGED <<files, active, todo, cur, saves>>

\* evolve materialize, or a consolidation that stages its candidates ...
StartAssembly(p) == Start(p, "isLink")

\* ... or one that publishes them.
StartPublishing(p) == Start(p, "ensure")

\* A reflection replaces the store.
SaveStore ==
    /\ saves < MaxSaves
    /\ saves' = saves + 1
    /\ active' \in SUBSET Memory
    /\ orderly' = FALSE
    /\ UNCHANGED <<files, local, starts, calm>>

Crash(p) == pc[p] # "idle" /\ Raise(p)

-----------------------------------------------------------------------------
\* induce.write_skill of a live skill (its skill_state.json: DeployGate)

\* ensure_skill_link: anything there is left alone ...
EnsureTest(p) ==
    /\ pc[p] = "ensure"
    /\ Goto(p, IF link = "none" THEN "relink" ELSE "target")
    /\ UNCHANGED <<files, active, todo, cur, ghost>>

\* ... and a symlink that cannot be made is no error.
Relink(p) ==
    /\ pc[p] = "relink"
    /\ link' = IF link = "none" THEN "symlink" ELSE link
    /\ orderly' = (orderly /\ (link = "none" => \A q \in Proc \ {p} : pc[q] = "idle"))
    /\ Goto(p, "target")
    /\ UNCHANGED <<catalog, tracked, active, todo, cur, starts, saves, calm>>

MakeTarget(p) ==
    /\ pc[p] = "target"
    /\ \E x \in Authored :
         /\ tracked' = [tracked EXCEPT ![x] = IF @ = "none" THEN "empty" ELSE @]
         /\ At(p, x)
    /\ Goto(p, "targetFile")
    /\ UNCHANGED <<link, catalog, active, todo, ghost>>

\* Another candidate follows, or the assembly.
WriteTarget(p) ==
    /\ pc[p] = "targetFile"
    /\ tracked' = [tracked EXCEPT ![cur[p]] = "skill"]
    /\ \E l \in {"ensure", "isLink"} : Goto(p, l)
    /\ At(p, None)
    /\ UNCHANGED <<link, catalog, active, todo, ghost>>

-----------------------------------------------------------------------------
\* assemble_deploy_catalog: a directory of our own, without old symlinks

\* Mutant of IsLink: the legacy symlink is left where it is.
IsLinkIgnored(p) ==
    /\ pc[p] = "isLink"
    /\ Goto(p, "mkdir")
    /\ UNCHANGED <<files, active, todo, cur, ghost>>

IsLink(p) ==
    /\ pc[p] = "isLink"
    /\ Goto(p, IF link = "symlink" THEN "unlink" ELSE "mkdir")
    /\ UNCHANGED <<files, active, todo, cur, ghost>>

Unlink(p) ==
    /\ pc[p] = "unlink"
    /\ \/ /\ link = "symlink"
          /\ link' = "none"
          /\ Goto(p, "mkdir")
          /\ UNCHANGED <<catalog, tracked, active, todo, cur, ghost>>
       \/ link # "symlink" /\ Raise(p)

\* A symlink to a directory satisfies exist_ok.
Mkdir(p) ==
    /\ pc[p] = "mkdir"
    /\ link' = IF link = "none" THEN "dir" ELSE link
    /\ Goto(p, "pruneList")
    /\ UNCHANGED <<catalog, tracked, active, todo, cur, ghost>>

PruneList(p) ==
    /\ pc[p] = "pruneList"
    /\ \/ /\ link # "none"
          /\ Visit(p, {x \in Name : Here(x) # "none"})
          /\ Goto(p, "prune")
          /\ UNCHANGED <<files, active, cur, ghost>>
       \/ link = "none" /\ Raise(p)

PruneTest(p) ==
    /\ pc[p] = "prune"
    /\ \E x \in todo[p] :
         /\ Done(p, x)
         /\ \/ /\ Here(x) = "link"
               /\ At(p, x)
               /\ Goto(p, "pruneUnlink")
            \/ /\ Here(x) # "link"
               /\ UNCHANGED <<pc, cur>>
    /\ UNCHANGED <<files, active, ghost>>

PruneUnlink(p) ==
    /\ pc[p] = "pruneUnlink"
    /\ \/ /\ Here(cur[p]) = "link"
          /\ Put(cur[p], "none")
          /\ Goto(p, "prune")
          /\ At(p, None)
          /\ UNCHANGED <<active, todo, ghost>>
       \/ Here(cur[p]) # "link" /\ Raise(p)

-----------------------------------------------------------------------------
\* materialize_into: the memory part, cleared and written anew

\* Mutant of ClearList: every entry is taken for a generated one.
ClearListAll(p) ==
    /\ pc[p] = "prune" /\ todo[p] = {}
    /\ link' = IF link = "none" THEN "dir" ELSE link
    /\ Visit(p, {x \in Name : Here(x) # "none"})
    /\ Goto(p, "clear")
    /\ UNCHANGED <<catalog, tracked, active, cur, ghost>>

\* Mutant of ClearList: what an earlier assembly wrote stays.
ClearListNone(p) ==
    /\ pc[p] = "prune" /\ todo[p] = {}
    /\ link' = IF link = "none" THEN "dir" ELSE link
    /\ Goto(p, "clear")
    /\ UNCHANGED <<catalog, tracked, active, todo, cur, ghost>>

ClearList(p) ==
    /\ pc[p] = "prune" /\ todo[p] = {}
    /\ link' = IF link = "none" THEN "dir" ELSE link
    /\ Visit(p, {x \in Memory : Here(x) # "none"})
    /\ Goto(p, "clear")
    /\ UNCHANGED <<catalog, tracked, active, cur, ghost>>

\* rmtree with its errors ignored: it does not follow a symlink.
ClearEntry(p) ==
    /\ pc[p] = "clear"
    /\ \E x \in todo[p] :
         /\ Done(p, x)
         /\ \/ Here(x) \in {"empty", "skill", "copy"} /\ Put(x, "none")
            \/ Here(x) \in {"none", "link"} /\ UNCHANGED files
    /\ UNCHANGED <<active, pc, cur, ghost>>

Load(p) ==
    /\ pc[p] = "clear" /\ todo[p] = {}
    /\ Visit(p, active)
    /\ Goto(p, "write")
    /\ UNCHANGED <<files, active, cur, ghost>>

\* _write_skill: the directory, then SKILL.md in it
MakeEntry(p) ==
    /\ pc[p] = "write"
    /\ \E x \in todo[p] :
         /\ Done(p, x)
         /\ At(p, x)
         /\ \/ Here(x) = "none" /\ Put(x, "empty")
            \/ Here(x) # "none" /\ UNCHANGED files
    /\ Goto(p, "writeFile")
    /\ UNCHANGED <<active, ghost>>

WriteEntry(p) ==
    /\ pc[p] = "writeFile"
    /\ \/ /\ Here(cur[p]) # "none"
          /\ Put(cur[p], IF Here(cur[p]) = "empty" THEN "skill" ELSE Here(cur[p]))
          /\ Goto(p, "write")
          /\ At(p, None)
          /\ UNCHANGED <<active, todo, ghost>>
       \/ Here(cur[p]) = "none" /\ Raise(p)

-----------------------------------------------------------------------------
\* link_all_skills: a symlink for every tracked skill

LinkList(p) ==
    /\ pc[p] = "write" /\ todo[p] = {}
    /\ Visit(p, {x \in Name : tracked[x] # "none"})
    /\ Goto(p, "link")
    /\ UNCHANGED <<files, active, cur, ghost>>

\* Mutant of LinkTest: the name to link is not taken down.
LinkTestUnnamed(p) ==
    /\ pc[p] = "link"
    /\ \E x \in todo[p] :
         /\ Done(p, x)
         /\ Goto(p, IF tracked[x] = "skill" /\ Here(x) = "none" THEN "symlink" ELSE "link")
    /\ UNCHANGED <<files, active, cur, ghost>>

LinkTest(p) ==
    /\ pc[p] = "link"
    /\ \E x \in todo[p] :
         /\ Done(p, x)
         /\ \/ /\ tracked[x] = "skill" /\ Here(x) = "none"
               /\ At(p, x)
               /\ Goto(p, "symlink")
            \/ /\ tracked[x] # "skill" \/ Here(x) # "none"
               /\ UNCHANGED <<pc, cur>>
    /\ UNCHANGED <<files, active, ghost>>

Symlink(p) ==
    /\ pc[p] = "symlink"
    /\ \/ /\ link # "none" /\ Here(cur[p]) = "none"
          /\ Put(cur[p], "link")
          /\ Goto(p, "link")
          /\ At(p, None)
          /\ UNCHANGED <<active, todo, ghost>>
       \/ /\ link = "none" \/ Here(cur[p]) # "none"
          /\ Goto(p, "copytree")
          /\ UNCHANGED <<files, active, todo, cur, ghost>>

\* The fallback for any OSError, "it exists by now" included.
CopyTree(p) ==
    /\ pc[p] = "copytree"
    /\ \/ /\ tracked[cur[p]] # "none" /\ Here(cur[p]) = "none"
          /\ Put(cur[p], "copy")
          /\ Goto(p, "link")
          /\ At(p, None)
          /\ UNCHANGED <<active, todo, ghost>>
       \/ /\ tracked[cur[p]] = "none" \/ Here(cur[p]) # "none"
          /\ Raise(p)

Assembled(p) ==
    /\ pc[p] = "link" /\ todo[p] = {}
    /\ Leave(p)
    /\ UNCHANGED <<files, active, ghost>>

-----------------------------------------------------------------------------

Publish(p) == EnsureTest(p) \/ Relink(p) \/ MakeTarget(p) \/ WriteTarget(p)

OwnDirectory(p) ==
    IsLink(p) \/ Unlink(p) \/ Mkdir(p)
    \/ PruneList(p) \/ PruneTest(p) \/ PruneUnlink(p)

MaterializeInto(p) ==
    ClearList(p) \/ ClearEntry(p) \/ Load(p) \/ MakeEntry(p) \/ WriteEntry(p)

LinkAllSkills(p) ==
    LinkList(p) \/ LinkTest(p) \/ Symlink(p) \/ CopyTree(p) \/ Assembled(p)

Next ==
    \/ \E p \in Proc :
         \/ StartAssembly(p) \/ StartPublishing(p)
         \/ Publish(p)
         \/ OwnDirectory(p) \/ MaterializeInto(p) \/ LinkAllSkills(p)
         \/ Crash(p)
    \/ SaveStore

Spec == Init /\ [][Next]_vars

-----------------------------------------------------------------------------

Publishing == {"ensure", "relink", "target", "targetFile"}
Linking == {"symlink", "copytree"}
Named == {"targetFile", "pruneUnlink", "writeFile"} \cup Linking

\* Every variable has its type.
TypeOK ==
    /\ link \in {"none", "symlink", "dir"}
    /\ catalog \in [Name -> Entry]
    /\ tracked \in [Name -> Entry]
    /\ active \in SUBSET Memory
    /\ pc \in [Proc -> {"idle", "isLink", "unlink", "mkdir", "pruneList", "prune",
                        "clear", "write", "link"} \cup Publishing \cup Named]
    /\ todo \in [Proc -> SUBSET Name]
    /\ cur \in [Proc -> Name \cup {None}]
    /\ \A p \in Proc : pc[p] \in Named => cur[p] \in Name
    /\ starts \in Nat /\ saves \in Nat
    /\ calm \in BOOLEAN /\ orderly \in BOOLEAN

\* Wherever .claude/skills leads while processes race, and wherever one is
\* killed, no step of an assembly or a publication takes a published skill out
\* of the tracked directory (_clear_generated: "leave promoted skills /
\* symlinks alone").
NeverClobbers ==
    [][\A x \in Authored : tracked[x] = "skill" => tracked'[x] = "skill"]_vars

\* Two things no later assembly undoes: a memory written into the tracked
\* directory (from then on it is linked like an authored skill, whatever the
\* store says of it), and a copy of a skill in the catalog (it is neither
\* pruned nor refreshed).
Scarred ==
    \/ \E x \in Memory : tracked[x] # "none"
    \/ \E x \in Authored : catalog[x] = "copy"

\* Neither happens to processes that run one after the other, wherever each of
\* them is killed (assemble_deploy_catalog: "we own a real dir now").
OnlyOverlapScars == calm => ~Scarred

\* Assemblies that overlap and all reach their end, over one content of the
\* store, agree: once all is quiet the catalog holds exactly the active
\* memories and a symlink for each tracked skill, whatever assemblies killed
\* before them left behind (assemble_deploy_catalog: "Idempotent").
QuietIsExact ==
    Quiet /\ orderly /\ ~Scarred =>
        /\ link = "dir"
        /\ \A x \in Memory : catalog[x] = IF x \in active THEN "skill" ELSE "none"
        /\ \A x \in Authored : catalog[x] = IF tracked[x] = "skill" THEN "link" ELSE "none"
=============================================================================
