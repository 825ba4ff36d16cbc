# A TLA+ development of native_evolve

native_evolve gives a command-line coding agent a memory that evolves.  After
every task an LLM, the *Reflector*, proposes small edits (deltas) to a store of
lessons (bullets); a deterministic curator applies them and credits the bullets
the agent used; from time to time an LLM, the *inducer*, condenses lessons into
skills, and a with/without comparison decides whether a skill goes live; the
lessons and skills are laid out as a catalog of files the agent discovers.  The
repository has two programs that share this engine: the **deployment**
(`engine/`, driven by hooks, one detached process per reflection) and the
**evaluation harness** (`eval/prequential.py`, one process, sequential or with
pools of threads).

Paths below are relative to the repository's source root, so `engine/evolve/store.py`
is `src/engine/evolve/store.py` in `PROJECT.json`.

## 1. Inventory

### Components, their state and their operations

| Component | State it keeps | Operations that change it | Module |
|---|---|---|---|
| memory store (`evolve/store.py`) | `memory/store.jsonl`, `memory/skill_state.json`, `tmp` files named by pid, `STORE_LOCK` | `save` and `save_skill_state` through `_atomic_write`; `load`, `next_id` read | Reflection, Serving, DeployGate |
| curator (`evolve/curate.py`) | none of its own; a loaded list, `by_id`, the next id | `merge` (add, reinforce, revise), `credit` | MemoryStore, Reflection, AtomicStore |
| reflection (`evolve/reflect.py`; `learn_job` of the harness) | the answer of the Reflector | `run`: merge, then credit, then consolidate | Reflection |
| Stop hook (`adapters/claude_code/hook_stop.py`) | none | spawns a detached reflection | Reflection, DeployGate (as `Proc`, `Crash`) |
| deployment consolidation (`evolve/promote.py`) | `memory/.reflect_count`, `memory/gate_window.json` | `_reflect_tick`, `consolidate_deploy` | DeployGate |
| promotion gate (`evolve/verify.py`) | the evidence window | `rolling_decision`; `gate_tally` decides | EvidenceWindow |
| skill inducer (`evolve/induce.py`) | `SKILL.md` files, entries of `skill_state.json` | `induce`, `induce_incremental`, `write_skill` | DeployGate, Consolidation, DeployCatalog |
| skill catalog (`evolve/materialize.py`, `evolve/config.py`) | `.claude/skills`, links into the tracked `skills/` | `assemble_deploy_catalog`, `ensure_skill_link` | DeployCatalog |
| consolidation of the harness (`prequential.consolidate`) | three watermarks | periodic and final `consolidate`, `_run_gate` | Consolidation |
| parallel learning (`prequential.serve_and_learn`, `batched_learn`; `llm.pmap`) | two thread pools, a list of futures | serve, submit, learn, drain | ParallelLearning |
| repair loop (`prequential.monotone_repair`) | answer, current attempt, verdict, trace | one per branch | MonotoneRepair, TaskSolve |
| LLM calls (`evolve/llm.py`) | a cost ledger | retries, append; `pmap` | TaskSolve, ParallelLearning |
| self-verification (`eval/self_verify.py`) | channels tried, failures found | run of the code, critique, verdict | TaskSolve |
| retrieval (`evolve/retrieve.py`), UserPromptSubmit and PostToolUse hooks, Codex adapter | what a session was shown, the log of what it invoked | select, pick, match | Serving |
| prequential stream (`prequential.main`, `stratified_split`, `deploy_parallel`) | the split, the phase, the rows and their cost curve | one phase after another | HarnessMain |
| external optimizer (`eval/external_opt.py`) | examples, the skill text | rollouts, synthesis | HarnessMain, ParallelLearning |
| experiment runner (`eval/run.py`) | the runs and their results | start, end, raise, summarise | HarnessMain |
| episodic memory (`evolve/episodic.py`) | `episodes.jsonl`, append only | `record`, which may fail | its order of tasks, in Consolidation |
| command line (`scripts/evolve`) | none | a call of the above | `materialize`, in DeployCatalog |
| task environments, vendored scorers, statistics, figures, downloads | none that others share | none | not modelled |

`src/papers` and `src/results` hold third-party code and data; nothing there is
part of the program.

### How they interact

* Reflections, consolidations, catalog assemblies and retrieval share **files
  only**.  In a deployment each Stop hook starts a process that nobody waits
  for, so several are alive at once, and a SessionStart hook assembles the
  catalog beside them.  `STORE_LOCK` is a lock between *threads*; only
  `learn_job` of the harness takes it.
* Three disciplines of writing meet: replaced as a whole through a tmp file
  (`store.jsonl`, `skill_state.json`), rewritten in place (`.reflect_count`,
  `gate_window.json`, `SKILL.md`), and entry by entry (the catalog).
* The LLM answers anything, late, or raises: every module that calls it leaves
  the answer open and has the failing branch.
* Many file errors are swallowed: a read that fails counts as an empty file, a
  write that fails leaves the program going on with what it has in memory.  The
  models take these branches (`MayFailIO`, `MayFail`), and the properties say how
  far the result can still be relied on.
* The harness hands results between threads by futures, and from one
  consolidation to the next by watermarks over the store.

### What is hard here

Read-modify-write of whole files by processes without a lock; a kill between
truncating a file and filling it; directories that change under a listing; an
index noted as done before the call that does it; exceptions that stay in a
future; an exception that skips the drain of a pool; errors that are swallowed
half-way; a noisy judge that is trusted twice; ids that are used minutes after
they were read; retries that must be paid for once; a curve rebuilt from parts
that arrive in any order.  `PROJECT.json` lists each with
its line, under "hazards".

### What makes each part correct

* **store and curator**: a reader never sees half a file; ids identify bullets;
  a bullet's status agrees with its votes; no update is lost; a reflection is
  all of its merge and all of its credit.
* **deployment gate**: nothing goes live without the comparisons the rule asks
  for; the evidence counters tell one story; a status names a file that exists.
  And, each up to the event that spoils it: inductions are paced, decisions rest
  on all the evidence, no registered skill is forgotten.
* **catalog**: tracked skills survive; when all is quiet the catalog is what the
  store and the tracked directory say.
* **consolidation**: the inducer sees no lesson twice, and a task gates a second
  consolidation only when no episode was recorded since; the skills the inducer
  is told of stay live; nothing is missing at the freeze.
* **parallel learning**: the phase ends, and nothing runs on behind its back
  unless the run has failed.
* **serving**: the best lessons are shown, and the credit goes to the lessons
  that were shown, also when the store has moved on.
* **repair**: the result is the first answer or a repair that passed; a clean
  run of the code is never overruled; the cost is what the ledger says.
* **a run and a launch**: no phase begins beside threads of the one before, the
  split keeps the mix of classes, the cost curve ends at the ledger, a launch is
  over when the last thread of its runs is, a summary is of whole runs.

## 2. The modules

Every module has one action per step another actor can come between, named
after the function it is a step of, and `PROJECT.json` maps every definition to
its lines.  Ghost variables record history for the properties only: no guard
reads them, except that `started`, `starts`, `saves` and `runs` also bound the
exploration.

**MemoryStore** holds the curator as pure functions of bullets: near-duplicates
by Jaccard over token sets (a constant `Tokens`, the threshold 0.8 as a ratio;
`TokensAssumption` says that a text has finitely many),
the next id, what a vote, a reinforcement and a credit do to a bullet.  A bullet
keeps id, content, votes, uses and status; type, scope and dates are left out.

**Reflection** runs merge and credit step by step: load, one step per delta (its
seven cases, the malformed one included), open, write and replace the tmp file,
credit with one step per id.  `Locked = TRUE` is the learner pool of the
harness: one pid, `STORE_LOCK` over both operations, and only the whole process
can be killed (`CrashAll`).  `Locked = FALSE` is the deployment: pids of their
own, no lock, each killed anywhere (`Crash`), its tmp file left behind.

**AtomicStore** is the abstract specification: one variable, changed by a whole
merge or a whole credit at a time, each of them a function of the list that is
loaded.  **ReflectionRefinement** instantiates it with `store <- disk`, the file
itself: no half of a write may ever be in it.

**Serving** extends Reflection by the sessions that read the store: `Serve`
takes a snapshot of the live file without any lock, `Learn` begins the
reflection with the ids the session was shown (`lexical`, `prompt`), a model
picked from an index (`agentic`), or the log of skill invocations names
(`native`), and the reflection credits them later.  Selection is a stable sort by
score, with the code's caps; ids are numbers, and `Within` says when a catalog
name is found in the text of another (`mem-m-1000` in `mem-m-10000`).  `Abandon` is
the session no reflection follows.  The harness's sessions lock, those of hooks
and of the Codex adapter (`prompt`) do not.  What is modelled is the order of
`serve_one` (serve, solve, then merge and credit under the lock); the sequential
`process` credits before it merges.

**EvidenceWindow** and **DeployGate**: the counters of `rolling_decision` and
the accept rule; the count, the induction, the gated and the ungated branch,
and `write_skill` for each candidate.  A file being rewritten is `Empty`
between its two steps; two writers in it may leave `Mixed`, which parses as no
evidence, or for the count a number that is neither's (`MixedTicks`).  With
`MayFailIO` each read may fail, which counts as an empty file, and each open or
write of the two rewritten files may fail, which is swallowed: the process takes
its turn, or decides, on the value it has in memory, and the file stays as it was
(the open failed) or empty (the write failed).  In `write_skill` only the read of
the state is swallowed; any other error raises, and is a `Crash`.  Three ghosts
record the first event after which a property is not claimed any more.
`tickSound`: no two processes were ever inside the count at once, and its file
could always be opened.  `gateSound`: no two were inside the window at once, and
every window was read and written to the end.  `stateSound`: no two registered a
skill at once, and the state could be read.

**DeployCatalog**: the path `.claude/skills` is nothing, a symlink to the
tracked directory or a directory of its own, and every step of an assembly goes
through whatever the path is at that moment (`Here`, `Put`).  Directories are
functions from names to what stands there.  Removing or copying one entry's
tree is one step.  Names of memories and of authored skills are disjoint: the
code tells them apart by the prefixes `mem-` and `ex-`.  The caps of 40
memories and 20 episodes are left out, and the file system has symlinks.
Symlinks that two processes try to make at once take the fallback for file
systems without them, as in the code.

**Consolidation**: the sequential learning phase.  A task leaves an episode and
any number of bullets up to `MaxNew`, and any active ones may be deprecated; the
inducer answers with any list of `Answers`, also one that repeats a name.  With
`MayFail` the episode of a task may not get recorded (`process` prints the error
and goes on), the inducer or a judge may raise, the episodes may not be readable
after the answer (`EpisodesRaise`: the bullets are marked, the answer is lost),
and a skill state that cannot be read is an empty one (`Told`, `GateCandidate`).
A consolidation that finds nothing newly recorded gates on the tasks of all
episodes (`EpisodeTasks`), or on none and drops its candidates.  `mode` is `--consolidate_mode`: the
incremental one shows what the watermark does not hold and filters known names,
the pooled one shows all active bullets and filters nothing.  The gate takes
`GateSample` of the tasks (which ones depends on their names, so any), and its
outcome is any split into rescued, broken and neither, judged by the code's
rule.  `--gate_sample 0` (no cap) is any `GateSample >= TrainN`.

**ParallelLearning**: tasks taken in order by a bounded pool, their learning
queued to another one, the drain; the batched mode with the main thread
re-raising out of a pool; and rollouts, whose results come back in the order of
their items.  A task that is served may raise, before or after its learning is
submitted (`ServeRaises`); the phase is then aborted without the drain.  **HarnessMain** runs such phases one after another as
`prequential.main` does: split, learn (serving, batched, sequential in one step
that may fail, or the external optimizer's rollouts and synthesis), final
consolidation, deployment, rows.  After an aborted serving phase the learners
work off their queue behind the run that has failed (`Leftover`), and only then
does its process end.  A cost is a number of answered calls; a call that a task's own
cost leaves out, or whose line cannot be appended to the ledger (`_log_ledger`
swallows the error), sets `uncounted`.  Around one run, `Focus`, stands the launcher
of `eval/run.py` with `Runs` of them, the others of which only end well or badly.

**MonotoneRepair**: the repair loop, over any answers and any check from a set of
checks, each a function from an answer to the verdicts it may give.
**TaskSolve** runs that loop as `solve` does: each verdict comes from the
environment's oracle or from `self_verify` step by step (run the code, perhaps
ask for a critique, conclude), each call is a loop of attempts, and the native
route is one call without a check.  Its ledger takes every line; the append that
fails is in HarnessMain.

`MC*` modules give the constants for TLC.  A definition whose comment begins
"Mutant of" is used by no specification: it is a plausible slip in the code that
the property named with it in `PROJECT.json` must notice.

## 3. The runs

| Run | Question | Distinct states |
|---|---|---|
| `reflect_locked` | Two serving and learning threads, killed together anywhere: types, whole files, sound bullets, the best lessons shown, credit that finds them, no lost update, every session ends, and each step is a step of AtomicStore or a stutter | 181 953 |
| `reflect_hooks` | Two sessions with hook processes, killed anywhere: is what survives a whole, well-formed store? | 476 431 |
| `reflect_hooks_lost` | Do hook processes keep each other's updates? *No* | violated |
| `deploy_hooks` | Two consolidating processes, at once or in turn, killed anywhere: reads and writes that fail: blind activation, counters, status and file, pacing, all the evidence, registrations | 1 624 901 |
| `deploy_window_crash` | Does evidence survive a kill in the middle of its write? *No* | violated |
| `catalog_assembly` | Two processes that assemble or publish, killed anywhere: tracked skills, exact catalog, what needs an overlap to happen | 960 707 |
| `consolidation_faults` | Streams of every length up to five (four in the pooled mode), sampled gates, repeated names, any failure of either call, of a record, of a read | 5 768 009 |
| `consolidation_late` | Does the final consolidation make up for a periodic one that failed? *Not when it falls on the same index* | violated |
| `parallel_phases` | A run of any method and protocol within a launch of three, any of its tasks raising: do its phases end, and what do they leave at work; do the split, the cost curve and the launch come out whole? | 685 290 |
| `parallel_lost` | Is all learning in the store that is frozen? *No* | violated |
| `repair_checks` | A task with up to three rounds of repair under every route of verification, each call tried twice | 172 003 |
| `repair_below` | Can a noisy check score below single shot? *Yes* | violated |

**Bounds, and why they are enough.**  Two processes (threads) suffice for every
race of the code: a process relies only on files, and what a second one can do
between two of its steps is what any number can do one after another; each
process starts again, up to `MaxRuns`, `MaxReflections` or `MaxStarts`, so that
three and four overlapping or consecutive operations occur.  The stores of
`MCStores` have an empty one and one with a gap in its ids, a bullet one vote
from deprecation and a deprecated one; the delta lists reach each case of merge,
both orders of near-duplicates (which are not transitive: a~b, b~c, not a~c),
and a malformed delta after one that was applied.  `Every = 2` with four
reflections gives two turns; `MinN = 2` and `Margin = 1` with rounds that help,
harm and show nothing make the rule accept and refuse in both orders.  Each
induction has two candidates in one order (`MCCandidateLists`); the two processes
are alike, so states are taken up to exchanging them (`Alike`; the run checks
invariants and action properties only, none of which names a process).
Two prompts of `TopK = 2` over stores with a deprecated bullet, two of equal
content and up to seven after merging have ties, a cap that cuts, and a
better lesson that comes last.
Streams of every length up to `TrainN = 5`, with `InduceEvery = 2`, end on and
between multiples, `MaxItems = 3` makes the digest cut, and `GateSample = 3`
the gate.  The pooled mode keeps no watermark and is followed up to `PooledN = 4`
tasks.  The answers have none, one, two and twice the same name; five tasks, of
which any subset is recorded, reach the fallback on all episodes both with
something to gate on again and with nothing.  Phases of up to three tasks (five
in `parallel_lost`) on two threads, in chunks of two, have the single task that
`pmap` runs without a pool, a full pool, a task that waits for one, and a job in
the queue of an aborted phase beside one at work.  The mixes of `MCMixes` have a
class that outweighs the others, and too few tasks for both slices; three runs on
one worker and on two have runs that end, run, wait and fail before and beside the
one followed.  Two memories and one authored
skill give a name that is kept, one that is deprecated and one that is linked.
Three rounds of repair are one more than is needed to go on from a repair that
was itself rejected; the answers are one that is right, one that crashes, one
that no run can judge and an empty one, under all five routes.

**Deadlock** is checked wherever the system is meant to reach its end
(Consolidation, ParallelLearning, HarnessMain, MonotoneRepair, TaskSolve, whose
last states have a stuttering step of their own) and not where processes simply stop coming.

**Fairness.**  `Serving` (`FairServing`): weak fairness of each running
reflection's steps, and of the end of each session, with a reflection or without
one; none for starting a session or a kill.  A started thread runs on, since the
only thing it waits for is the lock, and no step inside the lock waits; a session
ends because its calls have a timeout and a bounded number of retries.  A thread
waiting for the lock gets it if the others leave it free; with finitely many
sessions nobody can hold it again and again.  `ParallelLearning`: weak fairness
of each thread's step and of the main thread's, which is what a thread pool
gives.  A task ends, well or by raising, since its calls have a timeout.  `HarnessMain`: weak fairness of the followed run as a process and of the
launcher, nothing finer: every behaviour of the run is finite, so some thread of
it moving whenever one can is enough.  `TaskSolve`: the task goes on; the retry
loop is bounded, so its end needs no assumption about the CLI.

## 4. Where code and documents disagree

With a run that shows it (quoted in `PROJECT.json`, "findings"):

1. **Concurrent Stop hooks lose updates.**  `STORE_LOCK` is a `threading.RLock`
   and the curator does not take it; `store.py:4-5` and `15-16` promise it
   covers concurrent Stop-hook reflections.  Whole files, unique ids *within
   the file* and sound bullets survive the race; votes and bullets do not.
2. **A kill during the write of `gate_window.json` drops all earlier evidence**,
   and a later round may then activate a skill that the rounds together refuse.
3. **The final consolidation is skipped after a periodic failure** at the same
   index, because the index is noted before the call (`prequential.py:606`).
4. **Parallel learning learns nothing**: `_learn_signals` returns three values
   and `learn_job` unpacks two (`prequential.py:906`, `1044`); the exception
   stays in a future nobody asks.  (The batched mode has the same slip at 1126,
   and there the phase aborts.)  This also means that the locked section of
   `learn_job`, which Reflection and Serving model from the lock on, is not
   reached in the code as it stands: what they show is that it is right once
   line 1044 unpacks what it gets.
5. **The monotone invariant needs a check that passes nothing wrong.**  With one
   that only over-fires, "never below single shot" holds (and is proved); with
   one that errs both ways it does not, though `prequential.py:87` says so of
   "a noisy verify".

Without a run of their own; each can be seen by stating the property named in the
configuration of the passing run:

6. Two processes that read the same count both induce, against "only every Nth"
   (`promote.py:20-21`): `EveryNthOnly`.  With a count that cannot be opened for
   writing (`promote.py:140-141`) they need not even overlap: each reads the same
   count again.  `PacedInductions` says what holds until then.
7. An answer that repeats a name takes the first of the two out of service when
   the second fails its gate (`prequential.py:581`), against "add-only"
   (`induce.py:107`): `AddOnly`.  The names are compared with the library and not
   with one another, and are cut to 48 characters.  `LibraryStays` says what holds
   for any answer.
8. The digest stops at 120 bullets while the watermark takes all
   (`induce.py:30,44`; `prequential.py:467-469,612`): `WatermarkShown` without
   its premise `DigestHoldsAll`.
9. An assembly is called idempotent (`materialize.py:219`), but two things no
   later assembly undoes (`Scarred`): `ensure_skill_link` of a publishing process
   may put the legacy symlink back between another's unlink and mkdir, so that
   memories are written into the tracked directory and from then on linked like
   authored skills, active or not; and the `copytree` fallback may leave a copy
   of a skill that is neither pruned nor refreshed.  `OnlyOverlapScars` says it
   takes two processes at once; `QuietIsExact` without its last premise fails.

Met while modelling, and described here only:

10. `stratified_split` promises that any prefix preserves the class mix
    (`prequential.py:55-57`).  What holds is `MixPreserved`: no class is ahead of
    another by more than the share of one task.  A prefix may all the same be
    far from the mix, since the least `(emitted + 1) / size` favours the large
    classes: with sizes 100 and 1, the single task comes last or next to last.
11. The deployment's cost curve leaves out the calls of self-critique and of
    agentic selection, which go to the ledger but not to the task's own cost
    (`prequential.py:969-971`, `self_verify.py:98`, `retrieve.py:100`), and has
    those whose line could not be appended (`llm.py:154-155`):
    `CurveEndsAtLedger` without its premise `~uncounted`.
12. `match_invoked` looks for substrings (`materialize.py:258-261`): `mem-m-1000`
    is found in a line that names `mem-m-10000` (`Within`), and credited.
13. `write_skill` stores `source_ids` (`induce.py:209`), while
    `_active_skills_with_value` reads `promoted_from`: the value by which active
    skills are ranked is always 0.
14. In the pooled mode, or when a name is repeated, a live skill that is induced
    again and rejected becomes a candidate in `skill_state.json`, but its
    `SKILL.md` stays in the live directory, where `link_all_skills` still links it.
15. `prepare_home` of a second run in the same home empties the ledger and the
    skill state and leaves the store, the episodes and the skills.
16. While `serve_and_learn` runs, the serving and the learning pool call the CLI
    at once: the peak is the sum of their sizes, above the `--max_concurrency`
    that sized the first.
17. Without the lock, an id whose bullet was lost with an overwritten store is
    given out again, so a credit may reach a lesson its session never saw:
    `CreditFindsLesson` without its premise `Locked`.
18. When a task of `serve_and_learn` raises (`prequential.py:778`, `1080`), `pmap`
    re-raises at 1085 and the drain and the shutdown of 1086-1087 are skipped: the
    learners go on with the store, and with paid calls, behind a run that has
    failed, until the interpreter, which waits for them, can exit
    (`NothingRunsBehind` names this exception, `LaunchIsWhole` where it ends).
19. An episode that is not recorded is only printed (`prequential.py:922-926`).
    If none was recorded since the last consolidation, the next one falls back on
    the tasks of all episodes (622) and judges its candidates by tasks that judged
    others before: `FreshEvidence` without its last line, which names this
    exception.
20. A gate's round whose window cannot be written counts for its own decision
    and for none after it (`verify.py:216-217`): `AccumulatesAllRounds` without a
    kill.  `DecidesOnAllEvidence` says how long decisions are whole.
21. A `skill_state.json` that cannot be read is taken for an empty one
    (`store.py:61-67`); the next `write_skill` saves it back with one entry.

## 5. What is proved

Theorems hold for every value of the constants that meets the named `ASSUME`s of
the module; TLC evaluates those on every run.  Each proof module states an
inductive invariant `IInv`, and shows that `Init` implies it, that each action
preserves it, and that it implies the properties; the temporal step is `PTL`.
Every safety property that a passing run checks is the statement of a theorem.

* **Recursion** holds what the others need of recursive functions.  The loops of
  the code (merge, credit, selection, the cost curve) are recursive functions in
  the models, and what they compute for *every* list is an induction over data.
  The library's induction theorems take an operator as a parameter, which none
  of the provers at hand instantiates; here the property is a set and the step a
  function.  *LeastNatural* restates the well-foundedness of the naturals, *UpTo*
  is induction over `0 .. n` for a set, and *RecursionExists* gives a function
  that meets the equations of a recursion, which `CHOOSE` in its definition then
  picks.
* **ReflectionProofs** (`ReflectionAssumption`, `WriterAssumption`: threads of
  one process lock, processes have pids of their own).  *TypeCorrect*,
  *AtomicReplacement* (`NeverTorn`), *IdsStayUnique*, *StatusAgreesWithVotes*
  (`SoundStore`), and under `Locked` *LockedLosesNothing* (`NoLostUpdate`).  The
  properties speak of the file; the invariant has to speak of the private
  copies too: every copy is a good store, merge's next id is above all ids of
  its copy, a writer's tmp file is what it wrote until it is published, and
  under the lock a copy only evolves from the file.  `TmpWritten` is where the
  pid in the name of the tmp file, or the lock, is needed.
  *LockedIsAtomic* (`RefinesAtomicStore`) is the refinement: under the lock every
  step maps to a whole `Merged` or `CreditedAll` of AtomicStore or to a stutter.
  Only `os.replace` writes the file (*OnlyReplaceWrites*, with the lock or
  without), and what it writes is settled by `TracksInv`: the copy in hand and its
  next id are those that `Merging` has after the deltas done so far, applied to
  the file as it still is, or those of `Crediting` after the ids done so far, and
  a merge that meets a malformed delta is never saved.  *AtomicKeepsLessons* says
  that AtomicStore is worth implementing: by itself it keeps ids unique, statuses
  sound and every vote, so whatever refines it has these from it.
* **ServingProofs** (`ServingAssumption` and those of Reflection).
  *ServingReflects*: every step of a session is a step of Reflection or leaves
  the store and its writers alone, so the theorems above carry over
  (*ReadersNeverTorn*, *ServingTypeCorrect*, *ServedIdsUnique*,
  *ServedStatusSound*, *ServingLosesNothing*).  *LessonsStay*: under the lock, a
  snapshot only evolves into what the store is at any later time, so an id that
  was shown still names the lesson it named.  *ServingIsAtomic*
  (`RefinesAtomicStore`): under the lock, sessions too implement AtomicStore.
  *BestAreShown* (`ShowsTheBest`), with the lock or without: filter, stable
  insertion and cut of `Selected` are followed by induction over the list
  (`KeptKeeps`, `RankedKeeps`, `SelectedIsBest`), for any query and any cap.
  *CreditsReachLessons* (`CreditFindsLesson`): whatever way the ids were chosen,
  they name active bullets of the snapshot (`PickedNamesActive`,
  `InvokedNamesActive`), and *LessonsStay* takes them to the list being
  credited.  Both rest on `SessionInv`: a snapshot is a good store, what is shown
  is what was selected from it, a reflection runs only for a session that is
  learning, and it credits what that session has left of its ids.
* **DeployGateProofs** (`DeployAssumption`, `GateAssumption`).
  *DeployTypeCorrect*, *NeverActivatedBlind*, *WindowStaysBalanced*,
  *StatusAlwaysHasFile*.  The window is a sum of rounds, some perhaps missing: a
  race or a kill loses evidence and never invents any (`WindowEarned`,
  `EvidenceEarned`), so a verdict reached on the window was earned by rounds
  that took place.  *DilutionGuardImplied*: on balanced counters the third
  conjunct of the accept rule follows from the second.  Three more invariants
  belong to the properties that hold up to an event.  `TickInv`: as long as
  `tickSound`, one process counts at a time, and neither the file nor the one that
  counts is ever nearer to a turn than the reflections that were made; a count
  that is lost, to a kill or a failing write, only falls behind
  (*InductionsArePaced*, `PacedInductions`).  `GateInv`: as long as `gateSound`,
  the window is all the evidence, or the one process that rewrites it has all of
  it in memory (*DecisionsAreOnAll*, `DecidesOnAllEvidence`).  `StateInv`: as long
  as `stateSound`, the one that saves the skill state has a copy of what is there
  (*RegistrationsSurvive*, `RegistrationSurvives`).
* **DeployCatalogProofs** (`CatalogAssumption`).  *CatalogTypeCorrect* and
  *TrackedSkillsStay* (`NeverClobbers`): tracked skills are real directories, so
  pruning finds no symlink there; clearing and writing visit memories only; a
  name is linked only where nothing stands.  This holds also while the path
  leads into the tracked directory.  *OverlapAloneScars* (`OnlyOverlapScars`): a
  process that works alone (`WorksAlone`) has the directory for itself and finds
  every name it is about to link still free.  *QuietCatalogIsExact*
  (`QuietIsExact`): as long as all is in order, the directory is not taken from
  those at work in it (`OrderInv`), and every name is right or some process has
  it ahead (`TidyInv`); the part of it that is not obvious is `Passed`, that what
  one process has cleared another only writes as the store has it.
* **ConsolidationProofs** (`ConsolidationAssumption`).
  *ConsolidationTypeCorrect*.  *EvidenceStaysFresh* (`FreshEvidence`): what has
  been shown is inside the watermark (`ShownIsMarked`); the episodes are those of
  ascending tasks (`EpisodesRise`), `epMark` parts those counted at some
  consolidation from those of later tasks, and no gate is later than that
  consolidation (`MarkIsCount`), and a gate runs on tasks that were done
  (`GatesTrail`).  So tasks of new episodes have not gated before; and where there
  are none, nothing was recorded since that count, which is what the property
  then asks (`GateIsFresh`).  *WatermarkHoldsShown* and
  *FrozenIsCaptured*: with digests that hold everything the watermark is what was
  shown, and a call that did not fail shows all that is active.  *LiveSkillsStay*
  (`LibraryStays`), for any answers: a candidate waiting for its gate was not in
  the library the inducer was told of (`StillNew`), so no gate writes over one
  that was.
* **HarnessProofs** (`HarnessAssumption` and those of ParallelLearning).
  *PhasesTypeCorrect*, *PhasesLeaveNothing* for one phase; *RunTypeCorrect*,
  *RunLeavesNothing* for the phases of a run.  Each of these begins with the pools
  of the last one at rest: jobs are queued or at work only in a serving phase, and
  one that was aborted with some left is the last of its run.
  *SplitKeepsMix*, an induction over the order by
  cross-multiplied quotients.  *LaunchEndsWhole*: a run that has ended, well or
  not, has no learner at work.  *CurveIsLedger*
  (`CurveEndsAtLedger`): the rows are summed in the order of their indices, the
  costs were added in whatever order the tasks ended.  `CostInv` says in between
  that the ledger is what it was when the deployment began and the sum of the
  costs of all tasks; `SumOfOneMore` is why a task that ends, anywhere among
  them, adds its cost to that sum, and `SumIsUnique` why the curve is it.
* **RepairProofs** (`RepairAssumption`, `SolveAssumption`).  Of the loop:
  *RepairTypeCorrect*, *OnlyPassingIsAdopted*, *TraceIsChained*,
  *PreciseCheckKeepsBaseline*: the result is the first answer until a repair has
  passed, and `cur` is always the last attempt of the trace.  Of the task around
  it: *SolveRunsTheLoop*: a task is a behaviour of MonotoneRepair, so those
  theorems hold of it; *SolveTypeCorrect*; *RunIsAuthoritative*
  (`VerdictAsRouted`); *RowCostIsInLedger* (`CostAccounted`).

**Only model-checked.**  Liveness under fairness (`SessionsEnd`, `PhaseEnds`,
`RepairEnds`): their proofs need ENABLED, which the prover does not handle.  The
five violations are counterexamples on small instances.

## 6. What is not modelled

* Prompts, transcripts, the wording of bullets and skills; scores against gold
  answers: the models take any answer and any score.
* Benchmark environments, vendored checkers, statistics, figures, downloads: no
  shared state.  Agentic attempts are one call to an environment.
* `promote.run` with `gate_pass` and `_write_skill`: superseded, called by
  nothing in the deployment loop.  The drivers of `verify.py` other than
  `rolling_decision`, and `induce_clustered`: called by offline scripts and
  tests only, or by nothing.
* The blocks of `retrieve.py` that render all there is (`full_playbook_block`,
  `skills_block`, `all_active_skills_block`) and `episodic.exemplar_block`: pure
  rendering, no ids to credit.
* The recursion guards of the Stop hook: they read the environment of their own
  process.
* `setup_sandbox`: a private directory of one task.

**How much of the repository this is.**  The program itself, `engine/` and `eval/`,
has about 11 000 lines, of which the benchmark environments, vendored scorers,
statistics and download scripts are more than half.  Everything under
`papers/` (some 200 000 lines of Python) is code of other projects kept for reading: no
module of the program imports it, so it has no place in a model of this
system, and a share of lines counted over the whole tree says little.

## 7. Plan

Done, in this order, the behaviour everything else rests on first: the store
and its writers (MemoryStore, Reflection, AtomicStore, ReflectionProofs); the
deployment's gate (EvidenceWindow, DeployGate, DeployGateProofs); consolidation,
parallel learning and repair of the harness, with their proofs; the catalog
(DeployCatalog, DeployCatalogProofs); then the compositions: sessions over the
store (Serving), tasks with their checks and calls (TaskSolve), a whole run and
its launch (HarnessMain), each with its proofs.

To extend the model:

1. The order of the sequential `process` in Serving: credit before merge, and the
   consolidation between two tasks, as one module with Consolidation.
2. The catalog's episodes (`ex-*`) and their cap, in DeployCatalog.
3. An abstract gate (evidence as a bag of rounds) that DeployGate implements up
   to lost rounds.
4. A second run in a home that was used before (item 15 of section 4).

To prove next: no safety property that is checked today is left; what
remains is what each model listed above brings, first of all the refinement of an
abstract gate.
