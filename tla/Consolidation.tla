--------------------------- MODULE Consolidation ---------------------------
(***************************************************************************)
(* The learning phase of the evaluation harness, run sequentially          *)
(* (prequential.run_phase), with its incremental consolidation             *)
(* (prequential.consolidate): after every InduceEvery tasks, and once more *)
(* before the store is frozen, the inducer is shown the bullets it has not *)
(* seen, and each skill it answers with is gated on the tasks of the new   *)
(* episodes and written as a live skill or as a candidate.  A task whose   *)
(* episode cannot be recorded goes on without; when nothing was recorded   *)
(* since, the gate runs on the tasks of all episodes.  The older "pooled"  *)
(* mode shows the whole pool each time and gates on all episodes.          *)
(***************************************************************************)
EXTENDS Integers, Sequences, FiniteSets

CONSTANTS
    Name,         \* names of skills
    TrainN,       \* bound: tasks of the longest learning phase
    PooledN,      \* bound: of the longest in the pooled mode
    InduceEvery,  \* --induce_every
    MaxItems,     \* memory_digest shows at most so many bullets
    Answers,      \* lists of skill names the inducer may answer with
    Modes,        \* --consolidate_mode: incremental or pooled
    GateSample,   \* --gate_sample: a gate runs on at most so many tasks
    GateMargin,   \* --cluster_gate_margin
    MayFail,      \* claude calls may run out of retries, calls on files fail
    MaxNew        \* bound: bullets one reflection may add

ASSUME ConsolidationAssumption ==
    /\ TrainN \in Nat \ {0} /\ PooledN \in Nat
    /\ InduceEvery \in Nat \ {0}
    /\ MaxItems \in Nat \ {0}
    /\ Answers \subseteq Seq(Name)
    /\ Modes \subseteq {"incremental", "pooled"}
    /\ GateSample \in Nat \ {0}
    /\ GateMargin \in Int
    /\ MayFail \in BOOLEAN
    /\ MaxNew \in Nat

VARIABLES
    pc,            \* task, consolidate, gate or frozen
    mode,          \* incremental or pooled
    length,        \* tasks of this learning phase
    closing,       \* the last task is done: this is the final consolidation
    idx,           \* tasks done
    episodes,      \* episodes.jsonl: the tasks recorded, in their order
    bullets,       \* how many bullets there are: ids 1 .. bullets
    active,        \* the ids of the active ones
    consolidated,  \* _consolidated_idx
    watermark,     \* _consolidated_bullet_ids
    epMark,        \* _consolidated_ep_n
    existing,      \* the skills the inducer was last told the library has
    skills,        \* [Name -> status in skill_state.json]
    cands,         \* candidates still to gate
    gateTasks,     \* the tasks they are gated on
    shown,         \* ghost: <<id, idx>> the inducer has answered about
    gatedOn,       \* ghost: <<task, idx>> candidates were gated on
    counted,       \* ghost: the consolidations that counted the episodes
    raised,        \* ghost: did the latest consolidation raise before the
                   \* inducer answered, and which one was it
    readable       \* ghost: since the inducer was last told of the library,
                   \* skill_state.json could be read

stream == <<mode, length, closing>>
memory == <<idx, episodes, bullets, active>>
marks == <<consolidated, watermark, epMark, existing>>
ghost == <<shown, gatedOn, counted, raised, readable>>
vars == <<pc, stream, memory, marks, skills, cands, gateTasks, ghost>>

Init ==
    /\ pc = "task"
    /\ mode \in Modes
    /\ length \in {n \in 1 .. TrainN : mode = "pooled" => n <= PooledN}
    /\ closing = FALSE
    /\ idx = 0 /\ episodes = <<>> /\ bullets = 0 /\ active = {}
    /\ consolidated = {} /\ watermark = {} /\ epMark = 0 /\ existing = {}
    /\ skills = [n \in Name |-> "none"]
    /\ cands = <<>>
    /\ gateTasks = {}
    /\ shown = {} /\ gatedOn = {} /\ counted = {} /\ raised = "no" /\ readable = TRUE

-----------------------------------------------------------------------------
\* process: a task is solved, its episode recorded (an error is printed and
\* swallowed), its bullets credited and its lessons merged: some new ones, some
\* old ones found misleading.

Recorded(task) ==
    IF MayFail THEN {Append(episodes, task), episodes} ELSE {Append(episodes, task)}

\* Mutant of Process: ids are counted from zero.
ProcessFromZero ==
    /\ pc = "task"
    /\ idx < length
    /\ idx' = idx + 1
    /\ episodes' \in Recorded(idx')
    /\ \E new \in 0 .. MaxNew, misleading \in SUBSET active :
         /\ bullets' = bullets + new
         /\ active' = (active \ misleading) \cup (bullets .. bullets + new - 1)
    /\ pc' = IF idx' % InduceEvery = 0 THEN "consolidate" ELSE "task"
    /\ UNCHANGED <<stream, marks, skills, cands, gateTasks, ghost>>

Process ==
    /\ pc = "task"
    /\ idx < length
    /\ idx' = idx + 1
    /\ episodes' \in Recorded(idx')
    /\ \E new \in 0 .. MaxNew, misleading \in SUBSET active :
         /\ bullets' = bullets + new
         /\ active' = (active \ misleading) \cup (bullets + 1 .. bullets + new)
    /\ pc' = IF idx' % InduceEvery = 0 THEN "consolidate" ELSE "task"
    /\ UNCHANGED <<stream, marks, skills, cands, gateTasks, ghost>>

\* Mutant of Close: the store is frozen as the last task left it.
CloseAtOnce ==
    /\ pc = "task"
    /\ idx = length
    /\ ~closing
    /\ closing' = TRUE /\ UNCHANGED <<mode, length>>
    /\ pc' = "frozen"
    /\ UNCHANGED <<memory, marks, skills, cands, gateTasks, ghost>>

\* After the last task the frozen protocol consolidates once more.
Close ==
    /\ pc = "task"
    /\ idx = length
    /\ ~closing
    /\ closing' = TRUE /\ UNCHANGED <<mode, length>>
    /\ pc' = "consolidate"
    /\ UNCHANGED <<memory, marks, skills, cands, gateTasks, ghost>>

Return == pc' = IF closing THEN "frozen" ELSE "task"

-----------------------------------------------------------------------------
\* consolidate(idx)

\* This index was consolidated before.
SkipRepeat ==
    /\ pc = "consolidate"
    /\ idx \in consolidated
    /\ Return
    /\ UNCHANGED <<stream, memory, marks, skills, cands, gateTasks, ghost>>

\* What the inducer is to be shown.
ToShow == IF mode = "incremental" THEN active \ watermark ELSE active

\* Mutant of InduceRaises: the watermark is advanced before the call.
InduceRaisesMarked ==
    /\ MayFail
    /\ pc = "consolidate"
    /\ idx \notin consolidated
    /\ consolidated' = consolidated \cup {idx}
    /\ watermark' = watermark \cup active
    /\ raised' = IF closing THEN "final" ELSE "periodic"
    /\ Return
    /\ UNCHANGED <<stream, memory, epMark, existing, skills, cands, gateTasks, shown,
                   gatedOn, counted, readable>>

\* The inducer's call raises, or a read before it: run_phase prints the error
\* and goes on.
InduceRaises ==
    /\ MayFail
    /\ pc = "consolidate"
    /\ idx \notin consolidated
    /\ consolidated' = consolidated \cup {idx}
    /\ raised' = IF closing THEN "final" ELSE "periodic"
    /\ Return
    /\ UNCHANGED <<stream, memory, watermark, epMark, existing, skills, cands, gateTasks,
                   shown, gatedOn, counted, readable>>

\* memory_digest: all of them, or the most proven.
Digests(items) ==
    {d \in SUBSET items :
        Cardinality(d) = IF Cardinality(items) <= MaxItems
                         THEN Cardinality(items) ELSE MaxItems}

\* The skills of the library, as the inducer is told; a skill state that cannot
\* be read is an empty one.
Live == {n \in Name : skills[n] = "active"}
Told == {Live} \cup (IF MayFail THEN {{}} ELSE {})

\* The names of an answer that are not in the library, in its order.
NewNames(answer, library) ==
    LET new == {i \in DOMAIN answer : answer[i] \notin library}
        Increasing(f) == \A j, k \in DOMAIN f : j < k => f[j] < f[k]
    IN  {[k \in DOMAIN f |-> answer[f[k]]] :
            f \in {g \in [1 .. Cardinality(new) -> new] : Increasing(g)}}

\* Mutant of Proposed: skills the library has are proposed again.
ProposedAgain(answer, digest, library) == IF digest = {} THEN {<<>>} ELSE {answer}

\* What the inducer returns: no call when there is nothing to show, and in the
\* incremental mode no skill the library already has.
Proposed(answer, digest, library) ==
    IF digest = {} THEN {<<>>}
    ELSE IF mode = "incremental" THEN NewNames(answer, library) ELSE {answer}

\* The tasks behind the episodes not gated on yet; all, if there are none.
AllTasks == {episodes[k] : k \in 1 .. Len(episodes)}
NewTasks == {episodes[k] : k \in epMark + 1 .. Len(episodes)}

EpisodeTasks == IF mode = "incremental" /\ NewTasks # {} THEN NewTasks ELSE AllTasks

\* The first GateSample of them in the order of their names.
Samples(tasks) ==
    IF Cardinality(tasks) <= GateSample THEN {tasks}
    ELSE {sample \in SUBSET tasks : Cardinality(sample) = GateSample}

\* A gate needs a candidate and a task; without a task the candidates are
\* dropped.
ToGate(proposed) ==
    IF proposed = <<>> \/ EpisodeTasks = {}
    THEN cands' = <<>> /\ gateTasks' = {} /\ Return
    ELSE cands' = proposed /\ gateTasks' \in Samples(EpisodeTasks) /\ pc' = "gate"

\* Mutant of Induce: the episodes of a consolidation are not counted as seen.
InduceUncounted ==
    /\ pc = "consolidate"
    /\ idx \notin consolidated
    /\ consolidated' = consolidated \cup {idx}
    /\ \E digest \in Digests(ToShow), answer \in Answers, library \in Told :
         /\ shown' = shown \cup (digest \X {idx})
         /\ \E proposed \in Proposed(answer, digest, library) : ToGate(proposed)
         /\ IF mode = "incremental"
            THEN watermark' = watermark \cup active /\ existing' = library
            ELSE UNCHANGED <<watermark, existing>>
    /\ counted' = counted \cup {idx}
    /\ raised' = "no" /\ readable' = TRUE
    /\ UNCHANGED <<stream, memory, epMark, skills, gatedOn>>

\* The inducer answers; the incremental mode advances its watermarks.
Induce ==
    /\ pc = "consolidate"
    /\ idx \notin consolidated
    /\ consolidated' = consolidated \cup {idx}
    /\ \E digest \in Digests(ToShow), answer \in Answers, library \in Told :
         /\ shown' = shown \cup (digest \X {idx})
         /\ \E proposed \in Proposed(answer, digest, library) : ToGate(proposed)
         /\ IF mode = "incremental"
            THEN /\ watermark' = watermark \cup active
                 /\ epMark' = Len(episodes)
                 /\ existing' = library
            ELSE UNCHANGED <<watermark, epMark, existing>>
    /\ counted' = counted \cup {idx}
    /\ raised' = "no" /\ readable' = TRUE
    /\ UNCHANGED <<stream, memory, skills, gatedOn>>

\* The inducer answers and the episodes cannot be read: the call raises with
\* the bullets marked, and the answer is lost.
EpisodesRaise ==
    /\ MayFail
    /\ pc = "consolidate"
    /\ idx \notin consolidated
    /\ consolidated' = consolidated \cup {idx}
    /\ \E digest \in Digests(ToShow), library \in Told :
         /\ shown' = shown \cup (digest \X {idx})
         /\ IF mode = "incremental"
            THEN watermark' = watermark \cup active /\ existing' = library
            ELSE UNCHANGED <<watermark, existing>>
    /\ raised' = "no" /\ readable' = TRUE
    /\ Return
    /\ UNCHANGED <<stream, memory, epMark, skills, cands, gateTasks, gatedOn, counted>>

\* How the A/B over the gate's tasks may come out, and the accept rule: a task
\* is rescued, broken or neither by the candidate.
Outcomes ==
    {o \in [rescued : 0 .. Cardinality(gateTasks), broke : 0 .. Cardinality(gateTasks)] :
        o.rescued + o.broke <= Cardinality(gateTasks)}

Verdict(o) ==
    IF o.rescued - o.broke >= GateMargin /\ o.broke <= o.rescued
    THEN "active" ELSE "candidate"

\* _run_gate, one candidate: the A/B and write_skill, which reads the skill
\* state and replaces it as a whole; one that cannot be read is an empty one.
GateCandidate ==
    /\ pc = "gate"
    /\ gatedOn' = gatedOn \cup (gateTasks \X {idx})
    /\ \E failed \in IF MayFail THEN BOOLEAN ELSE {FALSE},
          verdict \in {Verdict(o) : o \in Outcomes} :
         /\ skills' = [n \in Name |-> IF n = Head(cands) THEN verdict
                                     ELSE IF failed THEN "none" ELSE skills[n]]
         /\ readable' = (readable /\ ~failed)
    /\ cands' = Tail(cands)
    /\ IF cands' = <<>> THEN Return /\ gateTasks' = {}
       ELSE UNCHANGED <<pc, gateTasks>>
    /\ UNCHANGED <<stream, memory, marks, shown, counted, raised>>

\* A judge or a write raises: the candidates that are left are dropped.
GateRaises ==
    /\ MayFail
    /\ pc = "gate"
    /\ gatedOn' = gatedOn \cup (gateTasks \X {idx})
    /\ cands' = <<>> /\ gateTasks' = {}
    /\ Return
    /\ UNCHANGED <<stream, memory, marks, skills, shown, counted, raised, readable>>

Frozen == pc = "frozen" /\ UNCHANGED vars

Next ==
    \/ Process \/ Close
    \/ SkipRepeat \/ InduceRaises \/ Induce \/ EpisodesRaise
    \/ GateCandidate \/ GateRaises
    \/ Frozen

Spec == Init /\ [][Next]_vars

-----------------------------------------------------------------------------

Status == {"none", "active", "candidate"}

\* Every variable has its type.
TypeOK ==
    /\ pc \in {"task", "consolidate", "gate", "frozen"}
    /\ mode \in {"incremental", "pooled"}
    /\ length \in 1 .. TrainN
    /\ closing \in BOOLEAN
    /\ idx \in 0 .. TrainN
    /\ episodes \in Seq(1 .. TrainN)
    /\ bullets \in Nat
    /\ active \subseteq 1 .. bullets
    /\ consolidated \subseteq 0 .. TrainN
    /\ watermark \subseteq 1 .. bullets
    /\ epMark \in 0 .. Len(episodes)
    /\ existing \subseteq Name
    /\ skills \in [Name -> Status]
    /\ cands \in Seq(Name)
    /\ gateTasks \subseteq 1 .. TrainN
    /\ shown \subseteq (1 .. bullets) \X (1 .. TrainN)
    /\ gatedOn \subseteq (1 .. TrainN) \X (1 .. TrainN)
    /\ counted \subseteq consolidated
    /\ raised \in {"no", "periodic", "final"}
    /\ readable \in BOOLEAN

\* Each period the inducer is told the skills the library has, so as not to
\* make them again, and no gate after it takes one of them out of service,
\* whatever it answers and the gates find, as long as the skill state can be
\* read.
LibraryStays ==
    mode = "incremental" /\ readable => \A n \in existing : skills[n] = "active"

\* "Add-only" as induce.induce_incremental has it: a skill that went live stays
\* live.  An answer that repeats a name, or a skill state that cannot be read,
\* breaks it; no run checks it.
AddOnly ==
    [][mode = "incremental" =>
         \A n \in Name : skills[n] = "active" => skills'[n] = "active"]_vars

\* No task after `from` and up to `to` left an episode.
NothingRecorded(from, to) == \A task \in AllTasks : task <= from \/ to < task

\* Each incremental consolidation sees only new memory, and gates only on new
\* episodes: no bullet is shown to the inducer twice, and a task gates the
\* candidates of two consolidations only where nothing was recorded since the
\* episodes were counted last.
FreshEvidence ==
    mode = "incremental" =>
        /\ \A a, b \in shown : a[1] = b[1] => a = b
        /\ \A a, b \in gatedOn :
             a[1] = b[1] /\ a[2] < b[2] =>
                 \E at \in counted :
                     a[2] <= at /\ at < b[2] /\ NothingRecorded(at, b[2])

\* memory_digest cuts nothing off.
DigestHoldsAll == bullets <= MaxItems

\* _consolidated_bullet_ids holds ids already shown to the inducer, whatever
\* raised, as long as the digest can hold what there is to show.
WatermarkShown ==
    DigestHoldsAll =>
        \A id \in watermark : \E at \in 1 .. TrainN : <<id, at>> \in shown

Captured == \A id \in active : \E at \in 1 .. TrainN : <<id, at>> \in shown

\* Late memory is captured before the store is frozen: wherever the stream
\* ends and whichever calls failed, unless the latest one did, the inducer has
\* seen every bullet that is still active.
LateMemoryCaptured == pc = "frozen" /\ raised = "no" /\ DigestHoldsAll => Captured

\* The final consolidation is there for what is not captured: only when its
\* own call fails is the store frozen without ("capture late-acquired memory
\* before freezing").
FinalCallCaptures == pc = "frozen" /\ raised # "final" /\ DigestHoldsAll => Captured
=============================================================================
