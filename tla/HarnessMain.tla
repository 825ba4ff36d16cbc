----------------------------- MODULE HarnessMain -----------------------------
(***************************************************************************)
(* One run of the evaluation harness (prequential.main) from the split of  *)
(* its tasks to its rows, and the launcher (eval/run.py) that runs several *)
(* and summarises them.  The run's parallel phases are ParallelLearning,   *)
(* one after another; sequential learning is one step here (Consolidation  *)
(* has its detail).  Costs are counted in answered calls.                  *)
(***************************************************************************)
EXTENDS ParallelLearning

CONSTANTS
    Class,      \* the values of stratify_key
    Mixes,      \* the task files there may be: [Class -> how many tasks]
    First,      \* size of the first slice of the split
    Second,     \* size of the second
    Methods,    \* how the run learns
    Protocols,  \* frozen, prequential
    Runs,       \* (method, seed) runs of the launch
    Focus,      \* the one that is followed
    WorkerCounts \* the values of the launcher's --workers

Learners == {"sequential", "serving", "batched"}

ASSUME HarnessAssumption ==
    /\ Class # {} /\ IsFiniteSet(Class)
    /\ Mixes \subseteq [Class -> Nat \ {0}]
    /\ First \in 0 .. N /\ Second \in 0 .. N
    /\ Methods \subseteq Learners \cup {"no_memory", "external_optimizer"}
    /\ {"rollouts"} \cup (Methods \cap {"serving", "batched"}) \subseteq Modes
    /\ Protocols \subseteq {"frozen", "prequential"}
    /\ Runs \in Nat \ {0} /\ Focus \in 1 .. Runs
    /\ WorkerCounts \subseteq Nat \ {0}

VARIABLES
    mix,       \* the classes of the task file
    emitted,   \* tasks of each class in the order so far
    ordered,   \* all tasks in it
    method, protocol,
    phase,     \* where main stands
    ledger,    \* answered calls in the ledger of the run
    c0,        \* cum_cost when the deployment began
    cost,      \* the costs that its tasks report
    uncounted, \* one of them left other lines in the ledger than it reports
    curve,     \* cum_cost_usd of the rows
    workers,   \* --workers
    status,    \* [1 .. Runs -> waiting, running, ok or failed]
    launch     \* going, raised, failed or summary

phaseVars == <<phase, ledger, c0, cost, uncounted, curve>>
launchVars == <<workers, status, launch>>
chosen == <<mix, method, protocol>>
split == <<emitted, ordered>>
mainVars == <<vars, chosen, split, phaseVars, launchVars>>

MainInit ==
    /\ Init /\ mode = "rollouts"
    /\ mix \in Mixes
    /\ emitted = [g \in Class |-> 0] /\ ordered = 0
    /\ method \in Methods /\ protocol \in Protocols
    /\ phase = "waiting"
    /\ ledger = 0 /\ c0 = 0 /\ cost = [i \in Task |-> 0]
    /\ uncounted = FALSE /\ curve = <<>>
    /\ workers \in WorkerCounts
    /\ status = [r \in 1 .. Runs |-> "waiting"]
    /\ launch = "going"

-----------------------------------------------------------------------------
(* stratified_split *)

Emittable == {g \in Class : emitted[g] < mix[g]}

\* Mutant of Behind: the class that is ahead of its share.
Ahead(g) ==
    /\ g \in Emittable
    /\ \A h \in Emittable : (emitted[g] + 1) * mix[h] >= (emitted[h] + 1) * mix[g]

\* The class most behind its share: the least (emitted + 1) / size.
Behind(g) ==
    /\ g \in Emittable
    /\ \A h \in Emittable : (emitted[g] + 1) * mix[h] <= (emitted[h] + 1) * mix[g]

Emit(g) ==
    /\ phase = "split"
    /\ Behind(g)
    /\ emitted' = [emitted EXCEPT ![g] = @ + 1]
    /\ ordered' = ordered + 1
    /\ UNCHANGED <<vars, chosen, phaseVars, launchVars>>

FirstSlice == AtMost(First, ordered)
SecondSlice == AtMost(Second, ordered - FirstSlice)

\* The first slice is what is learned from (frozen), or the stream itself.
LearnFrom == IF protocol = "prequential" /\ method = "external_optimizer"
             THEN SecondSlice ELSE FirstSlice
DeployOn == IF protocol = "frozen" THEN SecondSlice ELSE FirstSlice

SplitDone ==
    /\ phase = "split" /\ Emittable = {}
    /\ phase' = IF method = "no_memory" THEN "learned" ELSE "learn"
    /\ UNCHANGED <<vars, chosen, split, ledger, c0, cost, uncounted, curve, launchVars>>

-----------------------------------------------------------------------------
(* Learning, or the offline training of external_optimizer *)

\* Calls that are made put their lines in the ledger; one that raises, or whose
\* line cannot be appended, puts none.
Calls == ledger' \in {ledger, ledger + 1}

AfterLearning == IF protocol = "frozen" THEN "consolidate" ELSE "ok"

LearnSequentially ==
    /\ phase = "learn" /\ method = "sequential"
    /\ Calls
    /\ phase' \in {AfterLearning, "failed"}
    /\ UNCHANGED <<vars, chosen, split, c0, cost, uncounted, curve, launchVars>>

StartLearning ==
    /\ phase = "learn" /\ method \in {"serving", "batched", "external_optimizer"}
    /\ Begin(IF method = "external_optimizer" THEN "rollouts" ELSE method, LearnFrom)
    /\ phase' = "learning"
    /\ UNCHANGED <<chosen, split, ledger, c0, cost, uncounted, curve, launchVars>>

\* A thread of the phase moves on; solving and learning make calls.
LearningStep ==
    /\ phase = "learning"
    /\ \/ /\ \/ TakeJob \/ Reraise \/ Joined \/ Return \/ Drain
             \/ \E i \in Task : Take(i)
          /\ UNCHANGED ledger
       \/ /\ \E i \in Task : \/ Serve(i) \/ ServeRaises(i) \/ SolveOnly(i)
                             \/ LearnJob(i) \/ Rollout(i) \/ RolloutRaises(i)
          /\ Calls
    /\ UNCHANGED <<chosen, split, phase, c0, cost, uncounted, curve, launchVars>>

\* An exception of the phase ends the run; a last call synthesises the skill.
LearningOver ==
    /\ phase = "learning" /\ main \in {"frozen", "aborted"}
    /\ phase' = IF main = "aborted" THEN "failed"
                ELSE IF method = "external_optimizer" THEN "synthesize"
                ELSE AfterLearning
    /\ UNCHANGED <<vars, chosen, split, ledger, c0, cost, uncounted, curve, launchVars>>

\* Behind a serving phase that raised, the learner pool works off its queue.
Leftover ==
    /\ phase = "failed"
    /\ \/ TakeJob /\ UNCHANGED ledger
       \/ (\E i \in Task : LearnJob(i)) /\ Calls
    /\ UNCHANGED <<chosen, split, phase, c0, cost, uncounted, curve, launchVars>>

Synthesize ==
    /\ phase = "synthesize"
    /\ Calls
    /\ phase' \in {"learned", "failed"}
    /\ UNCHANGED <<vars, chosen, split, c0, cost, uncounted, curve, launchVars>>

\* The final consolidation; what it raises is logged.
FinalConsolidation ==
    /\ phase = "consolidate"
    /\ Calls
    /\ phase' = "learned"
    /\ UNCHANGED <<vars, chosen, split, c0, cost, uncounted, curve, launchVars>>

-----------------------------------------------------------------------------
(* deploy_parallel *)

\* Mutant of StartDeployment: the curve starts at zero.
StartDeploymentAtZero ==
    /\ phase = "learned"
    /\ Begin("rollouts", DeployOn)
    /\ c0' = 0
    /\ phase' = "deploy"
    /\ UNCHANGED <<chosen, split, ledger, cost, uncounted, curve, launchVars>>

StartDeployment ==
    /\ phase = "learned"
    /\ Begin("rollouts", DeployOn)
    /\ c0' = ledger
    /\ phase' = "deploy"
    /\ UNCHANGED <<chosen, split, ledger, cost, uncounted, curve, launchVars>>

\* A task is solved: the target answers or raises (own), and leaves lines in
\* the ledger.  It may have made a call that its cost leaves out, a critique or
\* a selection of bullets; and a line that cannot be appended is missing.
DeployTask(i) ==
    /\ Rollout(i)
    /\ \E own \in 0 .. 1, lines \in 0 .. 2 :
         /\ cost' = [cost EXCEPT ![i] = own]
         /\ ledger' = ledger + lines
         /\ uncounted' = (uncounted \/ lines # own)

DeployStep ==
    /\ phase = "deploy"
    /\ \/ \E i \in Task : DeployTask(i)
       \/ /\ Reraise \/ Joined \/ Return \/ \E i \in Task : Take(i) \/ RolloutRaises(i)
          /\ UNCHANGED <<ledger, cost, uncounted>>
    /\ UNCHANGED <<chosen, split, phase, c0, curve, launchVars>>

\* The cost up to each row: run += p["_cost"].
CostUpTo ==
    LET run[k \in 0 .. Len(rows)] == IF k = 0 THEN c0 ELSE run[k - 1] + cost[rows[k]]
    IN  run

\* The rows, sorted, with the cost up to each.
DeploymentOver ==
    /\ phase = "deploy" /\ main \in {"frozen", "aborted"}
    /\ phase' = IF main = "frozen" THEN "ok" ELSE "failed"
    /\ curve' = IF main = "frozen" THEN [k \in 1 .. Len(rows) |-> CostUpTo[k]] ELSE <<>>
    /\ UNCHANGED <<vars, chosen, split, ledger, c0, cost, uncounted, launchVars>>

-----------------------------------------------------------------------------
(* The launcher *)

Busy == {r \in 1 .. Runs : status[r] = "running"}
Waiting == {r \in 1 .. Runs : status[r] = "waiting"}

\* Runs start in order; a pool goes on starting them after one has failed.
StartRun(r) ==
    /\ launch = "going" \/ launch = "raised"
    /\ r \in Waiting /\ \A q \in Waiting : r <= q
    /\ Cardinality(Busy) < workers
    /\ workers = 1 => \A q \in 1 .. Runs : status[q] # "failed"
    /\ status' = [status EXCEPT ![r] = "running"]
    /\ phase' = IF r = Focus THEN "split" ELSE phase
    /\ UNCHANGED <<vars, chosen, split, ledger, c0, cost, uncounted, curve, workers, launch>>

\* The process of a run ends, with exit code 0 or not; the interpreter does not
\* exit before the threads of its pools have worked off their queues.
EndRun(r) ==
    /\ r \in Busy
    /\ \E end \in {"ok", "failed"} :
         /\ r = Focus => phase = end /\ LearnersDone
         /\ status' = [status EXCEPT ![r] = end]
    /\ UNCHANGED <<vars, chosen, split, phaseVars, workers, launch>>

\* Mutant of LaunchRaises: the pool is left without waiting.
LaunchRaisesAtOnce ==
    /\ launch = "going"
    /\ \E r \in 1 .. Runs : status[r] = "failed"
    /\ launch' = "failed"
    /\ UNCHANGED <<vars, chosen, split, phaseVars, workers, status>>

\* The result of a failed run raises: at once, or when the pool has let all
\* others end.
LaunchRaises ==
    /\ launch = "going"
    /\ \E r \in 1 .. Runs : status[r] = "failed"
    /\ launch' = IF workers = 1 THEN "failed" ELSE "raised"
    /\ UNCHANGED <<vars, chosen, split, phaseVars, workers, status>>

LaunchFails ==
    /\ launch = "raised" /\ Busy = {} /\ Waiting = {}
    /\ launch' = "failed"
    /\ UNCHANGED <<vars, chosen, split, phaseVars, workers, status>>

Summarise ==
    /\ launch = "going"
    /\ \A r \in 1 .. Runs : status[r] = "ok"
    /\ launch' = "summary"
    /\ UNCHANGED <<vars, chosen, split, phaseVars, workers, status>>

LaunchOver == launch \in {"failed", "summary"} /\ UNCHANGED mainVars

-----------------------------------------------------------------------------

RunNext ==
    \/ \E g \in Class : Emit(g)
    \/ SplitDone
    \/ LearnSequentially \/ StartLearning \/ LearningStep \/ LearningOver \/ Leftover
    \/ Synthesize \/ FinalConsolidation
    \/ StartDeployment \/ DeployStep \/ DeploymentOver

LaunchNext ==
    \/ \E r \in 1 .. Runs : StartRun(r) \/ EndRun(r)
    \/ LaunchRaises \/ LaunchFails \/ Summarise

MainNext == RunNext \/ LaunchNext \/ LaunchOver

\* The process of the run and the launcher go on whenever they can.
MainSpec ==
    /\ MainInit /\ [][MainNext]_mainVars
    /\ WF_mainVars(RunNext) /\ WF_mainVars(LaunchNext)

-----------------------------------------------------------------------------

\* No class gets ahead of another by more than the share of one task, in any
\* prefix of the order.  (Summed over the classes: a prefix of n tasks has of
\* each class at least its share of n, less one.  It may have far more.)
MixPreserved ==
    \A g, h \in Class : emitted[g] * mix[h] <= (emitted[h] + 1) * mix[g]

\* The cost curve of a deployment ends at what the ledger says: it starts from
\* all of the acquisition's cost, whose last learner is done, and adds every
\* task once, in whatever order the pool solved them.  (The premise: every task
\* left the lines in the ledger that it reports.)
CurveEndsAtLedger ==
    phase = "ok" /\ curve # <<>> /\ ~uncounted => curve[Len(curve)] = ledger

\* A launch is over when its runs are: nothing of it still writes into the
\* output directory, also no learner that a run left behind when it failed; and
\* what it sums up are whole runs, all of them.
LaunchIsWhole ==
    /\ launch \in {"failed", "summary"} => Busy = {} /\ LearnersDone
    /\ launch = "summary" => Waiting = {} /\ phase = "ok"
=============================================================================
