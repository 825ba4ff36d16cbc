-------------------------- MODULE ParallelLearning --------------------------
(***************************************************************************)
(* The parallel phases of the evaluation harness.  All solve tasks on a    *)
(* pool of threads (llm.pmap).                                             *)
(*   serving  prequential.serve_and_learn: all tasks at once; each hands   *)
(*            its learning to a second pool, which is drained at the end;  *)
(*   batched  prequential.batched_learn: chunk by chunk, and the main      *)
(*            thread learns from a chunk when all of it is solved.         *)
(*   rollouts independent tasks and no learning: the offline training of   *)
(*            external_opt and the deployment on frozen memory             *)
(*            (prequential.deploy_parallel).                               *)
(* The first two call _learn_signals, which returns three values, and      *)
(* unpack two: the learning code behind that line does not run, and is     *)
(* left out here (Reflection has the locked part of learn_job, from the    *)
(* lock on).                                                               *)
(***************************************************************************)
EXTENDS Integers, Sequences, FiniteSets

CONSTANTS
    Modes,         \* the ways to run a learning phase
    N,             \* bound: tasks of the longest stream
    BatchSize,     \* --batch_size
    DeployWorkers, \* threads that serve
    LearnWorkers   \* threads that learn

ASSUME ParallelAssumption ==
    /\ Modes \subseteq {"serving", "batched", "rollouts"}
    /\ N \in Nat \ {0}
    /\ BatchSize \in Nat \ {0, 1}
    /\ DeployWorkers \in Nat \ {0, 1}
    /\ LearnWorkers \in Nat \ {0}

VARIABLES
    mode,    \* how this phase is run
    length,  \* tasks of the stream
    main,    \* where the main thread stands
    chunk,   \* the tasks in the hands of pmap
    serve,   \* [1 .. N -> what became of the task in pmap]
    queue,   \* learning jobs that wait for a thread, in order of submission
    job,     \* [1 .. N -> what became of its learning]
    rows     \* the tasks in the rows returned

vars == <<mode, length, main, chunk, serve, queue, job, rows>>

Task == 1 .. N
AtMost(a, b) == IF a <= b THEN a ELSE b
Running(f) == {i \in Task : f[i] = "running"}

Init ==
    /\ mode \in Modes
    /\ length = 0
    /\ main = "before"
    /\ chunk = {}
    /\ serve = [i \in Task |-> "waiting"]
    /\ queue = <<>>
    /\ job = [i \in Task |-> "none"]
    /\ rows = <<>>

\* A phase over a stream of n tasks, perhaps after another one.
Begin(way, n) ==
    /\ main \in {"before", "frozen"}
    /\ main' = "pmap"
    /\ mode' = way /\ length' = n
    /\ chunk' = 1 .. (IF way = "batched" THEN AtMost(BatchSize, n) ELSE n)
    /\ serve' = [i \in Task |-> "waiting"]
    /\ rows' = <<>>
    /\ UNCHANGED <<queue, job>>

-----------------------------------------------------------------------------
\* pmap: the threads of its pool take the items in order.

\* Of one item, or with one worker, pmap makes a loop without a pool.
Inline == Cardinality(chunk) <= 1

Workers == IF Inline THEN 1
           ELSE IF mode = "batched" THEN AtMost(BatchSize, 16)
           ELSE DeployWorkers

Take(i) ==
    /\ main \in {"pmap", "join"}
    /\ i \in chunk
    /\ serve[i] = "waiting"
    /\ \A k \in chunk : k < i => serve[k] # "waiting"
    /\ Cardinality(Running(serve)) < Workers
    /\ serve' = [serve EXCEPT ![i] = "running"]
    /\ UNCHANGED <<mode, length, main, chunk, queue, job, rows>>

Submit(i) ==
    /\ queue' = Append(queue, i)
    /\ job' = [job EXCEPT ![i] = "queued"]

\* serve_one: the task is solved and its learning submitted.
Serve(i) ==
    /\ mode = "serving"
    /\ serve[i] = "running"
    /\ serve' = [serve EXCEPT ![i] = "solved"]
    /\ Submit(i)
    /\ UNCHANGED <<mode, length, main, chunk, rows>>

\* serve_one raises: what inject, an agentic attempt or the scorer raises comes
\* before its learning is submitted, a result without an answer after it.
ServeRaises(i) ==
    /\ mode = "serving"
    /\ serve[i] = "running"
    /\ serve' = [serve EXCEPT ![i] = "raised"]
    /\ Submit(i) \/ UNCHANGED <<queue, job>>
    /\ main' = IF Inline THEN "aborted" ELSE main
    /\ UNCHANGED <<mode, length, chunk, rows>>

\* _solve_only: the task is solved, and the unpacking raises.
SolveOnly(i) ==
    /\ mode = "batched"
    /\ serve[i] = "running"
    /\ serve' = [serve EXCEPT ![i] = "raised"]
    /\ job' = [job EXCEPT ![i] = "dead"]
    /\ main' = IF Inline THEN "aborted" ELSE main
    /\ UNCHANGED <<mode, length, chunk, queue, rows>>

\* rollout, one: solve catches what its calls raise ...
Rollout(i) ==
    /\ mode = "rollouts"
    /\ serve[i] = "running"
    /\ serve' = [serve EXCEPT ![i] = "solved"]
    /\ UNCHANGED <<mode, length, main, chunk, queue, job, rows>>

\* ... but not what the scorer or an agentic attempt raises.
RolloutRaises(i) ==
    /\ mode = "rollouts"
    /\ serve[i] = "running"
    /\ serve' = [serve EXCEPT ![i] = "raised"]
    /\ main' = IF Inline THEN "aborted" ELSE main
    /\ UNCHANGED <<mode, length, chunk, queue, job, rows>>

\* as_completed hands the main thread a future that holds an exception: it
\* leaves the pool, which waits for every item first.  What would come after
\* pmap, the drain of a serving phase, is left out.
Reraise ==
    /\ main = "pmap" /\ ~Inline
    /\ \E i \in chunk : serve[i] = "raised"
    /\ main' = "join"
    /\ UNCHANGED <<mode, length, chunk, serve, queue, job, rows>>

\* Mutant of Joined: the pool is left with threads that still run.
JoinedAtOnce ==
    /\ main = "join"
    /\ main' = "aborted"
    /\ UNCHANGED <<mode, length, chunk, serve, queue, job, rows>>

Joined ==
    /\ main = "join"
    /\ \A i \in chunk : serve[i] \notin {"waiting", "running"}
    /\ main' = "aborted"
    /\ UNCHANGED <<mode, length, chunk, serve, queue, job, rows>>

InOrder == [i \in 1 .. length |-> i]

\* Every item has its result: pmap returns, and its rows are put in order;
\* serving goes on to the drain.
Return ==
    /\ main = "pmap"
    /\ \A i \in chunk : serve[i] = "solved"
    /\ IF mode = "serving" THEN main' = "drain" /\ rows' = rows
                           ELSE main' = "frozen" /\ rows' = InOrder
    /\ UNCHANGED <<mode, length, chunk, serve, queue, job>>

-----------------------------------------------------------------------------
\* The learner pool

SignalsReturned == 3
SignalsUnpacked == 2

\* Mutant of LearnJob: an exception takes the thread with it.
LearnJobLost(i) ==
    /\ job[i] = "running"
    /\ SignalsReturned = SignalsUnpacked
    /\ job' = [job EXCEPT ![i] = "learned"]
    /\ UNCHANGED <<mode, length, main, chunk, serve, queue, rows>>

\* Mutant of TakeJob: the thread leaves the job in the queue.
TakeJobKeeping ==
    /\ queue # <<>>
    /\ Cardinality(Running(job)) < LearnWorkers
    /\ queue' = queue
    /\ job' = [job EXCEPT ![Head(queue)] = "running"]
    /\ UNCHANGED <<mode, length, main, chunk, serve, rows>>

TakeJob ==
    /\ queue # <<>>
    /\ Cardinality(Running(job)) < LearnWorkers
    /\ queue' = Tail(queue)
    /\ job' = [job EXCEPT ![Head(queue)] = "running"]
    /\ UNCHANGED <<mode, length, main, chunk, serve, rows>>

\* learn_job raises where it unpacks; its future keeps the exception and
\* nobody asks for it.
LearnJob(i) ==
    /\ job[i] = "running"
    /\ job' = [job EXCEPT ![i] =
                 IF SignalsReturned = SignalsUnpacked THEN "learned" ELSE "dead"]
    /\ UNCHANGED <<mode, length, main, chunk, serve, queue, rows>>

LearnersDone == \A i \in Task : job[i] \notin {"queued", "running"}

\* Mutant of Drain: wait is given only the futures that have started.
DrainStarted ==
    /\ main = "drain"
    /\ Running(job) = {}
    /\ main' = "frozen"
    /\ rows' = InOrder
    /\ UNCHANGED <<mode, length, chunk, serve, queue, job>>

\* wait, shutdown, and a row per task in order.
Drain ==
    /\ main = "drain"
    /\ LearnersDone
    /\ main' = "frozen"
    /\ rows' = InOrder
    /\ UNCHANGED <<mode, length, chunk, serve, queue, job>>

Over == main \in {"frozen", "aborted"} /\ UNCHANGED vars

Next ==
    \/ main = "before" /\ \E n \in 0 .. N : Begin(mode, n)
    \/ \E i \in Task : Take(i) \/ Serve(i) \/ ServeRaises(i) \/ SolveOnly(i)
                       \/ LearnJob(i) \/ Rollout(i) \/ RolloutRaises(i)
    \/ TakeJob
    \/ Reraise \/ Joined \/ Return \/ Drain
    \/ Over

\* The threads of both pools and the main thread run whenever they can.
Fairness ==
    /\ \A i \in 1 .. N :
         /\ WF_vars(Take(i)) /\ WF_vars(Serve(i) \/ ServeRaises(i)) /\ WF_vars(SolveOnly(i))
         /\ WF_vars(Rollout(i) \/ RolloutRaises(i)) /\ WF_vars(LearnJob(i))
    /\ WF_vars(TakeJob)
    /\ WF_vars(Reraise) /\ WF_vars(Joined) /\ WF_vars(Return) /\ WF_vars(Drain)

Spec == Init /\ [][Next]_vars /\ Fairness

-----------------------------------------------------------------------------

\* Every variable has its type, and no job is in the queue twice.
TypeOK ==
    /\ mode \in Modes
    /\ length \in 0 .. N
    /\ main \in {"before", "pmap", "join", "drain", "frozen", "aborted"}
    /\ chunk \subseteq Task
    /\ serve \in [Task -> {"waiting", "running", "solved", "raised"}]
    /\ queue \in Seq(Task)
    /\ job \in [Task -> {"none", "queued", "running", "learned", "dead"}]
    /\ \A i \in Task :
         Cardinality({k \in DOMAIN queue : queue[k] = i}) = IF job[i] = "queued" THEN 1 ELSE 0
    /\ rows \in Seq(Task)

\* When the phase is over, however it ended, no task is still being solved; and
\* nobody learns any more, in the store that is frozen or in the one the next
\* phase of the run begins with.  Only a serving phase that raised skips the
\* drain: the run has failed then, and its learners go on behind it.
NothingRunsBehind ==
    main \in {"frozen", "aborted"} =>
        /\ \A i \in Task : serve[i] # "running"
        /\ LearnersDone \/ (main = "aborted" /\ mode = "serving")

\* Every phase comes to an end: pmap and the drain wait for no one who waits.
PhaseEnds == main = "pmap" ~> main \in {"frozen", "aborted"}

\* All learning is drained before the store is frozen, which then is the
\* fully committed one (serve_and_learn): no task's learning is missing.
FreezeSeesAllLearning ==
    main = "frozen" => \A i \in 1 .. length : job[i] = "learned"
=============================================================================
