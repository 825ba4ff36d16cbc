---------------------------- MODULE HarnessProofs ----------------------------
(***************************************************************************)
(* Proofs about ParallelLearning and HarnessMain, for streams, pools and   *)
(* batches of any size, any number of classes and any number of runs.      *)
(***************************************************************************)
EXTENDS HarnessMain, FiniteSetTheorems, Recursion

-----------------------------------------------------------------------------
\* The inductive invariant of the phases, by parts.

Typed ==
    /\ mode \in Modes
    /\ length \in 0 .. N
    /\ main \in {"before", "pmap", "join", "drain", "frozen", "aborted"}
    /\ chunk \subseteq Task
    /\ serve \in [Task -> {"waiting", "running", "solved", "raised"}]
    /\ queue \in Seq(Task)
    /\ job \in [Task -> {"none", "queued", "running", "learned", "dead"}]
    /\ rows \in Seq(Task)

\* The queue has the jobs that wait, each once.
QueueHoldsQueued ==
    /\ \A k \in DOMAIN queue : job[queue[k]] = "queued"
    /\ \A j, k \in DOMAIN queue : queue[j] = queue[k] => j = k
    /\ \A i \in Task : job[i] = "queued" => \E k \in DOMAIN queue : queue[k] = i

\* What runs in a pool belongs to pmap.
RunsInPmap ==
    \A i \in Task : serve[i] = "running" => i \in chunk /\ main \in {"pmap", "join"}

BusyJob(i) == job[i] \in {"queued", "running"}

\* Learning is left to do only in a serving phase that goes on or has been
\* aborted, of tasks that have ended.
LearnsWhileServing ==
    \A i \in Task : BusyJob(i) =>
        /\ mode = "serving" /\ main \in {"pmap", "join", "drain", "aborted"}
        /\ serve[i] \in {"solved", "raised"}

PhaseInv == Typed /\ QueueHoldsQueued /\ RunsInPmap /\ LearnsWhileServing

\* A step of a phase, or the begin of another one.
PhaseNext == Next \/ \E way \in Modes, n \in 0 .. N : Begin(way, n)

-----------------------------------------------------------------------------

LEMMA TaskFinite == IsFiniteSet(Task) /\ N \in Nat
BY ParallelAssumption, FS_Interval DEF Task

\* Of a set of one item all items are the same.
LEMMA AtMostOne ==
    ASSUME NEW S \in SUBSET Task, Cardinality(S) <= 1, NEW i \in S, NEW k \in S
    PROVE  i = k
<1>1. IsFiniteSet(S) /\ Cardinality(S) \in Nat
  BY TaskFinite, FS_Subset, FS_CardinalityType
<1>2. IsFiniteSet(S \ {i}) /\ Cardinality(S \ {i}) = Cardinality(S) - 1
  BY <1>1, FS_RemoveElement
<1>3. Cardinality(S \ {i}) \in Nat
  BY <1>2, FS_CardinalityType
<1>4. Cardinality(S \ {i}) = 0
  BY <1>1, <1>2, <1>3
<1>5. S \ {i} = {}
  BY <1>2, <1>4, FS_EmptySet
<1>6. QED
  BY <1>5

LEMMA PhaseInvTypes == PhaseInv => TypeOK
<1> SUFFICES ASSUME PhaseInv PROVE TypeOK
  OBVIOUS
<1>1. ASSUME NEW i \in Task
      PROVE  Cardinality({k \in DOMAIN queue : queue[k] = i})
               = IF job[i] = "queued" THEN 1 ELSE 0
  <2> DEFINE at == {k \in DOMAIN queue : queue[k] = i}
  <2>1. CASE job[i] = "queued"
    <3>1. PICK k \in DOMAIN queue : queue[k] = i
      BY <2>1 DEF PhaseInv, QueueHoldsQueued
    <3>2. at = {k}
      BY <3>1 DEF PhaseInv, QueueHoldsQueued
    <3>3. Cardinality({k}) = 1
      BY FS_Singleton
    <3>4. QED
      BY <2>1, <3>2, <3>3
  <2>2. CASE job[i] # "queued"
    <3>1. at = {}
      BY <2>2 DEF PhaseInv, QueueHoldsQueued
    <3>2. Cardinality({}) = 0
      BY FS_EmptySet
    <3>3. QED
      BY <2>2, <3>1, <3>2
  <2>3. QED
    BY <2>1, <2>2
<1>2. QED
  BY <1>1 DEF TypeOK, PhaseInv, Typed

LEMMA PhaseInvQuiet == PhaseInv => NothingRunsBehind
BY DEF PhaseInv, Typed, RunsInPmap, LearnsWhileServing, BusyJob, NothingRunsBehind,
       LearnersDone

LEMMA PhaseInit == Init => PhaseInv
<1> SUFFICES ASSUME Init PROVE PhaseInv
  OBVIOUS
<1>1. Typed
  BY ParallelAssumption DEF Init, Typed, Task
<1>2. QueueHoldsQueued
  BY DEF Init, QueueHoldsQueued
<1>3. RunsInPmap /\ LearnsWhileServing
  BY DEF Init, RunsInPmap, LearnsWhileServing, BusyJob
<1>4. QED
  BY <1>1, <1>2, <1>3 DEF PhaseInv

-----------------------------------------------------------------------------

\* A change of one item.
LEMMA ServeTyped ==
    ASSUME Typed, NEW i \in Task,
           NEW s \in {"waiting", "running", "solved", "raised"}
    PROVE  /\ [serve EXCEPT ![i] = s] \in [Task -> {"waiting", "running", "solved", "raised"}]
           /\ [serve EXCEPT ![i] = s][i] = s
           /\ \A k \in Task \ {i} : [serve EXCEPT ![i] = s][k] = serve[k]
BY DEF Typed

LEMMA JobTyped ==
    ASSUME Typed, NEW i \in Task,
           NEW s \in {"none", "queued", "running", "learned", "dead"}
    PROVE  /\ [job EXCEPT ![i] = s] \in [Task -> {"none", "queued", "running", "learned", "dead"}]
           /\ [job EXCEPT ![i] = s][i] = s
           /\ \A k \in Task \ {i} : [job EXCEPT ![i] = s][k] = job[k]
BY DEF Typed

LEMMA InOrderTyped == Typed => InOrder \in Seq(Task)
BY ParallelAssumption DEF Typed, InOrder, Task

LEMMA BeginKeeps ==
    ASSUME PhaseInv, NEW way \in Modes, NEW n \in 0 .. N, Begin(way, n)
    PROVE  PhaseInv'
<1>1. /\ main \in {"before", "frozen"} /\ main' = "pmap"
      /\ mode' = way /\ length' = n /\ rows' = <<>>
      /\ serve' = [i \in Task |-> "waiting"]
      /\ UNCHANGED <<queue, job>>
  BY DEF Begin
<1>2. chunk' \subseteq Task
  BY ParallelAssumption DEF Begin, Task, AtMost
<1>3. \A i \in Task : ~BusyJob(i)
  BY <1>1 DEF PhaseInv, LearnsWhileServing
<1>4. Typed'
  BY <1>1, <1>2 DEF PhaseInv, Typed
<1>5. QueueHoldsQueued'
  BY <1>1 DEF PhaseInv, QueueHoldsQueued
<1>6. RunsInPmap' /\ LearnsWhileServing'
  BY <1>1, <1>3 DEF RunsInPmap, LearnsWhileServing, BusyJob
<1>7. QED
  BY <1>4, <1>5, <1>6 DEF PhaseInv

LEMMA TakeKeeps ==
    ASSUME PhaseInv, NEW i \in Task, Take(i)
    PROVE  PhaseInv'
<1>1. /\ main \in {"pmap", "join"} /\ i \in chunk /\ serve[i] = "waiting"
      /\ serve' = [serve EXCEPT ![i] = "running"]
      /\ UNCHANGED <<mode, length, main, chunk, queue, job, rows>>
  BY DEF Take
<1>2. /\ serve' \in [Task -> {"waiting", "running", "solved", "raised"}]
      /\ serve'[i] = "running" /\ \A k \in Task \ {i} : serve'[k] = serve[k]
  BY <1>1, ServeTyped DEF PhaseInv
<1>3. Typed' /\ QueueHoldsQueued'
  BY <1>1, <1>2 DEF PhaseInv, Typed, QueueHoldsQueued
<1>4. RunsInPmap'
  BY <1>1, <1>2 DEF PhaseInv, RunsInPmap
<1>5. LearnsWhileServing'
  BY <1>1, <1>2 DEF PhaseInv, LearnsWhileServing, BusyJob
<1>6. QED
  BY <1>3, <1>4, <1>5 DEF PhaseInv

\* A task of a serving phase that ends or raises after the others of an inline
\* loop: no other one runs.
LEMMA LastOneRaises ==
    ASSUME PhaseInv, NEW i \in Task, serve[i] = "running",
           main' = main \/ (main' = "aborted" /\ Inline),
           NEW k \in Task \ {i}, serve[k] = "running"
    PROVE  main' = main
<1>1. i \in chunk /\ k \in chunk /\ chunk \in SUBSET Task
  BY DEF PhaseInv, RunsInPmap, Typed
<1>2. QED
  BY <1>1, AtMostOne DEF Inline

\* A task of a serving phase ends and its learning is submitted.
LEMMA SubmitKeeps ==
    ASSUME PhaseInv, NEW i \in Task, mode = "serving", serve[i] = "running",
           NEW s \in {"solved", "raised"}, serve' = [serve EXCEPT ![i] = s],
           Submit(i), main' = main \/ (main' = "aborted" /\ Inline),
           UNCHANGED <<mode, length, chunk, rows>>
    PROVE  PhaseInv'
<1>1. /\ queue' = Append(queue, i)
      /\ job' = [job EXCEPT ![i] = "queued"]
  BY DEF Submit
<1>2. /\ serve' \in [Task -> {"waiting", "running", "solved", "raised"}]
      /\ serve'[i] = s /\ \A k \in Task \ {i} : serve'[k] = serve[k]
  BY ServeTyped DEF PhaseInv
<1>3. /\ job' \in [Task -> {"none", "queued", "running", "learned", "dead"}]
      /\ job'[i] = "queued" /\ \A k \in Task \ {i} : job'[k] = job[k]
  BY <1>1, JobTyped DEF PhaseInv
<1>4. main \in {"pmap", "join"} /\ ~BusyJob(i)
  BY DEF PhaseInv, RunsInPmap, LearnsWhileServing
<1>5. queue \in Seq(Task)
  BY DEF PhaseInv, Typed
<1>6. /\ queue' \in Seq(Task)
      /\ Len(queue) \in Nat /\ DOMAIN queue = 1 .. Len(queue)
      /\ DOMAIN queue' = 1 .. (Len(queue) + 1)
      /\ \A k \in DOMAIN queue : queue'[k] = queue[k] /\ queue[k] \in Task
      /\ queue'[Len(queue) + 1] = i
  BY <1>1, <1>5
<1>7. Typed'
  BY <1>1, <1>2, <1>3, <1>4, <1>6 DEF PhaseInv, Typed
<1>8. QueueHoldsQueued'
  <2>1. \A k \in DOMAIN queue : job[queue[k]] = "queued" /\ queue[k] # i
    BY <1>4 DEF PhaseInv, QueueHoldsQueued, BusyJob
  <2>2. \A k \in DOMAIN queue' : job'[queue'[k]] = "queued"
    BY <1>3, <1>6, <2>1
  <2>3. \A j, k \in DOMAIN queue' : queue'[j] = queue'[k] => j = k
    BY <1>6, <2>1 DEF PhaseInv, QueueHoldsQueued
  <2>4. \A t \in Task : job'[t] = "queued" => \E k \in DOMAIN queue' : queue'[k] = t
    BY <1>3, <1>6 DEF PhaseInv, QueueHoldsQueued
  <2>5. QED
    BY <2>2, <2>3, <2>4 DEF QueueHoldsQueued
<1>9. RunsInPmap'
  BY <1>2, LastOneRaises DEF PhaseInv, RunsInPmap
<1>10. LearnsWhileServing'
  BY <1>2, <1>3, <1>4 DEF PhaseInv, LearnsWhileServing, BusyJob
<1>11. QED
  BY <1>7, <1>8, <1>9, <1>10 DEF PhaseInv

LEMMA ServeKeeps ==
    ASSUME PhaseInv, NEW i \in Task, Serve(i)
    PROVE  PhaseInv'
BY SubmitKeeps DEF Serve

\* It raises, with its learning submitted or without.
LEMMA ServeRaisesKeeps ==
    ASSUME PhaseInv, NEW i \in Task, ServeRaises(i)
    PROVE  PhaseInv'
<1>1. /\ mode = "serving" /\ serve[i] = "running"
      /\ serve' = [serve EXCEPT ![i] = "raised"]
      /\ main' = main \/ (main' = "aborted" /\ Inline)
      /\ UNCHANGED <<mode, length, chunk, rows>>
  BY DEF ServeRaises
<1>2. CASE Submit(i)
  BY <1>1, <1>2, SubmitKeeps
<1>3. CASE UNCHANGED <<queue, job>>
  <2>1. /\ serve' \in [Task -> {"waiting", "running", "solved", "raised"}]
        /\ serve'[i] = "raised" /\ \A k \in Task \ {i} : serve'[k] = serve[k]
    BY <1>1, ServeTyped DEF PhaseInv
  <2>2. main \in {"pmap", "join"}
    BY <1>1 DEF PhaseInv, RunsInPmap
  <2>3. Typed' /\ QueueHoldsQueued'
    BY <1>1, <1>3, <2>1, <2>2 DEF PhaseInv, Typed, QueueHoldsQueued
  <2>4. RunsInPmap'
    BY <1>1, <2>1, LastOneRaises DEF PhaseInv, RunsInPmap
  <2>5. LearnsWhileServing'
    BY <1>1, <1>3, <2>1, <2>2 DEF PhaseInv, LearnsWhileServing, BusyJob
  <2>6. QED
    BY <2>3, <2>4, <2>5 DEF PhaseInv
<1>4. QED
  BY <1>2, <1>3 DEF ServeRaises

\* No learning is left while a phase that does not serve goes on.
LEMMA OnlyServingLearns ==
    ASSUME PhaseInv, mode # "serving"
    PROVE  queue = <<>> /\ \A i \in Task : ~BusyJob(i)
<1>1. \A i \in Task : ~BusyJob(i)
  BY DEF PhaseInv, LearnsWhileServing
<1>2. queue \in Seq(Task) /\ \A k \in DOMAIN queue : job[queue[k]] = "queued"
  BY DEF PhaseInv, Typed, QueueHoldsQueued
<1>3. queue = <<>>
  <2>1. SUFFICES ASSUME queue # <<>> PROVE FALSE
    OBVIOUS
  <2>2. 1 \in DOMAIN queue /\ queue[1] \in Task
    BY <1>2, <2>1
  <2>3. QED
    BY <1>1, <1>2, <2>2 DEF BusyJob
<1>4. QED
  BY <1>1, <1>3

\* An item that ends, or raises, in a phase that does not serve.
LEMMA ItemEndKeeps ==
    ASSUME PhaseInv, NEW i \in Task, SolveOnly(i) \/ Rollout(i) \/ RolloutRaises(i)
    PROVE  PhaseInv'
<1>1. /\ mode \in {"batched", "rollouts"} /\ serve[i] = "running"
      /\ UNCHANGED <<mode, length, chunk, queue, rows>>
      /\ main' \in {main, "aborted"} /\ (main' # main => Inline)
  BY DEF SolveOnly, Rollout, RolloutRaises
<1>2. PICK s \in {"solved", "raised"} : serve' = [serve EXCEPT ![i] = s]
  BY DEF SolveOnly, Rollout, RolloutRaises
<1>3. /\ serve' \in [Task -> {"waiting", "running", "solved", "raised"}]
      /\ serve'[i] = s /\ \A k \in Task \ {i} : serve'[k] = serve[k]
  BY <1>2, ServeTyped DEF PhaseInv
<1>4. job' = job \/ job' = [job EXCEPT ![i] = "dead"]
  BY DEF SolveOnly, Rollout, RolloutRaises
<1>5. /\ job' \in [Task -> {"none", "queued", "running", "learned", "dead"}]
      /\ \A k \in Task : job'[k] \in {job[k], "dead"}
  BY <1>4, JobTyped DEF PhaseInv, Typed
<1>6. queue = <<>> /\ \A k \in Task : ~BusyJob(k)
  BY <1>1, OnlyServingLearns
<1>7. main \in {"pmap", "join"} /\ i \in chunk /\ chunk \subseteq Task
  BY <1>1 DEF PhaseInv, RunsInPmap, Typed
<1>8. Typed'
  BY <1>1, <1>3, <1>5, <1>7 DEF PhaseInv, Typed
<1>9. \A k \in Task : ~BusyJob(k)'
  BY <1>5, <1>6 DEF BusyJob
<1>10. QueueHoldsQueued'
  BY <1>1, <1>6, <1>9 DEF QueueHoldsQueued, BusyJob
<1>11. LearnsWhileServing'
  BY <1>9 DEF LearnsWhileServing
<1>12. RunsInPmap'
  <2>1. SUFFICES ASSUME NEW k \in Task, serve'[k] = "running"
                 PROVE  k \in chunk' /\ main' \in {"pmap", "join"}
    BY DEF RunsInPmap
  <2>2. k # i /\ serve[k] = "running" /\ k \in chunk
    BY <1>3, <2>1 DEF PhaseInv, RunsInPmap
  <2>3. main' = main
    BY <1>1, <1>7, <2>2, AtMostOne DEF Inline
  <2>4. QED
    BY <1>1, <1>7, <2>2, <2>3
<1>13. QED
  BY <1>8, <1>10, <1>11, <1>12 DEF PhaseInv

\* The steps of the main thread.
LEMMA MainKeeps ==
    ASSUME PhaseInv, Reraise \/ Joined \/ Return \/ Drain
    PROVE  PhaseInv'
<1>1. UNCHANGED <<mode, length, chunk, serve, queue, job>>
  BY DEF Reraise, Joined, Return, Drain
<1>2. Typed'
  BY <1>1, InOrderTyped DEF PhaseInv, Typed, Reraise, Joined, Return, Drain
<1>3. QueueHoldsQueued'
  BY <1>1 DEF PhaseInv, QueueHoldsQueued
<1>4. RunsInPmap'
  BY <1>1 DEF PhaseInv, RunsInPmap, Reraise, Joined, Return, Drain
<1>5. LearnsWhileServing'
  <2>1. SUFFICES ASSUME NEW i \in Task, BusyJob(i)
                 PROVE  /\ mode = "serving" /\ main' \in {"pmap", "join", "drain", "aborted"}
                        /\ serve[i] \in {"solved", "raised"}
    BY <1>1 DEF LearnsWhileServing, BusyJob
  <2>2. mode = "serving" /\ serve[i] \in {"solved", "raised"}
    BY <2>1 DEF PhaseInv, LearnsWhileServing
  <2>3. ~Drain
    BY <2>1 DEF Drain, BusyJob, LearnersDone
  <2>4. QED
    BY <2>2, <2>3 DEF Reraise, Joined, Return
<1>6. QED
  BY <1>2, <1>3, <1>4, <1>5 DEF PhaseInv

\* A learner takes the job that waits longest.
LEMMA TakeJobKeeps ==
    ASSUME PhaseInv, TakeJob
    PROVE  PhaseInv'
<1> DEFINE i == Head(queue)
<1>1. /\ queue # <<>> /\ queue' = Tail(queue)
      /\ job' = [job EXCEPT ![i] = "running"]
      /\ UNCHANGED <<mode, length, main, chunk, serve, rows>>
  BY DEF TakeJob
<1>2. queue \in Seq(Task)
  BY DEF PhaseInv, Typed
<1>3. /\ i \in Task /\ i = queue[1] /\ 1 \in DOMAIN queue
      /\ queue' \in Seq(Task) /\ Len(queue) \in Nat
      /\ DOMAIN queue = 1 .. Len(queue) /\ DOMAIN queue' = 1 .. (Len(queue) - 1)
      /\ \A k \in DOMAIN queue' : queue'[k] = queue[k + 1] /\ queue[k + 1] \in Task
  BY <1>1, <1>2
<1> HIDE DEF i
<1>4. /\ job' \in [Task -> {"none", "queued", "running", "learned", "dead"}]
      /\ job'[i] = "running" /\ \A k \in Task \ {i} : job'[k] = job[k]
  BY <1>1, <1>3, JobTyped DEF PhaseInv
<1>5. BusyJob(i)
  BY <1>3 DEF PhaseInv, QueueHoldsQueued, BusyJob
<1>6. Typed'
  BY <1>1, <1>3, <1>4 DEF PhaseInv, Typed
<1>7. QueueHoldsQueued'
  <2>1. \A k \in DOMAIN queue' : k + 1 \in DOMAIN queue /\ k + 1 # 1
    BY <1>3
  <2>2. \A k \in DOMAIN queue' : queue[k + 1] # i /\ job[queue[k + 1]] = "queued"
    BY <1>3, <2>1 DEF PhaseInv, QueueHoldsQueued
  <2>3. \A k \in DOMAIN queue' : job'[queue'[k]] = "queued"
    BY <1>3, <1>4, <2>2
  <2>4. \A j, k \in DOMAIN queue' : queue'[j] = queue'[k] => j = k
    <3>1. SUFFICES ASSUME NEW j \in DOMAIN queue', NEW k \in DOMAIN queue',
                          queue'[j] = queue'[k]
                   PROVE  j = k
      OBVIOUS
    <3>2. j + 1 = k + 1
      BY <1>3, <2>1, <3>1 DEF PhaseInv, QueueHoldsQueued
    <3>3. QED
      BY <1>3, <3>2
  <2>5. \A t \in Task : job'[t] = "queued" => \E k \in DOMAIN queue' : queue'[k] = t
    <3>1. SUFFICES ASSUME NEW t \in Task, job'[t] = "queued"
                   PROVE  \E k \in DOMAIN queue' : queue'[k] = t
      OBVIOUS
    <3>2. t # i /\ job[t] = "queued"
      BY <1>4, <3>1
    <3>3. PICK j \in DOMAIN queue : queue[j] = t
      BY <3>2 DEF PhaseInv, QueueHoldsQueued
    <3>4. j # 1 /\ j - 1 \in DOMAIN queue' /\ (j - 1) + 1 = j
      BY <1>3, <3>2, <3>3
    <3>5. queue'[j - 1] = t
      BY <1>3, <3>3, <3>4
    <3>6. QED
      BY <3>4, <3>5
  <2>6. QED
    BY <2>3, <2>4, <2>5 DEF QueueHoldsQueued
<1>8. RunsInPmap'
  BY <1>1 DEF PhaseInv, RunsInPmap
<1>9. LearnsWhileServing'
  BY <1>1, <1>3, <1>4, <1>5 DEF PhaseInv, LearnsWhileServing, BusyJob
<1>10. QED
  BY <1>6, <1>7, <1>8, <1>9 DEF PhaseInv

LEMMA LearnJobKeeps ==
    ASSUME PhaseInv, NEW i \in Task, LearnJob(i)
    PROVE  PhaseInv'
<1>1. /\ job[i] = "running"
      /\ UNCHANGED <<mode, length, main, chunk, serve, queue, rows>>
  BY DEF LearnJob
<1>2. PICK s \in {"learned", "dead"} : job' = [job EXCEPT ![i] = s]
  BY DEF LearnJob
<1>3. /\ job' \in [Task -> {"none", "queued", "running", "learned", "dead"}]
      /\ job'[i] = s /\ \A k \in Task \ {i} : job'[k] = job[k]
  BY <1>2, JobTyped DEF PhaseInv
<1>4. Typed'
  BY <1>1, <1>3 DEF PhaseInv, Typed
<1>5. QueueHoldsQueued'
  <2>1. queue \in Seq(Task) /\ \A k \in DOMAIN queue : queue[k] \in Task
    BY DEF PhaseInv, Typed
  <2>2. QED
    BY <1>1, <1>3, <2>1 DEF PhaseInv, QueueHoldsQueued
<1>6. RunsInPmap' /\ LearnsWhileServing'
  BY <1>1, <1>3 DEF PhaseInv, RunsInPmap, LearnsWhileServing, BusyJob
<1>7. QED
  BY <1>4, <1>5, <1>6 DEF PhaseInv

LEMMA PhaseStep == PhaseInv /\ [PhaseNext]_vars => PhaseInv'
<1> SUFFICES ASSUME PhaseInv, [PhaseNext]_vars PROVE PhaseInv'
  OBVIOUS
<1>1. CASE UNCHANGED vars
  BY <1>1
     DEF vars, PhaseInv, Typed, QueueHoldsQueued, RunsInPmap, LearnsWhileServing,
         BusyJob
<1>2. CASE PhaseNext
  <2>1. CASE \E way \in Modes, n \in 0 .. N : Begin(way, n)
    BY <2>1, BeginKeeps
  <2>2. CASE main = "before" /\ \E n \in 0 .. N : Begin(mode, n)
    BY <2>2, BeginKeeps DEF PhaseInv, Typed
  <2>3. CASE \E i \in Task : Take(i) \/ Serve(i) \/ ServeRaises(i) \/ SolveOnly(i)
                             \/ LearnJob(i) \/ Rollout(i) \/ RolloutRaises(i)
    BY <2>3, TakeKeeps, ServeKeeps, ServeRaisesKeeps, ItemEndKeeps, LearnJobKeeps
  <2>4. CASE TakeJob \/ Reraise \/ Joined \/ Return \/ Drain
    BY <2>4, TakeJobKeeps, MainKeeps
  <2>5. QED
    BY <1>1, <1>2, <2>1, <2>2, <2>3, <2>4 DEF PhaseNext, Next, Over
<1>3. QED
  BY <1>1, <1>2

-----------------------------------------------------------------------------

\* Every variable of a phase has its type, and no job is in the queue twice.
THEOREM PhasesTypeCorrect == Spec => []TypeOK
<1>1. Next => PhaseNext
  BY DEF PhaseNext
<1>2. QED
  BY <1>1, PhaseInit, PhaseStep, PhaseInvTypes, PTL DEF Spec

\* When a phase is over, however it ended, no task is still being solved; and
\* no thread learns, unless a serving phase has raised (serve_and_learn, pmap).
THEOREM PhasesLeaveNothing == Spec => []NothingRunsBehind
<1>1. Next => PhaseNext
  BY DEF PhaseNext
<1>2. QED
  BY <1>1, PhaseInit, PhaseStep, PhaseInvQuiet, PTL DEF Spec

-----------------------------------------------------------------------------
\* The inductive invariant of the run and of its launch.

MixTyped ==
    /\ mix \in [Class -> Nat \ {0}]
    /\ emitted \in [Class -> Nat]
    /\ \A g \in Class : emitted[g] <= mix[g]

RunTyped ==
    /\ ordered \in Nat
    /\ method \in Methods

\* A launch is in the state its runs allow.
LaunchInv ==
    /\ status \in [1 .. Runs -> {"waiting", "running", "ok", "failed"}]
    /\ workers \in Nat \ {0}
    /\ launch \in {"going", "raised", "failed", "summary"}
    /\ launch = "failed" => Busy = {}
    /\ launch = "summary" => \A r \in 1 .. Runs : status[r] = "ok"
    /\ workers = 1 =>
         /\ \A q, r \in Busy : q = r
         /\ (\E r \in 1 .. Runs : status[r] = "failed") => Busy = {}

\* The followed run's place in the launch.
FocusInv ==
    /\ status[Focus] = "waiting" => phase = "waiting"
    /\ status[Focus] \in {"ok", "failed"} => phase = status[Focus]
    /\ status[Focus] # "running" => LearnersDone

MainInv ==
    /\ PhaseInv /\ MixTyped /\ MixPreserved /\ RunTyped /\ LaunchInv /\ FocusInv

-----------------------------------------------------------------------------

LEMMA MainInitHolds == MainInit => MainInv
<1> SUFFICES ASSUME MainInit PROVE MainInv
  OBVIOUS
<1>1. PhaseInv
  BY PhaseInit DEF MainInit
<1>2. MixTyped /\ MixPreserved
  BY HarnessAssumption DEF MainInit, MixTyped, MixPreserved
<1>3. RunTyped
  BY DEF MainInit, RunTyped
<1>4. LaunchInv /\ FocusInv
  BY HarnessAssumption DEF MainInit, Init, LaunchInv, FocusInv, Busy, LearnersDone
<1>5. QED
  BY <1>1, <1>2, <1>3, <1>4 DEF MainInv

LEMMA SliceSizes ==
    ASSUME RunTyped
    PROVE  FirstSlice \in 0 .. N /\ SecondSlice \in 0 .. N
           /\ LearnFrom \in 0 .. N /\ DeployOn \in 0 .. N
BY HarnessAssumption, TaskFinite
   DEF RunTyped, FirstSlice, SecondSlice, LearnFrom, DeployOn, AtMost

\* The phases of a run are phases of ParallelLearning, one after another.
LEMMA StepOfPhases ==
    ASSUME MainInv, [MainNext]_mainVars
    PROVE  [PhaseNext]_vars
<1>1. CASE StartLearning
  <2>1. LearnFrom \in 0 .. N
    BY SliceSizes DEF MainInv
  <2>2. (IF method = "external_optimizer" THEN "rollouts" ELSE method) \in Modes
    BY <1>1, HarnessAssumption DEF MainInv, RunTyped, StartLearning
  <2>3. QED
    BY <1>1, <2>1, <2>2 DEF StartLearning, PhaseNext
<1>2. CASE StartDeployment
  BY <1>2, SliceSizes, HarnessAssumption DEF MainInv, StartDeployment, PhaseNext
<1>3. CASE LearningStep \/ Leftover
  BY <1>3 DEF LearningStep, Leftover, PhaseNext, Next
<1>4. CASE DeployStep
  BY <1>4 DEF DeployStep, DeployTask, PhaseNext, Next
<1>5. CASE UNCHANGED vars
  BY <1>5
<1>6. QED
  BY <1>1, <1>2, <1>3, <1>4, <1>5
     DEF MainNext, RunNext, LaunchNext, LaunchOver, mainVars, Emit, SplitDone,
         LearnSequentially, LearningOver, Synthesize, FinalConsolidation,
         DeploymentOver, StartRun, EndRun, LaunchRaises, LaunchFails, Summarise

\* A smaller factor gives a smaller product.
LEMMA Scaled ==
    ASSUME NEW a \in Nat, NEW b \in Nat, NEW c \in Nat, a <= b
    PROVE  a * c <= b * c /\ a * c \in Nat /\ b * c \in Nat
OBVIOUS

\* The class that is emitted was the most behind.
LEMMA EmitKeepsMix ==
    ASSUME MixTyped, MixPreserved, NEW g \in Class, Emit(g)
    PROVE  MixTyped' /\ MixPreserved'
<1>1. /\ g \in Emittable
      /\ \A h \in Emittable : (emitted[g] + 1) * mix[h] <= (emitted[h] + 1) * mix[g]
      /\ emitted' = [emitted EXCEPT ![g] = emitted[g] + 1] /\ mix' = mix
  BY DEF Emit, Behind, chosen
<1>2. \A h \in Class : mix[h] \in Nat /\ emitted[h] \in Nat /\ emitted[h] <= mix[h]
  BY DEF MixTyped
<1>3. /\ emitted'[g] = emitted[g] + 1 /\ emitted'[g] <= mix[g]
      /\ \A h \in Class \ {g} : emitted'[h] = emitted[h]
  BY <1>1, <1>2 DEF MixTyped, Emittable
<1>4. MixTyped'
  BY <1>1, <1>2, <1>3 DEF MixTyped
<1>5. ASSUME NEW h \in Class
      PROVE  (emitted[g] + 1) * mix[h] <= (emitted[h] + 1) * mix[g]
  <2>1. CASE h \in Emittable
    BY <1>1, <2>1
  <2>2. CASE h \notin Emittable
    <3>1. emitted[h] = mix[h] /\ emitted[g] + 1 <= mix[g]
      BY <1>2, <1>3, <2>2 DEF Emittable
    <3>2. (emitted[g] + 1) * mix[h] <= mix[g] * mix[h]
      BY <1>2, <3>1, Scaled
    <3>3. mix[h] * mix[g] <= (mix[h] + 1) * mix[g]
      BY <1>2, Scaled
    <3>4. mix[g] * mix[h] = mix[h] * mix[g]
      BY <1>2
    <3>5. (emitted[g] + 1) * mix[h] \in Nat /\ mix[g] * mix[h] \in Nat
            /\ (mix[h] + 1) * mix[g] \in Nat
      BY <1>2, Scaled
    <3>6. QED
      BY <3>1, <3>2, <3>3, <3>4, <3>5
  <2>3. QED
    BY <2>1, <2>2
<1>6. ASSUME NEW x \in Class, NEW y \in Class
      PROVE  emitted'[x] * mix[y] <= (emitted'[y] + 1) * mix[x]
  <2> DEFINE now == emitted[y] + 1
             next == emitted'[y] + 1
  <2>1. now \in Nat /\ next \in Nat /\ now <= next /\ mix[x] \in Nat /\ mix[y] \in Nat
          /\ emitted'[x] \in Nat
    BY <1>2, <1>3
  <2>2. emitted'[x] * mix[y] <= now * mix[x]
    <3>1. CASE x = g
      BY <1>3, <1>5, <3>1
    <3>2. CASE x # g
      BY <1>3, <3>2 DEF MixPreserved
    <3>3. QED
      BY <3>1, <3>2
  <2> HIDE DEF now, next
  <2>3. /\ now * mix[x] <= next * mix[x]
        /\ now * mix[x] \in Nat /\ next * mix[x] \in Nat
    BY <2>1, Scaled
  <2>4. emitted'[x] * mix[y] \in Nat
    BY <2>1, Scaled
  <2>5. emitted'[x] * mix[y] <= next * mix[x]
    BY <2>2, <2>3, <2>4
  <2>6. QED
    BY <2>5 DEF next
<1>7. MixPreserved'
  BY <1>1, <1>6 DEF MixPreserved
<1>8. QED
  BY <1>4, <1>7

\* The run itself does not touch the launch, nor the launch the run.
LEMMA RunStep ==
    ASSUME MainInv, RunNext
    PROVE  MixTyped' /\ MixPreserved' /\ RunTyped' /\ LaunchInv' /\ FocusInv'
<1>1. UNCHANGED <<launchVars, chosen>> /\ (phase \notin {"waiting", "ok", "failed"} \/ Leftover)
  BY DEF RunNext, Emit, SplitDone, LearnSequentially, StartLearning,
         LearningStep, LearningOver, Leftover, Synthesize, FinalConsolidation,
         StartDeployment, DeployStep, DeploymentOver
<1>2. LaunchInv'
  BY <1>1 DEF MainInv, LaunchInv, Busy, launchVars
<1>3. FocusInv'
  <2>1. ASSUME Leftover PROVE ~LearnersDone
    <3>1. \A k \in DOMAIN queue : queue[k] \in Task /\ job[queue[k]] = "queued"
      BY DEF MainInv, PhaseInv, Typed, QueueHoldsQueued
    <3>2. queue # <<>> => 1 \in DOMAIN queue
      BY DEF MainInv, PhaseInv, Typed
    <3>3. TakeJob \/ \E i \in Task : LearnJob(i)
      BY <2>1 DEF Leftover
    <3>4. QED
      BY <3>1, <3>2, <3>3 DEF TakeJob, LearnJob, LearnersDone
  <2>2. status[Focus] = "running"
    BY <1>1, <2>1, HarnessAssumption DEF MainInv, FocusInv, LaunchInv
  <2>3. status' = status
    BY <1>1 DEF launchVars
  <2>4. QED
    BY <2>2, <2>3 DEF FocusInv
<1>4. CASE \E g \in Class : Emit(g)
  <2>1. PICK g \in Class : Emit(g)
    BY <1>4
  <2>2. MixTyped' /\ MixPreserved'
    BY <2>1, EmitKeepsMix DEF MainInv
  <2>3. RunTyped'
    BY <2>1 DEF MainInv, RunTyped, Emit, chosen
  <2>4. QED
    BY <1>2, <1>3, <2>2, <2>3
<1>5. CASE UNCHANGED split
  BY <1>1, <1>2, <1>3, <1>5
     DEF MainInv, MixTyped, MixPreserved, RunTyped, split, chosen
<1>6. QED
  BY <1>4, <1>5
     DEF RunNext, SplitDone, LearnSequentially, StartLearning, LearningStep,
         LearningOver, Leftover, Synthesize, FinalConsolidation, StartDeployment,
         DeployStep, DeploymentOver

LEMMA StartRunKeeps ==
    ASSUME LaunchInv, FocusInv, NEW r \in 1 .. Runs, StartRun(r)
    PROVE  LaunchInv' /\ FocusInv'
<1>1. /\ launch \in {"going", "raised"} /\ status[r] = "waiting"
      /\ Cardinality(Busy) < workers
      /\ workers = 1 => \A q \in 1 .. Runs : status[q] # "failed"
      /\ status' = [status EXCEPT ![r] = "running"]
      /\ phase' = IF r = Focus THEN "split" ELSE phase
      /\ UNCHANGED <<workers, launch, job>>
  BY DEF StartRun, Waiting, vars
<1>2. /\ status' \in [1 .. Runs -> {"waiting", "running", "ok", "failed"}]
      /\ status'[r] = "running" /\ \A q \in (1 .. Runs) \ {r} : status'[q] = status[q]
  BY <1>1 DEF LaunchInv
<1>3. workers = 1 => Busy = {}
  <2>1. SUFFICES ASSUME workers = 1 PROVE Busy = {}
    OBVIOUS
  <2>2. IsFiniteSet(1 .. Runs)
    BY HarnessAssumption, FS_Interval
  <2>3. IsFiniteSet(Busy) /\ Cardinality(Busy) \in Nat
    BY <2>2, FS_Subset, FS_CardinalityType DEF Busy
  <2>4. Cardinality(Busy) = 0
    BY <1>1, <2>1, <2>3
  <2>5. QED
    BY <2>3, <2>4, FS_EmptySet
<1>4. Busy' = Busy \cup {r}
  BY <1>1, <1>2 DEF Busy
<1>5. LaunchInv'
  BY <1>1, <1>2, <1>3, <1>4 DEF LaunchInv
<1>6. FocusInv'
  BY <1>1, <1>2, HarnessAssumption DEF FocusInv, LearnersDone
<1>7. QED
  BY <1>5, <1>6

LEMMA EndRunKeeps ==
    ASSUME LaunchInv, FocusInv, NEW r \in 1 .. Runs, EndRun(r)
    PROVE  LaunchInv' /\ FocusInv'
<1>1. /\ r \in Busy /\ status[r] = "running"
      /\ UNCHANGED <<workers, launch, phase, job>>
  BY DEF EndRun, Busy, phaseVars, vars
<1>2. PICK end \in {"ok", "failed"} :
        /\ r = Focus => phase = end /\ LearnersDone
        /\ status' = [status EXCEPT ![r] = end]
  BY DEF EndRun
<1>3. /\ status' \in [1 .. Runs -> {"waiting", "running", "ok", "failed"}]
      /\ status'[r] = end /\ \A q \in (1 .. Runs) \ {r} : status'[q] = status[q]
  BY <1>2 DEF LaunchInv
<1>4. Busy' = Busy \ {r}
  BY <1>3 DEF Busy
<1>5. launch' = "summary" => FALSE
  BY <1>1 DEF LaunchInv
<1>6. workers = 1 => Busy' = {}
  BY <1>1, <1>4 DEF LaunchInv
<1>7. LaunchInv'
  BY <1>1, <1>3, <1>4, <1>5, <1>6 DEF LaunchInv
<1>8. FocusInv'
  BY <1>1, <1>2, <1>3, HarnessAssumption DEF FocusInv, LearnersDone
<1>9. QED
  BY <1>7, <1>8

LEMMA LaunchStep ==
    ASSUME MainInv, LaunchNext
    PROVE  MixTyped' /\ MixPreserved' /\ RunTyped' /\ LaunchInv' /\ FocusInv'
<1>1. UNCHANGED <<chosen, split>>
  BY DEF LaunchNext, StartRun, EndRun, LaunchRaises, LaunchFails, Summarise
<1>2. MixTyped' /\ MixPreserved' /\ RunTyped'
  BY <1>1 DEF MainInv, MixTyped, MixPreserved, RunTyped, split, chosen
<1>3. CASE \E r \in 1 .. Runs : StartRun(r) \/ EndRun(r)
  BY <1>2, <1>3, StartRunKeeps, EndRunKeeps DEF MainInv
<1>4. CASE LaunchRaises \/ LaunchFails \/ Summarise
  <2>1. UNCHANGED <<status, workers, phase, job>>
    BY <1>4 DEF LaunchRaises, LaunchFails, Summarise, phaseVars, vars
  <2>2. FocusInv'
    BY <2>1 DEF MainInv, FocusInv, LearnersDone
  <2>3. LaunchInv'
    BY <1>4, <2>1
       DEF MainInv, LaunchInv, Busy, LaunchRaises, LaunchFails, Summarise
  <2>4. QED
    BY <1>2, <2>2, <2>3
<1>5. QED
  BY <1>3, <1>4 DEF LaunchNext

LEMMA MainStep == MainInv /\ [MainNext]_mainVars => MainInv'
<1> SUFFICES ASSUME MainInv, [MainNext]_mainVars PROVE MainInv'
  OBVIOUS
<1>1. PhaseInv'
  BY StepOfPhases, PhaseStep DEF MainInv
<1>2. CASE UNCHANGED mainVars
  BY <1>1, <1>2
     DEF MainInv, MixTyped, MixPreserved, RunTyped, LaunchInv, FocusInv, Busy,
         LearnersDone, mainVars, vars, chosen, split, phaseVars, launchVars
<1>3. QED
  BY <1>1, <1>2, RunStep, LaunchStep DEF MainInv, MainNext, LaunchOver

LEMMA MainAlways == MainSpec => []MainInv
BY MainInitHolds, MainStep, PTL DEF MainSpec

-----------------------------------------------------------------------------

\* A whole run, from learning to deployment: each phase has its types ...
THEOREM RunTypeCorrect == MainSpec => []TypeOK
<1>1. MainInv => TypeOK
  BY PhaseInvTypes DEF MainInv
<1>2. QED
  BY <1>1, MainAlways, PTL

\* ... and leaves nothing running to the next one: the store the deployment
\* reads is no longer written.  (A serving phase that raised has no next one.)
THEOREM RunLeavesNothing == MainSpec => []NothingRunsBehind
<1>1. MainInv => NothingRunsBehind
  BY PhaseInvQuiet DEF MainInv
<1>2. QED
  BY <1>1, MainAlways, PTL

\* stratified_split: in every prefix of the order no class is ahead of another
\* by more than the share of one task, for any number and sizes of classes.
THEOREM SplitKeepsMix == MainSpec => []MixPreserved
<1>1. MainInv => MixPreserved
  BY DEF MainInv
<1>2. QED
  BY <1>1, MainAlways, PTL

\* run.py: a launch that is over has no run going, and no learner of a run that
\* failed; and a summary is one of all runs, whole, for any number of runs and
\* of workers.
THEOREM LaunchEndsWhole == MainSpec => []LaunchIsWhole
<1>1. MainInv => LaunchIsWhole
  <2> SUFFICES ASSUME MainInv PROVE LaunchIsWhole
    OBVIOUS
  <2>1. launch \in {"failed", "summary"} => Busy = {}
    BY DEF MainInv, LaunchInv, Busy
  <2>2. Busy = {} => status[Focus] # "running"
    BY HarnessAssumption DEF Busy
  <2>3. launch = "summary" => Waiting = {} /\ phase = "ok"
    BY HarnessAssumption DEF MainInv, LaunchInv, FocusInv, Waiting
  <2>4. QED
    BY <2>1, <2>2, <2>3 DEF MainInv, FocusInv, LaunchIsWhole
<1>2. QED
  BY <1>1, MainAlways, PTL

-----------------------------------------------------------------------------
\* What the costs of a deployment add up to.

\* f starts from b and adds the first n values of c, one after another.
AddsUp(f, c, b, n) ==
    /\ f[0] = b
    /\ \A k \in 1 .. n : f[k] = f[k - 1] + c[k]

Sums(f, c, b, n) == f \in [0 .. n -> Nat] /\ AddsUp(f, c, b, n)

\* Costs of zero add nothing.
LEMMA SumOfNothing ==
    ASSUME NEW b \in Nat, NEW n \in Nat, NEW c, \A k \in 1 .. n : c[k] = 0
    PROVE  \E f : Sums(f, c, b, n) /\ f[n] = b
<1> DEFINE f == [k \in 0 .. n |-> b]
<1>1. Sums(f, c, b, n) /\ f[n] = b
  BY DEF Sums, AddsUp
<1>2. QED
  BY <1>1

\* A cost that was zero and is v adds v.
LEMMA SumOfOneMore ==
    ASSUME NEW b \in Nat, NEW n \in Nat, NEW c, NEW d, NEW f, Sums(f, c, b, n),
           NEW i \in 1 .. n, NEW v \in Nat, c[i] = 0, d[i] = v,
           \A k \in 1 .. n : c[k] \in Nat,
           \A k \in (1 .. n) \ {i} : d[k] = c[k]
    PROVE  \E g : Sums(g, d, b, n) /\ g[n] = f[n] + v
<1> DEFINE g == [k \in 0 .. n |-> IF k < i THEN f[k] ELSE f[k] + v]
<1>1. f \in [0 .. n -> Nat]
  BY DEF Sums, AddsUp
<1>2. g \in [0 .. n -> Nat] /\ g[0] = b /\ g[n] = f[n] + v
  BY <1>1 DEF Sums, AddsUp
<1>3. ASSUME NEW k \in 1 .. n PROVE g[k] = g[k - 1] + d[k]
  <2>1. /\ f[k] = f[k - 1] + c[k] /\ k - 1 \in 0 .. n /\ k \in 0 .. n
        /\ f[k] \in Nat /\ f[k - 1] \in Nat
    BY <1>1 DEF Sums, AddsUp
  <2>2. CASE k < i
    BY <2>1, <2>2
  <2>3. CASE k = i
    BY <2>1, <2>3
  <2>4. CASE k > i
    <3>1. d[k] = c[k] /\ ~ (k < i) /\ ~ (k - 1 < i)
      BY <2>4
    <3>2. g[k] = f[k] + v /\ g[k - 1] = f[k - 1] + v
      BY <2>1, <3>1
    <3> DEFINE x == f[k - 1]
               y == c[k]
               z == f[k]
    <3>3. z = x + y /\ z \in Nat /\ x \in Nat /\ d[k] = y /\ g[k] = z + v /\ g[k - 1] = x + v
      BY <2>1, <3>1, <3>2
    <3>4. z + v = (x + y) + v
      BY <3>3
    <3> HIDE DEF x, y, z, g
    <3>5. (x + y) + v = (x + v) + y
      BY <3>3
    <3>6. QED
      BY <3>3, <3>4, <3>5
  <2>5. QED
    BY <2>2, <2>3, <2>4
<1> HIDE DEF g
<1>4. QED
  BY <1>2, <1>3 DEF Sums, AddsUp

\* There is one sum.
LEMMA SumIsUnique ==
    ASSUME NEW b, NEW n \in Nat, NEW c, NEW f, Sums(f, c, b, n),
           NEW g, AddsUp(g, c, b, n)
    PROVE  \A k \in 0 .. n : g[k] = f[k]
<1> DEFINE S == {k \in 0 .. n : g[k] = f[k]}
<1>1. 0 \in S
  BY DEF Sums, AddsUp
<1>2. ASSUME NEW k \in 1 .. n, k - 1 \in S PROVE k \in S
  BY <1>2 DEF Sums, AddsUp
<1> HIDE DEF S
<1>3. 0 .. n \subseteq S
  BY <1>1, <1>2, UpTo
<1>4. QED
  BY <1>3 DEF S

\* The loop that writes the rows of a deployment: rows in order of the stream.
LEMMA CostIsSum ==
    ASSUME NEW n \in Nat, rows = [k \in 1 .. n |-> k], c0 \in Nat,
           cost \in [Task -> Nat], n \in 0 .. N
    PROVE  AddsUp(CostUpTo, cost, c0, n)
<1> DEFINE step == [i \in 1 .. n |-> [v \in Nat |-> v + cost[i]]]
           IsLoop(f) == f = [k \in 0 .. Len(rows) |-> IF k = 0 THEN c0
                                                      ELSE f[k - 1] + cost[rows[k]]]
           g == CostUpTo
<1>1. Len(rows) = n /\ \A k \in 1 .. n : rows[k] = k
  OBVIOUS
<1>2. \A k \in 1 .. n : cost[k] \in Nat
  BY ParallelAssumption DEF Task
<1>3. step \in Turns(n, Nat)
  BY <1>2 DEF Turns
<1>4. g = CHOOSE f : IsLoop(f)
  BY DEF CostUpTo
<1>5. \E f : IsLoop(f)
  <2>1. PICK f : IsRun(f, Nat, c0, n, step)
    <3> HIDE DEF step
    <3>1. QED
      BY <1>3, RecursionExists
  <2>2. ASSUME NEW k \in 1 .. n PROVE f[k] = f[k - 1] + cost[rows[k]]
    <3>1. f[k - 1] \in Nat
      BY <2>1 DEF IsRun
    <3>2. f[k] = step[k][f[k - 1]]
      BY <2>1 DEF IsRun
    <3>3. QED
      BY <3>1, <3>2, <1>1
  <2> HIDE DEF step
  <2>3. f = [k \in 0 .. n |-> IF k = 0 THEN c0 ELSE f[k - 1] + cost[rows[k]]]
    BY <2>1, <2>2 DEF IsRun
  <2>4. IsLoop(f)
    BY <1>1, <2>3
  <2>5. QED
    BY <2>4
<1>6. IsLoop(g)
  <2> HIDE DEF IsLoop, g
  <2>1. QED
    BY <1>4, <1>5
<1> HIDE DEF g
<1>7. g = [k \in 0 .. n |-> IF k = 0 THEN c0 ELSE g[k - 1] + cost[rows[k]]]
  BY <1>1, <1>6
<1>8. g[0] = c0 /\ \A k \in 1 .. n : g[k] = g[k - 1] + cost[k]
  <2> HIDE DEF IsLoop
  <2>2. 0 \in 0 .. n /\ g[0] = c0
    <3>1. 0 \in 0 .. n
      OBVIOUS
    <3>2. QED
      BY <1>7, <3>1
  <2>3. ASSUME NEW k \in 1 .. n PROVE g[k] = g[k - 1] + cost[k]
    <3>1. k \in 0 .. n /\ k # 0 /\ rows[k] = k
      BY <1>1
    <3>2. g[k] = g[k - 1] + cost[rows[k]]
      BY <1>7, <3>1
    <3>3. QED
      BY <3>1, <3>2
  <2>4. QED
    BY <2>2, <2>3
<1>9. QED
  BY <1>8 DEF g, AddsUp

-----------------------------------------------------------------------------
\* The invariant of the deployment's costs, by parts.

CostTyped == ledger \in Nat /\ c0 \in Nat /\ cost \in [Task -> Nat]

Early ==
    {"waiting", "split", "learn", "learning", "synthesize", "consolidate", "learned"}

\* Before its deployment a run has no costs of tasks and no rows.
NoCostYet ==
    phase \in Early => cost = [i \in Task |-> 0] /\ curve = <<>>

\* The ledger has what it had when the deployment began, and the cost of every
\* task that is solved.
LedgerAddsUp ==
    phase = "deploy" /\ ~uncounted =>
        \E f : Sums(f, cost, c0, length) /\ f[length] = ledger

Deploying ==
    phase = "deploy" =>
        /\ chunk = 1 .. length
        /\ \A i \in Task : serve[i] # "solved" => cost[i] = 0
        /\ main = "frozen" => rows = InOrder

CostInv == CostTyped /\ NoCostYet /\ LedgerAddsUp /\ Deploying /\ CurveEndsAtLedger

\* The deployment begins: no task has a cost, and the curve starts at the ledger.
LEMMA StartDeploymentCosts ==
    ASSUME MainInv, CostInv, StartDeployment
    PROVE  CostInv'
<1>1. /\ phase = "learned" /\ phase' = "deploy" /\ c0' = ledger
      /\ ledger' = ledger /\ cost' = cost /\ uncounted' = uncounted /\ curve' = curve
      /\ length' = DeployOn /\ main' = "pmap" /\ chunk' = 1 .. DeployOn
  BY DEF StartDeployment, Begin
<1>2. cost = [i \in Task |-> 0] /\ ledger \in Nat
  BY <1>1 DEF CostInv, CostTyped, NoCostYet, Early
<1>3. DeployOn \in 0 .. N /\ N \in Nat
  BY SliceSizes, TaskFinite DEF MainInv
<1>4. CostTyped' /\ NoCostYet'
  BY <1>1, <1>2 DEF CostTyped, NoCostYet, Early
<1>5. LedgerAddsUp'
  <2>1. \A k \in 1 .. DeployOn : cost[k] = 0
    BY <1>2, <1>3 DEF Task
  <2>2. DeployOn \in Nat
    BY <1>3
  <2>3. \E f : Sums(f, cost, ledger, DeployOn) /\ f[DeployOn] = ledger
    BY <1>2, <2>1, <2>2, SumOfNothing
  <2>4. QED
    BY <1>1, <2>3 DEF LedgerAddsUp
<1>6. Deploying'
  BY <1>1, <1>2 DEF Deploying
<1>7. CurveEndsAtLedger'
  BY <1>1 DEF CurveEndsAtLedger
<1>8. QED
  BY <1>4, <1>5, <1>6, <1>7 DEF CostInv

\* A task is solved: the ledger gets what the task reports, or the premise ends.
LEMMA DeployTaskCosts ==
    ASSUME MainInv, CostInv, NEW i \in Task, phase = "deploy", DeployTask(i),
           UNCHANGED <<phase, c0, curve>>
    PROVE  CostInv'
<1>1. PICK own \in 0 .. 1, lines \in 0 .. 2 :
        /\ cost' = [cost EXCEPT ![i] = own]
        /\ ledger' = ledger + lines
        /\ uncounted' = (uncounted \/ lines # own)
  BY DEF DeployTask
<1>2. /\ serve[i] = "running" /\ serve' = [serve EXCEPT ![i] = "solved"]
      /\ length' = length /\ main' = main /\ chunk' = chunk /\ rows' = rows
  BY DEF DeployTask, Rollout
<1>3. /\ ledger \in Nat /\ c0 \in Nat /\ cost \in [Task -> Nat]
      /\ chunk = 1 .. length /\ cost[i] = 0
  BY <1>2 DEF CostInv, CostTyped, Deploying
<1>4. /\ length \in Nat /\ i \in 1 .. length /\ main # "frozen"
      /\ serve \in [Task -> {"waiting", "running", "solved", "raised"}]
      /\ 1 .. length \subseteq Task
  BY <1>2, <1>3, ParallelAssumption DEF MainInv, PhaseInv, RunsInPmap, Typed, Task
<1>5. cost' \in [Task -> Nat] /\ cost'[i] = own /\ \A k \in Task \ {i} : cost'[k] = cost[k]
  BY <1>1, <1>3
<1>6. CostTyped' /\ NoCostYet'
  BY <1>1, <1>3, <1>5 DEF CostTyped, NoCostYet, Early
<1>7. Deploying'
  BY <1>2, <1>3, <1>4, <1>5 DEF CostInv, Deploying
<1>8. LedgerAddsUp'
  <2> SUFFICES ASSUME ~uncounted'
               PROVE  \E f : Sums(f, cost', c0, length) /\ f[length] = ledger'
    BY <1>2 DEF LedgerAddsUp
  <2>1. ~uncounted /\ lines = own
    BY <1>1
  <2>2. ledger' = ledger + own /\ own \in Nat
    BY <1>1, <1>3, <2>1
  <2>3. PICK f : Sums(f, cost, c0, length) /\ f[length] = ledger
    BY <2>1 DEF CostInv, LedgerAddsUp
  <2>4. /\ \A k \in (1 .. length) \ {i} : cost'[k] = cost[k]
        /\ \A k \in 1 .. length : cost[k] \in Nat
    BY <1>3, <1>4, <1>5
  <2> DEFINE d == cost'
             n == length
  <2>5. \E g : Sums(g, d, c0, n) /\ g[n] = f[n] + own
    <3>1. /\ Sums(f, cost, c0, n) /\ n \in Nat /\ i \in 1 .. n /\ c0 \in Nat
          /\ cost[i] = 0 /\ d[i] = own
          /\ \A k \in (1 .. n) \ {i} : d[k] = cost[k]
          /\ \A k \in 1 .. n : cost[k] \in Nat
      BY <1>3, <1>4, <1>5, <2>3, <2>4
    <3> HIDE DEF d, n
    <3>2. QED
      BY <2>2, <3>1, SumOfOneMore
  <2>6. QED
    BY <2>2, <2>3, <2>5
<1>9. CurveEndsAtLedger'
  BY DEF CurveEndsAtLedger
<1>10. QED
  BY <1>6, <1>7, <1>8, <1>9 DEF CostInv

\* A step of the deployment that solves no task.
LEMMA DeployRestCosts ==
    ASSUME MainInv, CostInv, phase = "deploy",
           \/ Reraise \/ Joined \/ Return
           \/ \E i \in Task : Take(i) \/ RolloutRaises(i),
           UNCHANGED <<phase, c0, curve, ledger, cost, uncounted>>
    PROVE  CostInv'
<1>1. length' = length /\ chunk' = chunk
  BY DEF Reraise, Joined, Return, Take, RolloutRaises
<1>2. \A i \in Task : serve'[i] # "solved" => serve[i] # "solved"
  <2>1. serve \in [Task -> {"waiting", "running", "solved", "raised"}]
    BY DEF MainInv, PhaseInv, Typed
  <2>2. \/ serve' = serve
        \/ \E i \in Task : /\ serve[i] \in {"waiting", "running"}
                           /\ \E s \in {"running", "raised"} : serve' = [serve EXCEPT ![i] = s]
    BY DEF Reraise, Joined, Return, Take, RolloutRaises
  <2>3. QED
    BY <2>1, <2>2
<1>3. main' = "frozen" => rows' = InOrder'
  <2>1. InOrder' = InOrder
    BY <1>1 DEF InOrder
  <2>2. CASE Return
    BY <2>1, <2>2 DEF Return
  <2>3. CASE ~Return
    <3>1. main' = "frozen" => main = "frozen" /\ rows' = rows
      BY <2>3 DEF Reraise, Joined, Take, RolloutRaises
    <3>2. QED
      BY <2>1, <3>1 DEF CostInv, Deploying
  <2>4. QED
    BY <2>2, <2>3
<1>4. Deploying'
  BY <1>1, <1>2, <1>3 DEF CostInv, Deploying
<1>5. QED
  BY <1>1, <1>4 DEF CostInv, CostTyped, NoCostYet, LedgerAddsUp, CurveEndsAtLedger

\* The rows are written.
LEMMA DeploymentOverCosts ==
    ASSUME MainInv, CostInv, DeploymentOver
    PROVE  CostInv'
<1>1. /\ phase = "deploy" /\ phase' \in {"ok", "failed"}
      /\ UNCHANGED <<ledger, c0, cost, uncounted>>
      /\ curve' = IF main = "frozen" THEN [k \in 1 .. Len(rows) |-> CostUpTo[k]] ELSE <<>>
  BY DEF DeploymentOver
<1>2. CostTyped' /\ NoCostYet' /\ LedgerAddsUp' /\ Deploying'
  BY <1>1 DEF CostInv, CostTyped, NoCostYet, LedgerAddsUp, Deploying, Early
<1>3. CurveEndsAtLedger'
  <2> SUFFICES ASSUME main = "frozen", curve' # <<>>, ~uncounted
               PROVE  curve'[Len(curve')] = ledger
    BY <1>1 DEF CurveEndsAtLedger
  <2>1. /\ rows = [k \in 1 .. length |-> k] /\ length \in 0 .. N /\ length \in Nat
        /\ c0 \in Nat /\ cost \in [Task -> Nat]
    BY <1>1, ParallelAssumption
       DEF CostInv, Deploying, InOrder, CostTyped, MainInv, PhaseInv, Typed
  <2>2. Len(rows) = length
    BY <2>1
  <2>3. AddsUp(CostUpTo, cost, c0, length)
    BY <2>1, CostIsSum
  <2>4. PICK f : Sums(f, cost, c0, length) /\ f[length] = ledger
    BY <1>1 DEF CostInv, LedgerAddsUp
  <2>5. CostUpTo[length] = ledger
    <3> DEFINE g == CostUpTo
               n == length
    <3> HIDE DEF g, n
    <3>1. /\ AddsUp(g, cost, c0, n)
          /\ Sums(f, cost, c0, n) /\ f[n] = ledger /\ n \in Nat
      BY <2>1, <2>3, <2>4 DEF g, n
    <3>2. \A k \in 0 .. n : g[k] = f[k]
      BY <3>1, SumIsUnique
    <3>3. n \in 0 .. n
      BY <3>1
    <3>4. g[n] = ledger
      BY <3>1, <3>2, <3>3
    <3>5. QED
      BY <3>4 DEF g, n
  <2>6. curve' = [k \in 1 .. length |-> CostUpTo[k]]
    BY <1>1, <2>2
  <2>7. Len(curve') = length /\ length \in 1 .. length
    BY <2>1, <2>6
  <2>8. QED
    BY <2>5, <2>6, <2>7
<1>4. QED
  BY <1>2, <1>3 DEF CostInv

\* A step of the run before its deployment: it may cost what no task reports.
LEMMA EarlyCosts ==
    ASSUME CostInv, phase \in Early, phase' # "deploy",
           ledger' \in {ledger, ledger + 1}, UNCHANGED <<c0, cost, curve>>
    PROVE  CostInv'
<1>1. cost = [i \in Task |-> 0] /\ curve = <<>>
  BY DEF CostInv, NoCostYet
<1>2. CostTyped'
  BY DEF CostInv, CostTyped
<1>3. NoCostYet'
  BY <1>1 DEF NoCostYet
<1>4. LedgerAddsUp' /\ Deploying' /\ CurveEndsAtLedger'
  BY <1>1 DEF LedgerAddsUp, Deploying, CurveEndsAtLedger
<1>5. QED
  BY <1>2, <1>3, <1>4 DEF CostInv

\* Learners of a failed run spend what no curve shows.
LEMMA LeftoverCosts ==
    ASSUME CostInv, Leftover
    PROVE  CostInv'
<1>1. /\ phase = "failed" /\ phase' = "failed" /\ ledger' \in {ledger, ledger + 1}
      /\ UNCHANGED <<c0, cost, curve>>
  BY DEF Leftover, Calls
<1>2. QED
  BY <1>1 DEF CostInv, CostTyped, NoCostYet, Early, LedgerAddsUp, Deploying, CurveEndsAtLedger

\* A step that none of this is about.
LEMMA OtherCosts ==
    ASSUME CostInv, UNCHANGED <<phaseVars, length, chunk, serve, main, rows>>
    PROVE  CostInv'
<1>1. UNCHANGED <<phase, ledger, c0, cost, uncounted, curve>>
  BY DEF phaseVars
<1>2. CostTyped' /\ NoCostYet' /\ LedgerAddsUp' /\ CurveEndsAtLedger'
  BY <1>1 DEF CostInv, CostTyped, NoCostYet, LedgerAddsUp, CurveEndsAtLedger
<1>3. Deploying'
  BY <1>1 DEF CostInv, Deploying, InOrder
<1>4. QED
  BY <1>2, <1>3 DEF CostInv

\* Every step keeps it.
LEMMA CostStep ==
    ASSUME MainInv, CostInv, [MainNext]_mainVars
    PROVE  CostInv'
<1>1. CASE SplitDone \/ \E g \in Class : Emit(g)
  <2>1. /\ phase = "split" /\ phase' # "deploy" /\ ledger' = ledger
        /\ UNCHANGED <<c0, cost, curve>>
    BY <1>1 DEF SplitDone, Emit, phaseVars
  <2>2. QED
    BY <2>1, EarlyCosts DEF Early
<1>2. CASE LearnSequentially \/ StartLearning \/ LearningStep \/ LearningOver
           \/ Synthesize \/ FinalConsolidation
  <2>1. /\ phase \in Early /\ phase' # "deploy" /\ ledger' \in {ledger, ledger + 1}
        /\ UNCHANGED <<c0, cost, curve>>
    BY <1>2 DEF LearnSequentially, StartLearning, LearningStep, LearningOver,
                Synthesize, FinalConsolidation, Calls, AfterLearning, Early
  <2>2. QED
    BY <2>1, EarlyCosts
<1>3. CASE StartDeployment
  BY <1>3, StartDeploymentCosts
<1>4. CASE DeployStep
  <2>1. phase = "deploy" /\ UNCHANGED <<phase, c0, curve>>
    BY <1>4 DEF DeployStep
  <2>2. CASE \E i \in Task : DeployTask(i)
    BY <2>1, <2>2, DeployTaskCosts
  <2>3. CASE /\ Reraise \/ Joined \/ Return \/ \E i \in Task : Take(i) \/ RolloutRaises(i)
             /\ UNCHANGED <<ledger, cost, uncounted>>
    BY <2>1, <2>3, DeployRestCosts
  <2>4. QED
    BY <1>4, <2>2, <2>3 DEF DeployStep
<1>5. CASE DeploymentOver
  BY <1>5, DeploymentOverCosts
<1>6. ASSUME NEW r \in 1 .. Runs, StartRun(r) PROVE CostInv'
  <2>1. CASE r = Focus
    <3>1. phase = "waiting"
      BY <1>6, <2>1 DEF StartRun, Waiting, MainInv, FocusInv
    <3>2. phase' = "split" /\ ledger' = ledger /\ UNCHANGED <<c0, cost, curve>>
      BY <1>6, <2>1 DEF StartRun
    <3>3. QED
      BY <3>1, <3>2, EarlyCosts DEF Early
  <2>2. CASE r # Focus
    BY <1>6, <2>2, OtherCosts DEF StartRun, phaseVars, vars
  <2>3. QED
    BY <2>1, <2>2
<1>7. CASE (\E r \in 1 .. Runs : EndRun(r)) \/ LaunchRaises \/ LaunchFails \/ Summarise
           \/ UNCHANGED mainVars
  BY <1>7, OtherCosts
     DEF EndRun, LaunchRaises, LaunchFails, Summarise, mainVars, vars
<1>8. QED
  BY <1>1, <1>2, <1>3, <1>4, <1>5, <1>6, <1>7, LeftoverCosts
     DEF MainNext, RunNext, LaunchNext, LaunchOver

\* deploy_parallel: with every call reported, the cost of the last row is what the
\* ledger says, for any number of tasks, of workers and of calls before, in whatever
\* order the pool solves them.
THEOREM CurveIsLedger == MainSpec => []CurveEndsAtLedger
<1>1. MainInit => CostInv
  <2> SUFFICES ASSUME MainInit PROVE CostInv
    OBVIOUS
  <2>1. /\ phase = "waiting" /\ ledger = 0 /\ c0 = 0 /\ cost = [i \in Task |-> 0]
        /\ curve = <<>>
    BY DEF MainInit
  <2>2. QED
    BY <2>1 DEF CostInv, CostTyped, NoCostYet, LedgerAddsUp, Deploying, CurveEndsAtLedger
<1>2. MainInv /\ CostInv /\ [MainNext]_mainVars => CostInv'
  BY CostStep
<1>3. CostInv => CurveEndsAtLedger
  BY DEF CostInv
<1>4. QED
  BY <1>1, <1>2, <1>3, MainAlways, PTL DEF MainSpec
=============================================================================
