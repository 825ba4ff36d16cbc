------------------------- MODULE ConsolidationProofs -------------------------
(***************************************************************************)
(* Proofs about Consolidation, for every number of tasks, every cadence,   *)
(* every limit of the digest, either mode, and an inducer and a gate that  *)
(* may fail.                                                               *)
(***************************************************************************)
EXTENDS Consolidation, FiniteSetTheorems, TLAPS

-----------------------------------------------------------------------------
\* The inductive invariant, by parts.

\* A consolidation has a task before it, no index is ahead of the tasks, and
\* whoever gates or is frozen was consolidated at its index.
MarksTrail ==
    /\ pc \in {"consolidate", "gate"} => idx > 0
    /\ idx <= length
    /\ consolidated \subseteq 1 .. idx
    /\ pc = "gate" => idx \in counted
    /\ pc = "frozen" => idx \in consolidated

\* The episodes are those of the tasks, in their order.
EpisodesRise ==
    /\ \A k \in DOMAIN episodes : episodes[k] <= idx
    /\ \A j, k \in DOMAIN episodes : j < k => episodes[j] < episodes[k]

\* What was shown is marked, so it is not shown again.
ShownIsMarked ==
    mode = "incremental" => \A a \in shown : a[1] \in watermark

\* No bullet is shown twice.
ShownOnce ==
    mode = "incremental" => \A a, b \in shown : a[1] = b[1] => a = b

\* The mark stands where the episodes were counted last: the counted ones are
\* of tasks up to there, the others of later ones, and no gate is later.
CountedUpTo(at) ==
    /\ \A k \in DOMAIN episodes : k <= epMark <=> episodes[k] <= at
    /\ \A g \in gatedOn : g[2] <= at

MarkIsCount ==
    mode = "incremental" =>
        \/ counted = {} /\ epMark = 0 /\ gatedOn = {}
        \/ \E at \in counted : CountedUpTo(at)

\* A gate runs on tasks that are done, and on one that gated before only where
\* nothing was recorded since; then every episode has just been counted.
Idle(from, to) ==
    \E at \in counted : from <= at /\ at < to /\ NothingRecorded(at, to)

GatesTrail ==
    /\ gateTasks \subseteq 1 .. idx
    /\ \A g \in gatedOn : g[1] <= g[2] /\ g[2] <= idx

GateIsFresh ==
    mode = "incremental" /\ pc = "gate" =>
        /\ CountedUpTo(idx)
        /\ \A g \in gatedOn : g[1] \in gateTasks => g[2] = idx \/ Idle(g[2], idx)

GatedFresh ==
    mode = "incremental" =>
        \A a, b \in gatedOn : a[1] = b[1] /\ a[2] < b[2] => Idle(a[2], b[2])

\* After the latest call the inducer has seen what is active at its index.
CapturedHere == idx \in consolidated /\ raised = "no" /\ DigestHoldsAll => Captured

\* A gate has something to gate.
Pending == pc = "gate" => cands # <<>>

\* What is still to be gated is no skill of the library the inducer was told.
StillNew ==
    mode = "incremental" /\ pc = "gate" => \A i \in DOMAIN cands : cands[i] \notin existing

IInv ==
    /\ TypeOK
    /\ MarksTrail
    /\ EpisodesRise
    /\ ShownIsMarked
    /\ ShownOnce
    /\ MarkIsCount
    /\ GatesTrail
    /\ GateIsFresh
    /\ GatedFresh
    /\ WatermarkShown
    /\ CapturedHere
    /\ Pending
    /\ StillNew
    /\ LibraryStays

\* The two halves of FreshEvidence.
LEMMA FreshHalves == FreshEvidence <=> ShownOnce /\ GatedFresh
BY DEF FreshEvidence, ShownOnce, GatedFresh, Idle

-----------------------------------------------------------------------------

LEMMA InitHolds == Init => IInv
<1> SUFFICES ASSUME Init PROVE IInv
  OBVIOUS
<1>1. TypeOK
  <2>1. cands \in Seq(Name) /\ skills \in [Name -> Status] /\ episodes \in Seq(1 .. TrainN)
    BY DEF Init, Status
  <2>2. mode \in {"incremental", "pooled"} /\ length \in 1 .. TrainN
    BY ConsolidationAssumption DEF Init
  <2>3. active \subseteq 1 .. bullets /\ watermark \subseteq 1 .. bullets /\ bullets \in Nat
    BY DEF Init
  <2>4. /\ closing \in BOOLEAN /\ existing = {}
        /\ shown = {} /\ gatedOn = {} /\ gateTasks = {} /\ consolidated = {} /\ counted = {}
    BY DEF Init
  <2>5. idx \in 0 .. TrainN /\ epMark \in 0 .. Len(episodes)
    BY ConsolidationAssumption DEF Init
  <2>6. pc = "task" /\ raised = "no" /\ readable \in BOOLEAN
    BY DEF Init
  <2>7. QED
    BY <2>1, <2>2, <2>3, <2>4, <2>5, <2>6 DEF TypeOK
<1>2. MarksTrail /\ EpisodesRise /\ ShownIsMarked /\ ShownOnce
  BY <1>1, ConsolidationAssumption
     DEF Init, TypeOK, MarksTrail, EpisodesRise, ShownIsMarked, ShownOnce
<1>3. MarkIsCount /\ GatesTrail /\ GateIsFresh /\ GatedFresh
  BY DEF Init, MarkIsCount, GatesTrail, GateIsFresh, GatedFresh
<1>4. WatermarkShown /\ CapturedHere /\ Pending /\ StillNew /\ LibraryStays
  BY DEF Init, WatermarkShown, CapturedHere, Pending, StillNew, LibraryStays
<1>5. QED
  BY <1>1, <1>2, <1>3, <1>4 DEF IInv

\* The elements of a sequence over a set are members of it.
LEMMA ElementsAreMembers ==
    ASSUME NEW S, NEW seq \in Seq(S)
    PROVE  \A k \in 1 .. Len(seq) : k \in Nat /\ seq[k] \in S
OBVIOUS

\* A task leaves the marks behind: the next index was not consolidated, and an
\* episode of it is new to everything that was counted or gated.
LEMMA ProcessKeeps ==
    ASSUME IInv, Process
    PROVE  IInv'
<1>1. PICK new \in 0 .. MaxNew, misleading \in SUBSET active :
        /\ bullets' = bullets + new
        /\ active' = (active \ misleading) \cup (bullets + 1 .. bullets + new)
  BY DEF Process
<1>2. /\ pc = "task" /\ idx < length /\ idx' = idx + 1
      /\ pc' \in {"consolidate", "task"}
      /\ UNCHANGED <<mode, length, closing, consolidated, watermark, epMark, existing, skills,
                     cands, gateTasks, shown, gatedOn, counted, raised, readable>>
  BY DEF Process, stream, marks, ghost
<1>3. new \in Nat /\ bullets \in Nat /\ bullets' \in Nat /\ bullets <= bullets'
  BY <1>1, ConsolidationAssumption DEF IInv, TypeOK
<1>4. active' \subseteq 1 .. bullets'
  BY <1>1, <1>3 DEF IInv, TypeOK
<1>5. /\ idx \in Nat /\ idx' \in 1 .. TrainN
      /\ episodes' = Append(episodes, idx') \/ episodes' = episodes
      /\ episodes \in Seq(1 .. TrainN)
  BY <1>2, ConsolidationAssumption DEF Process, Recorded, IInv, TypeOK
<1>6. /\ episodes' \in Seq(1 .. TrainN)
      /\ Len(episodes) <= Len(episodes') /\ Len(episodes) \in Nat /\ Len(episodes') \in Nat
      /\ \A k \in DOMAIN episodes : k \in DOMAIN episodes' /\ episodes'[k] = episodes[k]
      /\ \A k \in DOMAIN episodes' :
           k \in DOMAIN episodes \/ (k = Len(episodes) + 1 /\ episodes'[k] = idx')
  <2>1. Len(episodes) \in Nat /\ DOMAIN episodes = 1 .. Len(episodes)
    BY <1>5
  <2>2. CASE episodes' = episodes
    BY <1>5, <2>1, <2>2
  <2>3. CASE episodes' = Append(episodes, idx')
    <3>1. /\ episodes' \in Seq(1 .. TrainN) /\ Len(episodes') = Len(episodes) + 1
          /\ episodes'[Len(episodes) + 1] = idx'
          /\ \A k \in 1 .. Len(episodes) : episodes'[k] = episodes[k]
      BY <1>5, <2>3
    <3>2. DOMAIN episodes' = 1 .. Len(episodes) + 1
      BY <3>1
    <3>3. QED
      BY <2>1, <3>1, <3>2
  <2>4. QED
    BY <1>5, <2>2, <2>3
<1>7. TypeOK'
  <2>1. 1 .. bullets \subseteq 1 .. bullets'
    BY <1>3
  <2>2. watermark' \subseteq 1 .. bullets' /\ shown' \subseteq (1 .. bullets') \X (1 .. TrainN)
    BY <1>2, <2>1 DEF IInv, TypeOK
  <2>3. epMark' \in 0 .. Len(episodes')
    BY <1>2, <1>6 DEF IInv, TypeOK
  <2>4. idx' \in 0 .. TrainN
    BY <1>5
  <2>5. QED
    BY <1>2, <1>3, <1>4, <1>6, <2>2, <2>3, <2>4 DEF IInv, TypeOK
<1>8. MarksTrail' /\ idx' \notin consolidated'
  BY <1>2, <1>5, ConsolidationAssumption DEF IInv, TypeOK, MarksTrail
<1>9. EpisodesRise'
  <2>1. \A k \in DOMAIN episodes : k \in Nat /\ k <= Len(episodes) /\ episodes[k] \in Nat
    <3>1. DOMAIN episodes = 1 .. Len(episodes)
      BY <1>5
    <3>2. \A k \in 1 .. Len(episodes) : episodes[k] \in 1 .. TrainN
      BY <1>5, ElementsAreMembers
    <3>3. QED
      BY <1>6, <3>1, <3>2, ConsolidationAssumption
  <2>2. \A k \in DOMAIN episodes' : episodes'[k] <= idx'
    BY <1>2, <1>5, <1>6, <2>1 DEF IInv, EpisodesRise
  <2>3. ASSUME NEW j \in DOMAIN episodes', NEW k \in DOMAIN episodes', j < k
        PROVE  episodes'[j] < episodes'[k]
    <3>1. j \in DOMAIN episodes
      BY <1>6, <2>1, <2>3
    <3>2. CASE k \in DOMAIN episodes
      BY <1>6, <2>3, <3>1, <3>2 DEF IInv, EpisodesRise
    <3>3. CASE episodes'[k] = idx'
      BY <1>2, <1>5, <1>6, <2>1, <3>1, <3>3 DEF IInv, EpisodesRise
    <3>4. QED
      BY <1>6, <3>2, <3>3
  <2>4. QED
    BY <2>2, <2>3 DEF EpisodesRise
<1>10. counted \subseteq 1 .. idx
  BY DEF IInv, TypeOK, MarksTrail
<1>11. MarkIsCount'
  <2>1. SUFFICES ASSUME mode = "incremental", NEW at \in counted, CountedUpTo(at)
                 PROVE  CountedUpTo(at)'
    BY <1>2 DEF IInv, MarkIsCount
  <2>2. at \in Nat /\ at <= idx /\ epMark \in Nat /\ epMark <= Len(episodes)
    BY <1>5, <1>10 DEF IInv, TypeOK
  <2>3. ASSUME NEW k \in DOMAIN episodes' PROVE k <= epMark <=> episodes'[k] <= at
    <3>1. CASE k \in DOMAIN episodes
      BY <1>6, <2>1, <3>1 DEF CountedUpTo
    <3>2. CASE k = Len(episodes) + 1 /\ episodes'[k] = idx'
      BY <1>2, <1>5, <1>6, <2>2, <3>2
    <3>3. QED
      BY <1>6, <3>1, <3>2
  <2>4. QED
    BY <1>2, <2>1, <2>3 DEF CountedUpTo
<1>12. GatesTrail' /\ GateIsFresh'
  <2>1. 1 .. idx \subseteq 1 .. idx' /\ \A g \in gatedOn : g[2] \in Nat
    BY <1>2, <1>5 DEF IInv, TypeOK
  <2>2. GatesTrail'
    BY <1>2, <1>5, <2>1 DEF IInv, GatesTrail
  <2>3. QED
    BY <1>2, <2>2 DEF GateIsFresh
<1>13. GatedFresh'
  <2>1. SUFFICES ASSUME mode = "incremental", NEW a \in gatedOn, NEW b \in gatedOn,
                        a[1] = b[1], a[2] < b[2]
                 PROVE  Idle(a[2], b[2])'
    BY <1>2 DEF GatedFresh
  <2>2. PICK at \in counted : a[2] <= at /\ at < b[2] /\ NothingRecorded(at, b[2])
    BY <2>1 DEF IInv, GatedFresh, Idle
  <2>3. b[2] \in Nat /\ b[2] <= idx
    BY DEF IInv, TypeOK, GatesTrail
  <2>4. AllTasks' \subseteq AllTasks \cup {idx'}
    BY <1>5, <1>6 DEF AllTasks
  <2>5. NothingRecorded(at, b[2])'
    BY <1>2, <1>5, <2>1, <2>2, <2>3, <2>4 DEF NothingRecorded
  <2>6. QED
    BY <1>2, <2>2, <2>5 DEF Idle
<1>14. DigestHoldsAll' => DigestHoldsAll
  BY <1>3, ConsolidationAssumption DEF DigestHoldsAll
<1>15. ShownIsMarked' /\ ShownOnce' /\ WatermarkShown' /\ CapturedHere'
  BY <1>2, <1>8, <1>14 DEF IInv, ShownIsMarked, ShownOnce, WatermarkShown, CapturedHere
<1>16. Pending' /\ StillNew' /\ LibraryStays'
  BY <1>2 DEF IInv, Pending, StillNew, LibraryStays
<1>17. QED
  BY <1>7, <1>8, <1>9, <1>11, <1>12, <1>13, <1>15, <1>16 DEF IInv

\* The steps that neither show nor gate anything.
LEMMA QuietStepKeeps ==
    ASSUME IInv, Close \/ SkipRepeat \/ InduceRaises
    PROVE  IInv'
<1>1. /\ pc \in {"task", "consolidate"}
      /\ UNCHANGED <<mode, length, idx, episodes, bullets, active, watermark, epMark, existing,
                     skills, cands, gateTasks, shown, gatedOn, counted, readable>>
  BY DEF Close, SkipRepeat, InduceRaises, memory, marks, stream, ghost
<1>2. /\ closing' \in BOOLEAN
      /\ pc' \in {"consolidate", "task", "frozen"}
      /\ pc' = "consolidate" => pc = "task" /\ idx = length
      /\ consolidated' \in {consolidated, consolidated \cup {idx}}
      /\ pc' = "frozen" => idx \in consolidated'
      /\ pc = "consolidate" => idx \in consolidated'
  BY DEF Close, SkipRepeat, InduceRaises, Return, memory, marks, stream, ghost, IInv, TypeOK
<1>3. consolidated' # consolidated => raised' \in {"periodic", "final"} /\ pc = "consolidate"
  BY DEF Close, SkipRepeat, InduceRaises, marks
<1>4. raised' \in {"no", "periodic", "final"} /\ (raised' # raised => raised' # "no")
  BY DEF Close, SkipRepeat, InduceRaises, ghost, IInv, TypeOK
<1>5. TypeOK'
  BY <1>1, <1>2, <1>4, ConsolidationAssumption DEF IInv, TypeOK
<1>6. MarksTrail'
  BY <1>1, <1>2, <1>3, ConsolidationAssumption DEF IInv, TypeOK, MarksTrail
<1>7. EpisodesRise' /\ ShownIsMarked' /\ ShownOnce' /\ WatermarkShown' /\ LibraryStays'
  BY <1>1
     DEF IInv, EpisodesRise, ShownIsMarked, ShownOnce, WatermarkShown, LibraryStays,
         DigestHoldsAll
<1>8. MarkIsCount' /\ GatesTrail' /\ GateIsFresh' /\ GatedFresh'
  BY <1>1, <1>2
     DEF IInv, MarkIsCount, CountedUpTo, GatesTrail, GateIsFresh, GatedFresh, Idle,
         NothingRecorded, AllTasks
<1>9. CapturedHere'
  BY <1>1, <1>3, <1>4 DEF IInv, CapturedHere, Captured, DigestHoldsAll
<1>10. Pending' /\ StillNew'
  BY <1>2 DEF Pending, StillNew
<1>11. QED
  BY <1>5, <1>6, <1>7, <1>8, <1>9, <1>10 DEF IInv

-----------------------------------------------------------------------------
\* What a call of the inducer shows and brings back.

\* Memory that fits is shown whole.
LEMMA DigestIsWhole ==
    ASSUME TypeOK, DigestHoldsAll, NEW digest \in Digests(ToShow)
    PROVE  digest = ToShow
<1>1. IsFiniteSet(1 .. bullets) /\ Cardinality(1 .. bullets) = bullets
  BY FS_Interval DEF TypeOK
<1>2. ToShow \subseteq 1 .. bullets
  BY DEF ToShow, TypeOK
<1>3. IsFiniteSet(ToShow) /\ Cardinality(ToShow) <= bullets
  BY <1>1, <1>2, FS_Subset
<1>4. Cardinality(ToShow) \in Nat
  BY <1>3, FS_CardinalityType
<1>5. Cardinality(digest) = Cardinality(ToShow) /\ digest \subseteq ToShow
  BY <1>3, <1>4, ConsolidationAssumption DEF Digests, DigestHoldsAll, TypeOK
<1>6. QED
  BY <1>3, <1>5, FS_Subset

\* The candidates are names of the answer that are not in the library.
LEMMA ProposedIsFromAnswer ==
    ASSUME TypeOK, NEW answer \in Answers, NEW digest, NEW library,
           NEW list \in Proposed(answer, digest, library)
    PROVE  /\ list \in Seq(Name)
           /\ mode = "incremental" => \A i \in DOMAIN list : list[i] \notin library
<1>1. answer \in Seq(Name)
  BY ConsolidationAssumption
<1>2. CASE list = <<>>
  BY <1>2
<1>3. CASE list = answer /\ mode # "incremental"
  BY <1>1, <1>3
<1>4. CASE list \in NewNames(answer, library)
  <2> DEFINE new == {i \in DOMAIN answer : answer[i] \notin library}
  <2>1. PICK f \in [1 .. Cardinality(new) -> new] : list = [k \in DOMAIN f |-> answer[f[k]]]
    BY <1>4 DEF NewNames
  <2>2. \A i \in new : i \in DOMAIN answer /\ answer[i] \notin library
    OBVIOUS
  <2>3. Cardinality(new) \in Nat
    <3>1. new \subseteq 1 .. Len(answer) /\ Len(answer) \in Nat
      BY <1>1
    <3>2. IsFiniteSet(1 .. Len(answer))
      BY <3>1, FS_Interval
    <3>3. IsFiniteSet(new)
      BY <3>1, <3>2, FS_Subset
    <3>4. QED
      BY <3>3, FS_CardinalityType
  <2> HIDE DEF new
  <2>4. DOMAIN f = 1 .. Cardinality(new) /\ DOMAIN list = DOMAIN f
    BY <2>1
  <2>5. list \in Seq(Name)
    <3>1. \A k \in 1 .. Cardinality(new) : answer[f[k]] \in Name
      BY <1>1, <2>1, <2>2
    <3>2. list \in [1 .. Cardinality(new) -> Name]
      BY <2>1, <2>4, <3>1
    <3>3. QED
      BY <2>3, <3>2
  <2>6. \A i \in DOMAIN list : list[i] \notin library
    BY <2>1, <2>2, <2>4
  <2>7. QED
    BY <2>5, <2>6
<1>5. QED
  BY <1>2, <1>3, <1>4 DEF Proposed

\* A sample is taken from the tasks it samples.
LEMMA SamplesAreTasks ==
    ASSUME NEW tasks, NEW sample \in Samples(tasks)
    PROVE  sample \subseteq tasks
BY DEF Samples

-----------------------------------------------------------------------------
\* A call the inducer answers shows only what is not marked, and marks it.
LEMMA ShowingKeeps ==
    ASSUME IInv, Induce \/ EpisodesRaise
    PROVE  /\ shown' \subseteq (1 .. bullets) \X (1 .. TrainN)
           /\ ShownIsMarked' /\ ShownOnce' /\ WatermarkShown' /\ CapturedHere'
<1>1. PICK digest \in Digests(ToShow) : shown' = shown \cup (digest \X {idx})
  BY DEF Induce, EpisodesRaise
<1>2. UNCHANGED <<mode, bullets, active>> /\ idx' = idx
  BY DEF Induce, EpisodesRaise, memory, stream
<1>3. digest \subseteq ToShow /\ ToShow \subseteq active
  BY DEF Digests, ToShow
<1>4. idx \in 1 .. TrainN
  BY ConsolidationAssumption DEF Induce, EpisodesRaise, IInv, TypeOK, MarksTrail
<1>5. IF mode = "incremental" THEN watermark' = watermark \cup active
      ELSE watermark' = watermark
  BY DEF Induce, EpisodesRaise
<1>6. shown' \subseteq (1 .. bullets) \X (1 .. TrainN)
  BY <1>1, <1>3, <1>4 DEF IInv, TypeOK
<1>7. ShownIsMarked'
  BY <1>1, <1>2, <1>3, <1>5 DEF IInv, ShownIsMarked
<1>8. ShownOnce'
  <2>1. SUFFICES ASSUME mode = "incremental",
                        NEW a \in shown', NEW b \in shown', a[1] = b[1]
                 PROVE  a = b
    BY <1>2 DEF ShownOnce
  <2>2. \A c \in shown : c[1] \notin digest
    BY <1>3, <2>1 DEF IInv, ShownIsMarked, ToShow
  <2>3. \A c \in digest \X {idx} : c[1] \in digest /\ c = <<c[1], idx>>
    OBVIOUS
  <2>4. CASE a \in shown /\ b \in shown
    BY <2>1, <2>4 DEF IInv, ShownOnce
  <2>5. CASE a \in digest \X {idx} /\ b \in digest \X {idx}
    BY <2>1, <2>3, <2>5
  <2>6. QED
    BY <1>1, <2>1, <2>2, <2>3, <2>4, <2>5
<1>9. DigestHoldsAll => \A id \in ToShow : <<id, idx>> \in shown'
  BY <1>1, DigestIsWhole DEF IInv
<1>10. WatermarkShown'
  <2>1. SUFFICES ASSUME DigestHoldsAll, NEW id \in watermark'
                 PROVE  \E at \in 1 .. TrainN : <<id, at>> \in shown'
    BY <1>2 DEF WatermarkShown, DigestHoldsAll
  <2>2. CASE id \in watermark
    BY <1>1, <2>1, <2>2 DEF IInv, WatermarkShown
  <2>3. CASE id \notin watermark
    BY <1>4, <1>5, <1>9, <2>1, <2>3 DEF ToShow
  <2>4. QED
    BY <2>2, <2>3
<1>11. CapturedHere'
  <2>1. SUFFICES ASSUME DigestHoldsAll, NEW id \in active
                 PROVE  \E at \in 1 .. TrainN : <<id, at>> \in shown'
    BY <1>2 DEF CapturedHere, Captured, DigestHoldsAll
  <2>2. CASE id \in ToShow
    BY <1>4, <1>9, <2>1, <2>2
  <2>3. CASE id \notin ToShow
    BY <1>1, <2>1, <2>3 DEF IInv, WatermarkShown, ToShow
  <2>4. QED
    BY <2>2, <2>3
<1>12. QED
  BY <1>6, <1>7, <1>8, <1>10, <1>11

\* Counting the episodes once more takes nothing from the gates there were.
LEMMA CountingKeeps ==
    ASSUME IInv,
           UNCHANGED <<mode, idx, episodes, gatedOn>>,
           counted \subseteq counted'
    PROVE  EpisodesRise' /\ GatedFresh'
<1>1. EpisodesRise'
  BY DEF IInv, EpisodesRise
<1>2. \A from, to : Idle(from, to) => Idle(from, to)'
  BY DEF Idle, NothingRecorded, AllTasks
<1>3. GatedFresh'
  BY <1>2 DEF IInv, GatedFresh
<1>4. QED
  BY <1>1, <1>3

\* An induction counts the episodes and gates on those it had not counted.
LEMMA InduceKeeps ==
    ASSUME IInv, Induce
    PROVE  IInv'
<1>a. PICK digest \in Digests(ToShow), answer \in Answers, library \in Told :
        /\ \E proposed \in Proposed(answer, digest, library) : ToGate(proposed)
        /\ IF mode = "incremental"
           THEN watermark' = watermark \cup active /\ epMark' = Len(episodes) /\ existing' = library
           ELSE UNCHANGED <<watermark, epMark, existing>>
  BY DEF Induce
<1>1. PICK proposed \in Proposed(answer, digest, library) : ToGate(proposed)
  BY <1>a
<1>2. /\ pc = "consolidate" /\ idx \notin consolidated
      /\ consolidated' = consolidated \cup {idx}
      /\ counted' = counted \cup {idx}
      /\ raised' = "no" /\ readable' = TRUE
      /\ UNCHANGED <<mode, length, closing, idx, episodes, bullets, active, skills, gatedOn>>
      /\ pc' \in {"gate", "task", "frozen"}
  BY <1>1 DEF Induce, ToGate, Return, memory, stream
<1>3. idx \in 1 .. TrainN /\ idx \in Nat /\ episodes \in Seq(1 .. TrainN)
  BY <1>2, ConsolidationAssumption DEF IInv, TypeOK, MarksTrail
<1>4. /\ Len(episodes) \in Nat /\ epMark \in Nat /\ epMark <= Len(episodes)
      /\ DOMAIN episodes = 1 .. Len(episodes)
      /\ \A k \in DOMAIN episodes : k \in Nat /\ episodes[k] \in 1 .. TrainN /\ episodes[k] <= idx
  <2>1. Len(episodes) \in Nat /\ DOMAIN episodes = 1 .. Len(episodes)
    BY <1>3
  <2>2. epMark \in 0 .. Len(episodes) /\ \A k \in DOMAIN episodes : episodes[k] <= idx
    BY DEF IInv, TypeOK, EpisodesRise
  <2>3. \A k \in 1 .. Len(episodes) : k \in Nat /\ episodes[k] \in 1 .. TrainN
    BY <1>3, ElementsAreMembers
  <2>4. epMark \in Nat /\ epMark <= Len(episodes)
    BY <2>1, <2>2
  <2>5. QED
    BY <2>1, <2>2, <2>3, <2>4
<1>5. gateTasks' \subseteq EpisodeTasks
  BY <1>1, SamplesAreTasks DEF ToGate
<1>6. \A k \in AllTasks : k \in 1 .. TrainN /\ k <= idx
  BY <1>4 DEF AllTasks
<1>7. EpisodeTasks \subseteq AllTasks
  BY <1>4 DEF EpisodeTasks, AllTasks, NewTasks
<1>8. /\ library \subseteq Live /\ Live \subseteq Name
      /\ IF mode = "incremental"
         THEN watermark' = watermark \cup active /\ epMark' = Len(episodes) /\ existing' = library
         ELSE UNCHANGED <<watermark, epMark, existing>>
  BY <1>a DEF Told, Live
<1>9. cands' \in Seq(Name) /\ (mode = "incremental" =>
                                 \A i \in DOMAIN cands' : cands'[i] \notin library)
  <2>1. cands' = <<>> \/ cands' = proposed
    BY <1>1 DEF ToGate
  <2>2. CASE cands' = proposed
    BY <2>2, ProposedIsFromAnswer DEF IInv
  <2>3. CASE cands' = <<>>
    BY <2>3
  <2>4. QED
    BY <2>1, <2>2, <2>3
<1>10. TypeOK'
  <2>1. gateTasks' \subseteq 1 .. TrainN
    BY <1>5, <1>6, <1>7
  <2>2. watermark' \subseteq 1 .. bullets /\ epMark' \in 0 .. Len(episodes)
    <3>1. active \subseteq 1 .. bullets /\ watermark \subseteq 1 .. bullets
      BY DEF IInv, TypeOK
    <3>2. epMark \in 0 .. Len(episodes) /\ Len(episodes) \in 0 .. Len(episodes)
      BY <1>4
    <3>3. CASE mode = "incremental"
      BY <1>8, <3>1, <3>2, <3>3
    <3>4. CASE mode # "incremental"
      BY <1>8, <3>1, <3>2, <3>4
    <3>5. QED
      BY <3>3, <3>4
  <2>3. existing' \subseteq Name
    BY <1>8 DEF IInv, TypeOK
  <2>4. consolidated' \subseteq 0 .. TrainN /\ counted' \subseteq consolidated'
    BY <1>2 DEF IInv, TypeOK
  <2>5. shown' \subseteq (1 .. bullets) \X (1 .. TrainN)
    BY ShowingKeeps
  <2>6. QED
    BY <1>2, <1>9, <2>1, <2>2, <2>3, <2>4, <2>5 DEF IInv, TypeOK
<1>11. MarksTrail'
  BY <1>2, <1>3 DEF IInv, MarksTrail
<1>12. MarkIsCount'
  <2>1. SUFFICES ASSUME mode = "incremental" PROVE CountedUpTo(idx)'
    BY <1>2 DEF MarkIsCount
  <2>2. \A k \in DOMAIN episodes : k <= Len(episodes) /\ episodes[k] <= idx
    BY <1>4
  <2>3. \A g \in gatedOn : g[2] <= idx
    BY DEF IInv, GatesTrail
  <2>4. QED
    BY <1>2, <1>8, <2>1, <2>2, <2>3 DEF CountedUpTo
<1>13. GatesTrail'
  BY <1>2, <1>5, <1>6, <1>7 DEF IInv, GatesTrail
<1>14. GateIsFresh'
  <2>0. mode = "incremental" => CountedUpTo(idx)'
    BY <1>2, <1>4, <1>8 DEF CountedUpTo, IInv, GatesTrail
  <2>1. SUFFICES ASSUME mode = "incremental", NEW g \in gatedOn, g[1] \in gateTasks'
                 PROVE  Idle(g[2], idx)'
    BY <1>2, <2>0 DEF GateIsFresh
  <2>2. PICK at \in counted : CountedUpTo(at)
    BY <2>1 DEF IInv, MarkIsCount
  <2>3. /\ at \in Nat /\ at < idx /\ g[2] <= at /\ g[1] <= g[2]
        /\ g[1] \in Nat /\ g[2] \in Nat
    BY <1>2, <2>2, <1>3 DEF IInv, TypeOK, MarksTrail, GatesTrail, CountedUpTo
  <2>4. NewTasks = {}
    <3>1. SUFFICES ASSUME NewTasks # {} PROVE FALSE
      OBVIOUS
    <3>2. g[1] \in NewTasks
      BY <1>5, <2>1, <3>1 DEF EpisodeTasks
    <3>3. PICK k \in epMark + 1 .. Len(episodes) : g[1] = episodes[k]
      BY <3>2 DEF NewTasks
    <3>4. k \in DOMAIN episodes /\ ~(k <= epMark)
      BY <1>4
    <3>5. ~(g[1] <= at)
      BY <2>2, <3>3, <3>4 DEF CountedUpTo
    <3>6. QED
      BY <2>3, <3>5
  <2>5. ASSUME NEW k \in DOMAIN episodes PROVE episodes[k] <= at
    <3>1. k \in 1 .. Len(episodes) /\ k \notin epMark + 1 .. Len(episodes)
      BY <1>4, <2>4 DEF NewTasks
    <3>2. k <= epMark
      BY <1>4, <3>1
    <3>3. QED
      BY <2>2, <3>2 DEF CountedUpTo
  <2>6. NothingRecorded(at, idx)'
    BY <1>2, <1>4, <2>5 DEF NothingRecorded, AllTasks
  <2>7. QED
    BY <1>2, <2>3, <2>6 DEF Idle
<1>15. EpisodesRise' /\ GatedFresh'
  BY <1>2, CountingKeeps
<1>16. Pending'
  BY <1>1 DEF ToGate, Return, Pending, IInv, TypeOK
<1>17. StillNew' /\ LibraryStays'
  <2>1. SUFFICES ASSUME mode = "incremental"
        PROVE  /\ \A i \in DOMAIN cands' : cands'[i] \notin existing'
               /\ \A n \in existing' : skills[n] = "active"
    BY <1>2 DEF StillNew, LibraryStays
  <2>2. QED
    BY <1>8, <1>9, <2>1 DEF Live
<1>18. QED
  BY <1>10, <1>11, <1>12, <1>13, <1>14, <1>15, <1>16, <1>17, ShowingKeeps DEF IInv

\* The call that raises after the inducer's answer counts no episode and gates
\* nothing.
LEMMA EpisodesRaiseKeeps ==
    ASSUME IInv, EpisodesRaise
    PROVE  IInv'
<1>1. /\ pc = "consolidate" /\ pc' \in {"task", "frozen"}
      /\ consolidated' = consolidated \cup {idx}
      /\ raised' = "no" /\ readable' = TRUE
      /\ UNCHANGED <<mode, length, closing, idx, episodes, bullets, active, skills, epMark,
                     cands, gateTasks, gatedOn, counted>>
  BY DEF EpisodesRaise, Return, memory, stream
<1>2. IF mode = "incremental"
      THEN watermark' = watermark \cup active /\ existing' \subseteq Live
      ELSE UNCHANGED <<watermark, existing>>
  BY DEF EpisodesRaise, Told
<1>3. idx \in 1 .. TrainN
  BY <1>1, ConsolidationAssumption DEF IInv, TypeOK, MarksTrail
<1>4. TypeOK'
  <2>1. watermark' \subseteq 1 .. bullets /\ existing' \subseteq Name
    BY <1>2 DEF Live, IInv, TypeOK
  <2>2. shown' \subseteq (1 .. bullets) \X (1 .. TrainN)
    BY ShowingKeeps
  <2>3. consolidated' \subseteq 0 .. TrainN /\ counted' \subseteq consolidated'
    BY <1>1 DEF IInv, TypeOK
  <2>4. QED
    BY <1>1, <2>1, <2>2, <2>3 DEF IInv, TypeOK
<1>5. MarksTrail'
  BY <1>1, <1>3 DEF IInv, MarksTrail
<1>6. EpisodesRise' /\ GatedFresh'
  BY <1>1, CountingKeeps
<1>7. MarkIsCount' /\ GatesTrail' /\ GateIsFresh'
  BY <1>1 DEF IInv, MarkIsCount, CountedUpTo, GatesTrail, GateIsFresh
<1>8. Pending' /\ StillNew' /\ LibraryStays'
  BY <1>1, <1>2 DEF IInv, Pending, StillNew, LibraryStays, Live
<1>9. QED
  BY <1>4, <1>5, <1>6, <1>7, <1>8, ShowingKeeps DEF IInv

\* A gate adds pairs of its own tasks and its own index.
LEMMA GateKeeps ==
    ASSUME IInv, GateCandidate \/ GateRaises
    PROVE  IInv'
<1>1. /\ pc = "gate"
      /\ gatedOn' = gatedOn \cup (gateTasks \X {idx})
      /\ gateTasks' = gateTasks \/ gateTasks' = {}
      /\ pc' \in {"gate", "task", "frozen"}
      /\ UNCHANGED <<mode, length, closing, idx, episodes, bullets, active, consolidated,
                     watermark, epMark, existing, shown, counted, raised>>
      /\ readable' \in BOOLEAN
  BY DEF GateCandidate, GateRaises, Return, memory, marks, stream, IInv, TypeOK
<1>2. cands' \in Seq(Name)
  <2>1. Tail(cands) \in Seq(Name) /\ <<>> \in Seq(Name)
    BY <1>1 DEF IInv, TypeOK, Pending
  <2>2. QED
    BY <2>1 DEF GateCandidate, GateRaises
<1>3. skills' \in [Name -> Status]
  <2>1. Head(cands) \in Name
    BY <1>1 DEF IInv, TypeOK, Pending
  <2>2. \A o : Verdict(o) \in Status
    BY DEF Verdict, Status
  <2>3. CASE GateCandidate
    <3>1. PICK failed \in IF MayFail THEN BOOLEAN ELSE {FALSE},
               verdict \in {Verdict(o) : o \in Outcomes} :
            skills' = [n \in Name |-> IF n = Head(cands) THEN verdict
                                     ELSE IF failed THEN "none" ELSE skills[n]]
      BY <2>3 DEF GateCandidate
    <3>2. \A n \in Name : skills[n] \in Status /\ "none" \in Status /\ verdict \in Status
      BY <2>2, <3>1 DEF IInv, TypeOK, Status
    <3>3. \A n \in Name : (IF n = Head(cands) THEN verdict
                           ELSE IF failed THEN "none" ELSE skills[n]) \in Status
      BY <3>2
    <3>4. QED
      BY <3>1, <3>3
  <2>4. CASE GateRaises
    BY <2>4 DEF GateRaises, IInv, TypeOK
  <2>5. QED
    BY <2>3, <2>4
<1>4. /\ gateTasks \subseteq 1 .. TrainN /\ idx \in 1 .. TrainN /\ idx \in counted
      /\ \A g \in gateTasks \X {idx} :
           g[1] \in gateTasks /\ g[2] = idx /\ g = <<g[1], idx>> /\ g[1] \in 1 .. idx
  <2>1. gateTasks \subseteq 1 .. TrainN /\ idx \in 1 .. TrainN /\ idx \in counted
    BY <1>1, ConsolidationAssumption DEF IInv, TypeOK, MarksTrail
  <2>2. gateTasks \subseteq 1 .. idx
    BY DEF IInv, GatesTrail
  <2>3. \A g \in gateTasks \X {idx} : g[1] \in gateTasks /\ g[2] = idx /\ g = <<g[1], idx>>
    OBVIOUS
  <2>4. \A g \in gateTasks \X {idx} : g[1] \in 1 .. idx
    BY <2>2, <2>3
  <2>5. QED
    BY <2>1, <2>3, <2>4
<1>5. TypeOK'
  <2>1. gatedOn' \subseteq (1 .. TrainN) \X (1 .. TrainN)
    BY <1>1, <1>4 DEF IInv, TypeOK
  <2>2. gateTasks' \subseteq 1 .. TrainN
    BY <1>1, <1>4
  <2>3. QED
    BY <1>1, <1>2, <1>3, <2>1, <2>2 DEF IInv, TypeOK
<1>6. MarksTrail'
  BY <1>1, <1>4 DEF IInv, TypeOK, MarksTrail
<1>7. EpisodesRise' /\ ShownIsMarked' /\ ShownOnce' /\ WatermarkShown' /\ CapturedHere'
  BY <1>1 DEF IInv, EpisodesRise, ShownIsMarked, ShownOnce, WatermarkShown, CapturedHere,
              Captured, DigestHoldsAll
<1>8. GatesTrail'
  <2>1. \A g \in gateTasks \X {idx} : g[1] <= g[2] /\ g[2] <= idx
    BY <1>4
  <2>2. gateTasks' \subseteq 1 .. idx
    BY <1>1 DEF IInv, GatesTrail
  <2>3. QED
    BY <1>1, <2>1, <2>2 DEF IInv, GatesTrail
<1>9. mode = "incremental" => CountedUpTo(idx)'
  BY <1>1, <1>4 DEF IInv, GateIsFresh, CountedUpTo
<1>10. MarkIsCount'
  BY <1>1, <1>4, <1>9 DEF MarkIsCount, CountedUpTo
<1>11. \A from, to : Idle(from, to) <=> Idle(from, to)'
  BY <1>1 DEF Idle, NothingRecorded, AllTasks
<1>12. \A g \in gatedOn' : g \in gatedOn \/ (g[1] \in gateTasks /\ g[2] = idx)
  BY <1>1, <1>4
<1>13. GateIsFresh'
  <2>1. SUFFICES ASSUME mode = "incremental", NEW g \in gatedOn', g[1] \in gateTasks'
                 PROVE  g[2] = idx \/ Idle(g[2], idx)
    BY <1>1, <1>9, <1>11 DEF GateIsFresh
  <2>2. g[1] \in gateTasks
    BY <1>1, <2>1
  <2>3. QED
    BY <1>1, <1>12, <2>1, <2>2 DEF IInv, GateIsFresh
<1>14. GatedFresh'
  <2>1. SUFFICES ASSUME mode = "incremental", NEW a \in gatedOn', NEW b \in gatedOn',
                        a[1] = b[1], a[2] < b[2]
                 PROVE  Idle(a[2], b[2])
    BY <1>1, <1>11 DEF GatedFresh
  <2>2. \A g \in gatedOn' : g[2] \in Nat /\ g[2] <= idx
    BY <1>4, <1>12 DEF IInv, TypeOK, GatesTrail
  <2>3. a \in gatedOn /\ a[2] # idx
    BY <1>4, <1>12, <2>1, <2>2
  <2>4. CASE b \in gatedOn
    BY <2>1, <2>3, <2>4 DEF IInv, GatedFresh
  <2>5. CASE b[1] \in gateTasks /\ b[2] = idx
    BY <1>1, <2>1, <2>3, <2>5 DEF IInv, GateIsFresh
  <2>6. QED
    BY <1>12, <2>4, <2>5
<1>15. Pending'
  BY DEF GateCandidate, GateRaises, Return, Pending
<1>16. StillNew' /\ LibraryStays'
  <2>1. SUFFICES ASSUME mode = "incremental"
        PROVE  /\ pc' = "gate" => \A i \in DOMAIN cands' : cands'[i] \notin existing
               /\ readable' => \A n \in existing : skills'[n] = "active"
    BY <1>1 DEF StillNew, LibraryStays
  <2>2. /\ cands \in Seq(Name) /\ cands # <<>> /\ skills \in [Name -> Status]
        /\ existing \subseteq Name
        /\ \A i \in DOMAIN cands : cands[i] \notin existing
        /\ readable => \A n \in existing : skills[n] = "active"
    BY <1>1, <2>1 DEF IInv, TypeOK, Pending, StillNew, LibraryStays
  <2>3. CASE GateRaises
    BY <2>2, <2>3 DEF GateRaises, Return
  <2>4. CASE GateCandidate
    <3>1. readable' => readable /\ \A n \in Name : n # Head(cands) => skills'[n] = skills[n]
      BY <2>2, <2>4 DEF GateCandidate
    <3>2. /\ \A i \in DOMAIN Tail(cands) :
               i + 1 \in DOMAIN cands /\ Tail(cands)[i] = cands[i + 1]
          /\ 1 \in DOMAIN cands /\ Head(cands) = cands[1]
      BY <2>2
    <3>3. cands' = Tail(cands) /\ Head(cands) \notin existing
      BY <2>2, <2>4, <3>2 DEF GateCandidate
    <3>4. QED
      BY <2>2, <3>1, <3>2, <3>3
  <2>5. QED
    BY <2>3, <2>4
<1>17. QED
  BY <1>5, <1>6, <1>7, <1>8, <1>10, <1>13, <1>14, <1>15, <1>16 DEF IInv

LEMMA StepKeeps == IInv /\ [Next]_vars => IInv'
<1> SUFFICES ASSUME IInv, [Next]_vars PROVE IInv'
  OBVIOUS
<1>1. CASE UNCHANGED vars
  <2>1. TypeOK' /\ MarksTrail' /\ EpisodesRise' /\ ShownIsMarked' /\ ShownOnce'
    BY <1>1 DEF vars, stream, memory, marks, ghost, IInv, TypeOK, MarksTrail, EpisodesRise,
         ShownIsMarked, ShownOnce
  <2>2. MarkIsCount' /\ GatesTrail' /\ GateIsFresh' /\ GatedFresh'
    BY <1>1 DEF vars, stream, memory, marks, ghost, IInv, MarkIsCount, CountedUpTo,
         GatesTrail, GateIsFresh, GatedFresh, Idle, NothingRecorded, AllTasks
  <2>3. WatermarkShown' /\ CapturedHere' /\ Pending' /\ StillNew' /\ LibraryStays'
    BY <1>1 DEF vars, stream, memory, marks, ghost, IInv, WatermarkShown, CapturedHere,
         Captured, DigestHoldsAll, Pending, StillNew, LibraryStays
  <2>4. QED
    BY <2>1, <2>2, <2>3 DEF IInv
<1>2. QED
  BY <1>1, ProcessKeeps, QuietStepKeeps, InduceKeeps, EpisodesRaiseKeeps, GateKeeps
     DEF Next, Frozen

LEMMA AlwaysIInv == Spec => []IInv
BY InitHolds, StepKeeps, PTL DEF Spec

-----------------------------------------------------------------------------

\* Every variable keeps its type (prequential.consolidate and its watermarks).
THEOREM ConsolidationTypeCorrect == Spec => []TypeOK
<1>1. IInv => TypeOK
  BY DEF IInv
<1>2. QED
  BY <1>1, AlwaysIInv, PTL

\* Each incremental consolidation sees only new memory, whichever calls raise in
\* between and whichever episodes are lost: nothing is shown to the inducer
\* twice, and a task gates the candidates of two consolidations only where
\* nothing was recorded since (consolidate, prequential.py:605-627).
THEOREM EvidenceStaysFresh == Spec => []FreshEvidence
<1>1. IInv => FreshEvidence
  BY FreshHalves DEF IInv
<1>2. QED
  BY <1>1, AlwaysIInv, PTL

\* A call that raises leaves the watermark behind, so that what it was to show
\* is shown again (prequential.py:611-612).
THEOREM WatermarkHoldsShown == Spec => []WatermarkShown
<1>1. IInv => WatermarkShown
  BY DEF IInv
<1>2. QED
  BY <1>1, AlwaysIInv, PTL

\* Wherever the stream ends, the store is frozen with nothing the inducer has
\* not seen, unless its latest call raised (prequential.py:1208-1214).
THEOREM FrozenIsCaptured == Spec => []LateMemoryCaptured
<1>1. IInv => LateMemoryCaptured
  BY DEF IInv, MarksTrail, CapturedHere, LateMemoryCaptured
<1>2. QED
  BY <1>1, AlwaysIInv, PTL

\* In the incremental mode no gate takes out of service a skill the inducer was
\* told of, whatever its answer names and however often, while the state is read
\* (prequential.py:610-613, induce.induce_incremental, _run_gate).
THEOREM LiveSkillsStay == Spec => []LibraryStays
<1>1. IInv => LibraryStays
  BY DEF IInv
<1>2. QED
  BY <1>1, AlwaysIInv, PTL
=============================================================================
