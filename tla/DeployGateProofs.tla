-------------------------- MODULE DeployGateProofs --------------------------
(***************************************************************************)
(* Proofs about DeployGate, for every set of processes and skills, every   *)
(* answer of the inducer and every outcome of the replay cases, with       *)
(* crashes and without.                                                    *)
(***************************************************************************)
EXTENDS DeployGate, TLAPS

-----------------------------------------------------------------------------
\* The evidence and the accept rule.

\* The counters are numbers.
LEMMA EvidenceFields ==
    ASSUME NEW e \in Evidence
    PROVE  /\ e.base \in Nat /\ e.full \in Nat /\ e.n \in Nat
           /\ e.rescued \in Nat /\ e.base_fail \in Nat /\ e.broke \in Nat
           /\ e.rounds \in Nat
BY DEF Evidence

\* A round's rows are counted by numbers.
LEMMA RowsFields ==
    ASSUME NEW r \in Rows
    PROVE  r.both \in Nat /\ r.broke \in Nat /\ r.rescued \in Nat /\ r.neither \in Nat
BY DEF Rows

\* What a round adds to each counter.
LEMMA AccumulatedFields ==
    ASSUME NEW e \in Evidence, NEW r \in Rows
    PROVE  /\ Accumulated(e, r) \in Evidence
           /\ Accumulated(e, r).base = e.base + r.both + r.broke
           /\ Accumulated(e, r).full = e.full + r.both + r.rescued
           /\ Accumulated(e, r).n = e.n + r.both + r.broke + r.rescued + r.neither
           /\ Accumulated(e, r).rescued = e.rescued + r.rescued
           /\ Accumulated(e, r).base_fail = e.base_fail + r.rescued + r.neither
           /\ Accumulated(e, r).broke = e.broke + r.broke
           /\ Accumulated(e, r).rounds = e.rounds + 1
BY EvidenceFields, RowsFields DEF Accumulated, Evidence

\* No evidence is evidence, balanced, and part of any.
LEMMA NoEvidenceIsLeast ==
    /\ NoEvidence \in Evidence
    /\ Balanced(NoEvidence)
    /\ \A e \in Evidence : PartOf(NoEvidence, e)
<1>1. NoEvidence \in Evidence
  BY DEF NoEvidence, Evidence
<1>2. Balanced(NoEvidence)
  BY DEF NoEvidence, Balanced
<1>3. \A e \in Evidence : PartOf(NoEvidence, e)
  BY EvidenceFields DEF NoEvidence, PartOf
<1>4. QED
  BY <1>1, <1>2, <1>3

\* A round keeps balanced counters balanced.
LEMMA AccumulatedIsBalanced ==
    ASSUME NEW e \in Evidence, NEW r \in Rows, Balanced(e)
    PROVE  Balanced(Accumulated(e, r))
<1> DEFINE a == Accumulated(e, r)
<1>1. /\ a.base = e.base + r.both + r.broke
      /\ a.full = e.full + r.both + r.rescued
      /\ a.n = e.n + r.both + r.broke + r.rescued + r.neither
      /\ a.rescued = e.rescued + r.rescued
      /\ a.base_fail = e.base_fail + r.rescued + r.neither
      /\ a.broke = e.broke + r.broke
  BY AccumulatedFields
<1> HIDE DEF a
<1>2. Balanced(a)
  BY <1>1, EvidenceFields, RowsFields DEF Balanced
<1>3. QED
  BY <1>2 DEF a

LEMMA PartOfTransitive ==
    ASSUME NEW x \in Evidence, NEW y \in Evidence, NEW z \in Evidence,
           PartOf(x, y), PartOf(y, z)
    PROVE  PartOf(x, z)
BY EvidenceFields DEF PartOf

LEMMA PartOfReflexive ==
    ASSUME NEW e \in Evidence
    PROVE  PartOf(e, e)
BY EvidenceFields DEF PartOf

\* A round only adds.
LEMMA AccumulatedGrows ==
    ASSUME NEW e \in Evidence, NEW r \in Rows
    PROVE  PartOf(e, Accumulated(e, r))
BY EvidenceFields, RowsFields, AccumulatedFields DEF PartOf

\* The same round adds the same to a part and to the whole.
LEMMA AccumulatedMonotone ==
    ASSUME NEW x \in Evidence, NEW y \in Evidence, NEW r \in Rows, PartOf(x, y)
    PROVE  PartOf(Accumulated(x, r), Accumulated(y, r))
BY EvidenceFields, RowsFields, AccumulatedFields DEF PartOf

\* What a skill must have earned before it is seen live.
Earned(e) == Powered(e) /\ e.rescued >= Margin

\* More evidence takes nothing back of what was earned.
LEMMA EarnedGrows ==
    ASSUME NEW x \in Evidence, NEW y \in Evidence, PartOf(x, y), Earned(x)
    PROVE  Earned(y)
BY EvidenceFields, GateAssumption DEF Earned, Powered, PartOf

\* The rule accepts only what has earned it.
LEMMA AcceptedIsEarned ==
    ASSUME NEW e \in Evidence, Balanced(e), Accepts(e)
    PROVE  Earned(e)
BY EvidenceFields, GateAssumption DEF Earned, Accepts, Beats, Balanced

\* The third test of the rule, broke <= rescued (verify.py:221), never decides:
\* on counters that agree with one another a margin of zero or more implies
\* it.
THEOREM DilutionGuardImplied ==
    ASSUME NEW e \in Evidence, Balanced(e)
    PROVE  Accepts(e) <=> Powered(e) /\ Beats(e)
BY EvidenceFields, GateAssumption
   DEF Accepts, Powered, Beats, NotDiluting, Balanced

-----------------------------------------------------------------------------
\* Frames: what a step of one process means to the others.

Parts(p) ==
    /\ EvidenceEarned(p)
    /\ VerdictEarned(p)
    /\ HasCandidate(p)
    /\ FileWritten(p)
    /\ CopyHasFile(p)

\* The step leaves q's locals alone.
Same(q) ==
    /\ pc'[q] = pc[q]
    /\ cands'[q] = cands[q]
    /\ round'[q] = round[q]
    /\ evid'[q] = evid[q]
    /\ verdict'[q] = verdict[q]
    /\ copy'[q] = copy[q]

\* Evidence and files only get more.
Grows ==
    /\ PartOf(evidence, evidence')
    /\ \A d \in Dir : file[d] \subseteq file'[d]

\* What p does never takes from q what q relies on.
LEMMA BystanderKeepsParts ==
    ASSUME IInv, TypeOK', Grows, NEW q \in Proc, Same(q)
    PROVE  Parts(q)' /\ Balanced(evid'[q])
<1>1. /\ evidence \in Evidence /\ evidence' \in Evidence
      /\ evid[q] \in Evidence /\ round[q] \in Rows
      /\ verdict[q] \in Dir /\ copy[q] \in [Name -> Dir \cup {"none"}]
  BY DEF IInv, TypeOK
<1>2. EvidenceEarned(q)'
  <2>1. SUFFICES ASSUME pc[q] \in Gated
                 PROVE  PartOf(evid[q], Accumulated(evidence', round[q]))
    BY DEF Same, EvidenceEarned
  <2>2. PartOf(evid[q], Accumulated(evidence, round[q]))
    BY <2>1 DEF IInv, EvidenceEarned
  <2>3. PartOf(Accumulated(evidence, round[q]), Accumulated(evidence', round[q]))
    BY <1>1, AccumulatedMonotone DEF Grows
  <2>4. QED
    BY <1>1, <2>2, <2>3, AccumulatedFields, PartOfTransitive
<1>3. VerdictEarned(q)'
  BY <1>1, EarnedGrows DEF IInv, VerdictEarned, Same, Grows, Earned
<1>4. HasCandidate(q)'
  BY DEF IInv, HasCandidate, Same
<1>5. FileWritten(q)'
  BY <1>1 DEF IInv, FileWritten, Same, Grows
<1>6. CopyHasFile(q)'
  BY <1>1 DEF IInv, CopyHasFile, Same, Grows, Dir
<1>7. Balanced(evid'[q])
  BY DEF IInv, EvidenceBalanced, Same
<1>8. QED
  BY <1>2, <1>3, <1>4, <1>5, <1>6, <1>7 DEF Parts

\* A step of p keeps the invariant when it keeps p's parts and the shared ones.
LEMMA OneProcessSteps ==
    ASSUME IInv, NEW p \in Proc,
           TypeOK', Grows, \A q \in Proc \ {p} : Same(q),
           Parts(p)', Balanced(evid'[p]),
           WindowBalanced', WindowEarned', NeverBlind', StatusHasFile'
    PROVE  IInv'
<1>1. \A q \in Proc : Parts(q)' /\ Balanced(evid'[q])
  BY BystanderKeepsParts
<1>2. EvidenceBalanced'
  BY <1>1 DEF EvidenceBalanced
<1>3. QED
  BY <1>1, <1>2 DEF IInv, Parts

\* A step that leaves the window, the skills and the evidence alone.
LEMMA QuietStep ==
    ASSUME IInv, UNCHANGED <<window, skills, file, evidence>>
    PROVE  /\ Grows
           /\ WindowBalanced' /\ WindowEarned' /\ NeverBlind' /\ StatusHasFile'
<1>1. Grows
  BY PartOfReflexive DEF IInv, TypeOK, Grows
<1>2. QED
  BY <1>1 DEF IInv, WindowBalanced, WindowEarned, NeverBlind, StatusHasFile

\* Before the gate and after the last skill a process promises nothing.
LEMMA NothingPromised ==
    ASSUME NEW p \in Proc,
           pc'[p] \in {"idle", "tickOpen", "tickWrite", "induce"}
    PROVE  Parts(p)'
BY DEF Parts, EvidenceEarned, VerdictEarned, HasCandidate, FileWritten,
       CopyHasFile, Gated, Writing
-----------------------------------------------------------------------------
\* The values a process resets its locals to.
LEMMA Forgets ==
    ASSUME TypeOK, NEW p \in Proc, Forget(p)
    PROVE  /\ count' \in [Proc -> Nat]
           /\ cands' \in [Proc -> Seq(Name)]
           /\ round' \in [Proc -> Rows]
           /\ evid' \in [Proc -> Evidence]
           /\ verdict' \in [Proc -> Dir]
           /\ copy' \in [Proc -> [Name -> Dir \cup {"none"}]]
           /\ Balanced(evid'[p])
           /\ \A q \in Proc \ {p} :
                /\ cands'[q] = cands[q] /\ round'[q] = round[q]
                /\ evid'[q] = evid[q] /\ verdict'[q] = verdict[q]
                /\ copy'[q] = copy[q]
<1>1. NoRows \in Rows
  BY DEF NoRows, Rows
<1>2. [n \in Name |-> "none"] \in [Name -> Dir \cup {"none"}]
  OBVIOUS
<1>3. <<>> \in Seq(Name)
  OBVIOUS
<1>4. QED
  BY <1>1, <1>2, <1>3, NoEvidenceIsLeast DEF TypeOK, Forget, Dir

\* A process that stops keeps the invariant.
LEMMA Stopping ==
    ASSUME IInv, NEW p \in Proc,
           pc' = [pc EXCEPT ![p] = "idle"], Forget(p),
           UNCHANGED <<window, skills, file, evidence>>,
           tick' \in Nat \cup {Empty},
           started' \in Nat, reflections' \in Nat, inductions' \in Nat,
           tickSound' \in BOOLEAN, gateSound' \in BOOLEAN, stateSound' \in BOOLEAN
    PROVE  IInv'
<1>1. TypeOK
  BY DEF IInv
<1>2. TypeOK'
  BY <1>1, Forgets DEF TypeOK
<1>3. \A q \in Proc \ {p} : Same(q)
  BY <1>1, Forgets DEF TypeOK, Same
<1>4. Parts(p)'
  BY <1>1, NothingPromised DEF TypeOK
<1>5. Balanced(evid'[p])
  BY <1>1, Forgets
<1>6. QED
  BY <1>2, <1>3, <1>4, <1>5, QuietStep, OneProcessSteps

\* A process that goes on without promising anything keeps the invariant.
LEMMA GoingOn ==
    ASSUME IInv, NEW p \in Proc,
           NEW to \in {"tickOpen", "tickWrite", "induce"},
           pc' = [pc EXCEPT ![p] = to],
           UNCHANGED <<window, skills, file, evidence>>,
           UNCHANGED <<cands, round, evid, verdict, copy>>,
           count' \in [Proc -> Nat], tick' \in Nat \cup {Empty},
           started' \in Nat, reflections' \in Nat, inductions' \in Nat,
           tickSound' \in BOOLEAN, gateSound' \in BOOLEAN, stateSound' \in BOOLEAN
    PROVE  IInv'
<1>1. TypeOK /\ EvidenceBalanced
  BY DEF IInv
<1>2. TypeOK'
  BY <1>1 DEF TypeOK, Ticking
<1>3. \A q \in Proc \ {p} : Same(q)
  BY <1>1 DEF TypeOK, Same
<1>4. Parts(p)'
  BY <1>1, NothingPromised DEF TypeOK
<1>5. Balanced(evid'[p])
  BY <1>1 DEF EvidenceBalanced
<1>6. QED
  BY <1>2, <1>3, <1>4, <1>5, QuietStep, OneProcessSteps

-----------------------------------------------------------------------------
\* One lemma per action.

LEMMA TickReadKeeps ==
    ASSUME IInv, NEW p \in Proc, TickRead(p)
    PROVE  IInv'
<1>1. TypeOK
  BY DEF IInv
<1>2. pc' = [pc EXCEPT ![p] = "tickOpen"]
  BY DEF TickRead, Goto
<1>3. count' \in [Proc -> Nat]
  BY <1>1 DEF TickRead, TypeOK
<1>4. /\ tick' \in Nat \cup {Empty} /\ started' \in Nat
      /\ reflections' \in Nat /\ inductions' \in Nat
      /\ tickSound' \in BOOLEAN /\ gateSound' \in BOOLEAN /\ stateSound' \in BOOLEAN
  BY <1>1 DEF TickRead, TypeOK, shared
<1>5. QED
  BY <1>2, <1>3, <1>4, GoingOn DEF TickRead, shared

LEMMA TickOpenKeeps ==
    ASSUME IInv, NEW p \in Proc, TickOpen(p)
    PROVE  IInv'
<1>1. pc' = [pc EXCEPT ![p] = "tickWrite"]
  BY DEF TickOpen, Goto
<1>2. QED
  BY <1>1, GoingOn DEF TickOpen, IInv, TypeOK, local, ghost, sound

\* However the count was stored or not, its turn is taken the same way.
LEMMA TakesTurnKeeps ==
    ASSUME IInv, NEW p \in Proc, TakesTurn(p),
           tick' \in Nat \cup {Empty}, tickSound' \in BOOLEAN
    PROVE  IInv'
<1>1. TypeOK
  BY DEF IInv
<1>2. /\ reflections' \in Nat /\ started' \in Nat
      /\ gateSound' \in BOOLEAN /\ stateSound' \in BOOLEAN
      /\ UNCHANGED <<window, skills, file, evidence>>
  BY <1>1 DEF TakesTurn, TypeOK
<1>3. CASE /\ pc' = [pc EXCEPT ![p] = "idle"] /\ Forget(p)
           /\ UNCHANGED inductions
  BY <1>1, <1>2, <1>3, Stopping DEF TypeOK
<1>4. CASE /\ pc' = [pc EXCEPT ![p] = "induce"]
           /\ inductions' = inductions + 1
           /\ count' = [count EXCEPT ![p] = 0]
           /\ UNCHANGED <<cands, round, evid, verdict, copy>>
  <2>1. inductions' \in Nat /\ count' \in [Proc -> Nat]
    BY <1>1, <1>4 DEF TypeOK
  <2>2. QED
    BY <1>2, <1>4, <2>1, GoingOn
<1>5. QED
  BY <1>3, <1>4 DEF TakesTurn

LEMMA TickWriteKeeps ==
    ASSUME IInv, NEW p \in Proc, TickOpenFails(p) \/ TickWrite(p) \/ TickWriteFails(p)
    PROVE  IInv'
BY TakesTurnKeeps, DeployAssumption
   DEF TickOpenFails, TickWrite, TickWriteFails, IInv, TypeOK

LEMMA InduceNothingKeeps ==
    ASSUME IInv, NEW p \in Proc, InduceNothing(p)
    PROVE  IInv'
BY Stopping DEF InduceNothing, Goto, IInv, TypeOK, shared, ghost, sound

LEMMA CrashKeeps ==
    ASSUME IInv, NEW p \in Proc, Crash(p)
    PROVE  IInv'
BY Stopping DEF Crash, IInv, TypeOK, shared, ghost

\* Picking candidates: they are there, and the verdict is to stage them.
LEMMA PickCandidatesKeeps ==
    ASSUME IInv, NEW p \in Proc, PickCandidates(p),
           NEW to \in {"gateRead", "skillWrite"},
           pc' = [pc EXCEPT ![p] = to]
    PROVE  IInv'
<1>1. TypeOK /\ EvidenceBalanced
  BY DEF IInv
<1>2. PICK cl \in CandidateLists \ {<<>>} : cands' = [cands EXCEPT ![p] = cl]
  BY DEF PickCandidates
<1>3. cl \in Seq(Name) /\ cl # <<>>
  BY DeployAssumption
<1>4. TypeOK'
  BY <1>1, <1>2, <1>3
     DEF TypeOK, PickCandidates, shared, ghost, sound, Dir, Gated, Writing
<1>5. \A q \in Proc \ {p} : Same(q)
  BY <1>1, <1>2 DEF TypeOK, Same, PickCandidates
<1>6. pc'[p] = to /\ cands'[p] = cl /\ verdict'[p] = "candidate"
  BY <1>1, <1>2 DEF TypeOK, PickCandidates
<1>7. Parts(p)'
  BY <1>3, <1>6
     DEF Parts, EvidenceEarned, VerdictEarned, HasCandidate, FileWritten,
         CopyHasFile, Gated, Writing
<1>8. Balanced(evid'[p])
  BY <1>1 DEF EvidenceBalanced, PickCandidates
<1>9. UNCHANGED <<window, skills, file, evidence>>
  BY DEF PickCandidates, shared, ghost
<1>10. QED
  BY <1>4, <1>5, <1>7, <1>8, <1>9, QuietStep, OneProcessSteps

LEMMA InduceKeeps ==
    ASSUME IInv, NEW p \in Proc, InduceUngated(p) \/ InduceGated(p)
    PROVE  IInv'
BY PickCandidatesKeeps DEF InduceUngated, InduceGated, Goto
\* What the gate reads and adds is balanced and part of what was compared.
LEMMA GateReadKeeps ==
    ASSUME IInv, NEW p \in Proc, GateRead(p)
    PROVE  IInv'
<1>1. TypeOK /\ EvidenceBalanced /\ HasCandidate(p) /\ WindowBalanced /\ WindowEarned
  BY DEF IInv
<1>2. PICK r \in RoundChoices, failed \in BOOLEAN :
        /\ round' = [round EXCEPT ![p] = r]
        /\ evid' = [evid EXCEPT ![p] =
                      Accumulated(IF failed \/ window \in Unreadable
                                  THEN NoEvidence ELSE window, r)]
  BY DEF GateRead
<1> DEFINE read == IF failed \/ window \in Unreadable THEN NoEvidence ELSE window
<1>3. /\ read \in Evidence /\ Balanced(read) /\ PartOf(read, evidence)
      /\ evidence \in Evidence
  BY <1>1, NoEvidenceIsLeast DEF TypeOK, WindowBalanced, WindowEarned
<1> HIDE DEF read
<1>4. r \in Rows
  BY DeployAssumption
<1>5. /\ Accumulated(read, r) \in Evidence
      /\ Balanced(Accumulated(read, r))
      /\ PartOf(Accumulated(read, r), Accumulated(evidence, r))
  BY <1>3, <1>4, AccumulatedFields, AccumulatedIsBalanced, AccumulatedMonotone
<1>6. /\ pc[p] = "gateRead" /\ pc' = [pc EXCEPT ![p] = "gateOpen"]
      /\ UNCHANGED <<tick, window, skills, file, count, cands, verdict, copy>>
      /\ UNCHANGED <<started, reflections, inductions, evidence, tickSound, stateSound>>
      /\ gateSound' \in BOOLEAN
  BY <1>1 DEF GateRead, Goto, shared, TypeOK
<1>7. /\ pc'[p] = "gateOpen" /\ round'[p] = r
      /\ evid'[p] = Accumulated(read, r) /\ cands'[p] = cands[p]
  BY <1>1, <1>2, <1>6 DEF TypeOK, read
<1>8. TypeOK'
  <2>1. evid' \in [Proc -> Evidence]
    BY <1>1, <1>2, <1>5 DEF TypeOK, read
  <2>2. QED
    BY <1>1, <1>2, <1>4, <1>6, <2>1 DEF TypeOK, Gated
<1>9. \A q \in Proc \ {p} : Same(q)
  BY <1>1, <1>2, <1>6 DEF TypeOK, Same
<1>10. Parts(p)'
  BY <1>1, <1>5, <1>6, <1>7
     DEF Parts, EvidenceEarned, VerdictEarned, HasCandidate, FileWritten,
         CopyHasFile, Gated, Writing
<1>11. QED
  BY <1>5, <1>6, <1>7, <1>8, <1>9, <1>10, QuietStep, OneProcessSteps

LEMMA GateOpenKeeps ==
    ASSUME IInv, NEW p \in Proc, GateOpen(p)
    PROVE  IInv'
<1>1. TypeOK /\ EvidenceBalanced /\ HasCandidate(p) /\ EvidenceEarned(p)
        /\ NeverBlind /\ StatusHasFile
  BY DEF IInv
<1>2. /\ pc[p] = "gateOpen" /\ pc' = [pc EXCEPT ![p] = "gateWrite"]
      /\ window' = Empty
      /\ UNCHANGED <<tick, skills, file, count, cands, round, evid, verdict, copy>>
      /\ UNCHANGED <<started, reflections, inductions, evidence, sound>>
  BY DEF GateOpen, Goto, local, ghost
<1>3. TypeOK'
  BY <1>1, <1>2 DEF TypeOK, Gated, Unreadable, sound
<1>4. \A q \in Proc \ {p} : Same(q)
  BY <1>1, <1>2 DEF TypeOK, Same
<1>5. pc'[p] = "gateWrite"
  BY <1>1, <1>2 DEF TypeOK
<1>6. Parts(p)'
  BY <1>1, <1>2, <1>5
     DEF Parts, EvidenceEarned, VerdictEarned, HasCandidate, FileWritten,
         CopyHasFile, Gated, Writing
<1>7. Grows
  BY <1>1, <1>2, PartOfReflexive DEF TypeOK, Grows
<1>8. WindowBalanced' /\ WindowEarned' /\ NeverBlind' /\ StatusHasFile'
  BY <1>1, <1>2 DEF WindowBalanced, WindowEarned, NeverBlind, StatusHasFile, Unreadable
<1>9. Balanced(evid'[p])
  BY <1>1, <1>2 DEF EvidenceBalanced
<1>10. QED
  BY <1>3, <1>4, <1>6, <1>7, <1>8, <1>9, OneProcessSteps

\* A skill goes live only on counters that are part of what was compared, so
\* what they earned was earned.
LEMMA DecidesKeeps ==
    ASSUME IInv, NEW p \in Proc, Decides(p), pc[p] \in Gated,
           window' \in {window, evid[p], Mixed}, gateSound' \in BOOLEAN
    PROVE  IInv'
<1>1. TypeOK /\ EvidenceBalanced /\ HasCandidate(p) /\ EvidenceEarned(p)
        /\ NeverBlind /\ StatusHasFile /\ WindowBalanced /\ WindowEarned
  BY DEF IInv
<1> DEFINE all == Accumulated(evidence, round[p])
<1>2. /\ pc' = [pc EXCEPT ![p] = "skillWrite"]
      /\ window' = window \/ window' = evid[p] \/ window' = Mixed
      /\ evidence' = all
      /\ verdict' = [verdict EXCEPT ![p] =
                       IF Accepts(evid[p]) THEN "active" ELSE "candidate"]
      /\ round' = [round EXCEPT ![p] = NoRows]
      /\ evid' = [evid EXCEPT ![p] = NoEvidence]
      /\ UNCHANGED <<tick, skills, file, count, cands, copy>>
      /\ UNCHANGED <<started, reflections, inductions, tickSound, stateSound>>
  BY DEF Decides
<1>3. /\ evidence \in Evidence /\ round[p] \in Rows /\ evid[p] \in Evidence
      /\ Balanced(evid[p])
  BY <1>1 DEF TypeOK, EvidenceBalanced
<1>4. all \in Evidence /\ PartOf(evidence, all)
  BY <1>3, AccumulatedFields, AccumulatedGrows
<1>5. PartOf(evid[p], all)
  BY <1>1 DEF EvidenceEarned
<1> HIDE DEF all
<1>6. /\ pc'[p] = "skillWrite" /\ cands'[p] = cands[p] /\ cands[p] # <<>>
      /\ verdict'[p] = IF Accepts(evid[p]) THEN "active" ELSE "candidate"
  BY <1>1, <1>2 DEF TypeOK, HasCandidate, Gated
<1>7. TypeOK'
  <2>1. NoRows \in Rows /\ NoEvidence \in Evidence
    BY NoEvidenceIsLeast DEF NoRows, Rows
  <2>2. QED
    BY <1>1, <1>2, <1>3, <1>4, <2>1 DEF TypeOK, Writing, Unreadable, Dir
<1>8. \A q \in Proc \ {p} : Same(q)
  BY <1>1, <1>2 DEF TypeOK, Same
<1>9. verdict'[p] = "active" => Earned(all)
  BY <1>3, <1>4, <1>5, <1>6, AcceptedIsEarned, EarnedGrows
<1>10. Parts(p)'
  BY <1>2, <1>6, <1>9
     DEF Parts, EvidenceEarned, VerdictEarned, HasCandidate, FileWritten,
         CopyHasFile, Gated, Writing, Earned
<1>11. Grows
  BY <1>2, <1>4 DEF Grows
<1>12. WindowBalanced'
  BY <1>1, <1>2, <1>3 DEF WindowBalanced, Unreadable
<1>13. WindowEarned'
  <2>1. CASE window' = window
    BY <1>1, <1>2, <1>3, <1>4, <2>1, PartOfTransitive DEF WindowEarned, TypeOK
  <2>2. CASE window' # window
    BY <1>2, <1>5, <2>2 DEF WindowEarned, Unreadable
  <2>3. QED
    BY <2>1, <2>2
<1>14. NeverBlind'
  BY <1>1, <1>2, <1>3, <1>4, EarnedGrows DEF NeverBlind, Earned
<1>15. StatusHasFile'
  BY <1>1, <1>2 DEF StatusHasFile
<1>16. Balanced(evid'[p])
  BY <1>1, <1>2, NoEvidenceIsLeast DEF TypeOK
<1>17. QED
  BY <1>7, <1>8, <1>10, <1>11, <1>12, <1>13, <1>14, <1>15, <1>16, OneProcessSteps

LEMMA GateWriteKeeps ==
    ASSUME IInv, NEW p \in Proc, GateOpenFails(p) \/ GateWrite(p) \/ GateWriteFails(p)
    PROVE  IInv'
BY DecidesKeeps DEF GateOpenFails, GateWrite, GateWriteFails, Gated, IInv, TypeOK

\* SKILL.md is written before the state names it.
LEMMA SkillWriteKeeps ==
    ASSUME IInv, NEW p \in Proc, SkillWrite(p)
    PROVE  IInv'
<1>1. TypeOK /\ EvidenceBalanced /\ HasCandidate(p) /\ VerdictEarned(p)
        /\ WindowBalanced /\ WindowEarned /\ NeverBlind /\ StatusHasFile
  BY DEF IInv
<1>2. /\ pc[p] = "skillWrite" /\ pc' = [pc EXCEPT ![p] = "stateLoad"]
      /\ file' = [file EXCEPT ![verdict[p]] = @ \cup {Head(cands[p])}]
      /\ UNCHANGED <<tick, window, skills, count, cands, round, evid, verdict, copy>>
      /\ UNCHANGED <<started, reflections, inductions, evidence, sound>>
  BY DEF SkillWrite, Goto, local, ghost
<1>3. cands[p] # <<>> /\ Head(cands[p]) \in Name /\ verdict[p] \in Dir
  BY <1>1, <1>2 DEF TypeOK, HasCandidate, Gated, Writing
<1>4. file' \in [Dir -> SUBSET Name]
  BY <1>1, <1>2, <1>3 DEF TypeOK
<1>5. TypeOK'
  BY <1>1, <1>2, <1>4 DEF TypeOK, Writing, sound
<1>6. Grows
  BY <1>1, <1>2, PartOfReflexive DEF TypeOK, Grows
<1>7. \A q \in Proc \ {p} : Same(q)
  BY <1>1, <1>2 DEF TypeOK, Same
<1>8. pc'[p] = "stateLoad" /\ Head(cands[p]) \in file'[verdict[p]]
  BY <1>1, <1>2, <1>3 DEF TypeOK
<1>9. Parts(p)'
  BY <1>1, <1>2, <1>3, <1>8
     DEF Parts, EvidenceEarned, VerdictEarned, HasCandidate, FileWritten,
         CopyHasFile, Gated, Writing
<1>10. NeverBlind'
  <2>1. CASE verdict[p] = "active"
    BY <1>1, <1>2, <2>1 DEF NeverBlind, VerdictEarned, Writing
  <2>2. CASE verdict[p] # "active"
    BY <1>1, <1>2, <2>2 DEF NeverBlind, TypeOK, Dir
  <2>3. QED
    BY <2>1, <2>2
<1>11. StatusHasFile'
  BY <1>1, <1>2, <1>6 DEF StatusHasFile, Grows, TypeOK
<1>12. WindowBalanced' /\ WindowEarned' /\ Balanced(evid'[p])
  BY <1>1, <1>2 DEF WindowBalanced, WindowEarned, EvidenceBalanced
<1>13. QED
  BY <1>5, <1>6, <1>7, <1>9, <1>10, <1>11, <1>12, OneProcessSteps

LEMMA StateLoadKeeps ==
    ASSUME IInv, NEW p \in Proc, StateLoad(p)
    PROVE  IInv'
<1>1. TypeOK /\ EvidenceBalanced /\ StatusHasFile /\ VerdictEarned(p)
        /\ HasCandidate(p) /\ FileWritten(p)
  BY DEF IInv
<1>2. /\ pc[p] = "stateLoad" /\ pc' = [pc EXCEPT ![p] = "stateSave"]
      /\ UNCHANGED <<tick, window, skills, file, count, cands, round, evid, verdict>>
      /\ UNCHANGED <<started, reflections, inductions, evidence, tickSound, gateSound>>
      /\ stateSound' \in BOOLEAN
  BY <1>1 DEF StateLoad, Goto, shared, TypeOK
<1> DEFINE read(failed) == [n \in Name |-> IF failed THEN "none" ELSE skills[n]]
<1>3. PICK failed \in BOOLEAN : copy' = [copy EXCEPT ![p] = read(failed)]
  BY DEF StateLoad
<1>4. /\ read(failed) \in [Name -> Dir \cup {"none"}]
       /\ \A n \in Name : read(failed)[n] \in {"none", skills[n]}
  BY <1>1 DEF TypeOK
<1> HIDE DEF read
<1>5. TypeOK'
  BY <1>1, <1>2, <1>3, <1>4 DEF TypeOK, Writing
<1>6. \A q \in Proc \ {p} : Same(q)
  BY <1>1, <1>2, <1>3 DEF TypeOK, Same
<1>7. pc'[p] = "stateSave" /\ copy'[p] = read(failed)
  BY <1>1, <1>2, <1>3 DEF TypeOK
<1>8. Parts(p)'
  BY <1>1, <1>2, <1>7, <1>4
     DEF Parts, EvidenceEarned, VerdictEarned, HasCandidate, FileWritten,
         CopyHasFile, Gated, Writing, StatusHasFile
<1>9. Balanced(evid'[p])
  BY <1>1, <1>2 DEF EvidenceBalanced
<1>10. QED
  BY <1>2, <1>5, <1>6, <1>8, <1>9, QuietStep, OneProcessSteps

\* A stale copy of the state names only skills whose file is there still.
LEMMA StateSaveKeeps ==
    ASSUME IInv, NEW p \in Proc, StateSave(p)
    PROVE  IInv'
<1>1. TypeOK /\ EvidenceBalanced /\ VerdictEarned(p) /\ HasCandidate(p)
        /\ FileWritten(p) /\ CopyHasFile(p)
        /\ WindowBalanced /\ WindowEarned /\ NeverBlind
  BY DEF IInv
<1>2. /\ pc[p] = "stateSave"
      /\ skills' = [copy[p] EXCEPT ![Head(cands[p])] = verdict[p]]
      /\ UNCHANGED <<tick, window, file, started, reflections, inductions, evidence>>
      /\ UNCHANGED <<tickSound, gateSound, stateSound>>
  BY DEF StateSave, ghost, sound
<1>3. cands[p] # <<>> /\ Head(cands[p]) \in Name /\ verdict[p] \in Dir
        /\ cands[p] \in Seq(Name) /\ copy[p] \in [Name -> Dir \cup {"none"}]
  BY <1>1, <1>2 DEF TypeOK, HasCandidate, Gated, Writing
<1>4. skills' \in [Name -> Dir \cup {"none"}]
  BY <1>2, <1>3
<1>5. StatusHasFile'
  BY <1>1, <1>2, <1>3 DEF StatusHasFile, FileWritten, CopyHasFile
<1>6. Grows
  BY <1>1, <1>2, PartOfReflexive DEF TypeOK, Grows
<1>7. WindowBalanced' /\ WindowEarned' /\ NeverBlind'
  BY <1>1, <1>2 DEF WindowBalanced, WindowEarned, NeverBlind
<1>8. CASE Goto(p, "stateSave", "idle") /\ Forget(p)
  <2>1. pc' = [pc EXCEPT ![p] = "idle"]
    BY <1>8 DEF Goto
  <2>2. TypeOK'
    BY <1>1, <1>2, <1>4, <1>8, <2>1, Forgets DEF TypeOK
  <2>3. \A q \in Proc \ {p} : Same(q)
    BY <1>1, <1>8, <2>1, Forgets DEF TypeOK, Same
  <2>4. Parts(p)' /\ Balanced(evid'[p])
    BY <1>1, <1>8, <2>1, Forgets, NothingPromised DEF TypeOK
  <2>5. QED
    BY <1>5, <1>6, <1>7, <2>2, <2>3, <2>4, OneProcessSteps
<1>9. CASE /\ Tail(cands[p]) # <<>>
           /\ Goto(p, "stateSave", "skillWrite")
           /\ cands' = [cands EXCEPT ![p] = Tail(@)]
           /\ copy' = [copy EXCEPT ![p] = [n \in Name |-> "none"]]
           /\ UNCHANGED <<count, round, evid, verdict>>
  <2>1. pc' = [pc EXCEPT ![p] = "skillWrite"]
    BY <1>9 DEF Goto
  <2>2. Tail(cands[p]) \in Seq(Name)
    BY <1>3
  <2>3. TypeOK'
    BY <1>1, <1>2, <1>4, <1>9, <2>1, <2>2 DEF TypeOK, Writing
  <2>4. \A q \in Proc \ {p} : Same(q)
    BY <1>1, <1>9, <2>1 DEF TypeOK, Same
  <2>5. pc'[p] = "skillWrite" /\ cands'[p] = Tail(cands[p])
    BY <1>1, <1>9, <2>1 DEF TypeOK
  <2>6. Parts(p)'
    BY <1>1, <1>2, <1>9, <2>5
       DEF Parts, EvidenceEarned, VerdictEarned, HasCandidate, FileWritten,
           CopyHasFile, Gated, Writing
  <2>7. Balanced(evid'[p])
    BY <1>1, <1>9 DEF EvidenceBalanced
  <2>8. QED
    BY <1>5, <1>6, <1>7, <2>3, <2>4, <2>6, <2>7, OneProcessSteps
<1>10. QED
  BY <1>8, <1>9 DEF StateSave

-----------------------------------------------------------------------------
\* The invariant and what follows from it.

LEMMA InitHolds == Init => IInv
<1> SUFFICES ASSUME Init PROVE IInv
  OBVIOUS
<1>1. NoRows \in Rows
  BY DEF NoRows, Rows
<1>2. TypeOK
  BY <1>1, NoEvidenceIsLeast DEF Init, TypeOK, Dir
<1>3. WindowBalanced /\ EvidenceBalanced /\ WindowEarned
  BY NoEvidenceIsLeast DEF Init, WindowBalanced, EvidenceBalanced, WindowEarned
<1>4. NeverBlind /\ StatusHasFile
  BY DEF Init, NeverBlind, StatusHasFile, Dir
<1>5. \A p \in Proc : pc[p] = "idle"
  BY DEF Init
<1>6. QED
  BY <1>2, <1>3, <1>4, <1>5
     DEF IInv, EvidenceEarned, VerdictEarned, HasCandidate, FileWritten,
         CopyHasFile, Gated, Writing

LEMMA StepKeeps == IInv /\ [Next]_vars => IInv'
<1> SUFFICES ASSUME IInv, [Next]_vars PROVE IInv'
  OBVIOUS
<1>1. CASE UNCHANGED vars
  BY <1>1 DEF vars, shared, local, ghost, sound, IInv, TypeOK, WindowBalanced,
       EvidenceBalanced, WindowEarned, NeverBlind, StatusHasFile,
       EvidenceEarned, VerdictEarned, HasCandidate, FileWritten, CopyHasFile
<1>2. ASSUME NEW p \in Proc, ReflectTick(p) PROVE IInv'
  BY <1>2, TickReadKeeps, TickOpenKeeps, TickWriteKeeps DEF ReflectTick
<1>3. ASSUME NEW p \in Proc, InduceNothing(p) \/ InduceUngated(p) \/ InduceGated(p)
      PROVE  IInv'
  BY <1>3, InduceNothingKeeps, InduceKeeps
<1>4. ASSUME NEW p \in Proc, RollingDecision(p) PROVE IInv'
  BY <1>4, GateReadKeeps, GateOpenKeeps, GateWriteKeeps DEF RollingDecision
<1>5. ASSUME NEW p \in Proc, WriteSkill(p) PROVE IInv'
  BY <1>5, SkillWriteKeeps, StateLoadKeeps, StateSaveKeeps DEF WriteSkill
<1>6. ASSUME NEW p \in Proc, Crash(p) PROVE IInv'
  BY <1>6, CrashKeeps
<1>7. QED
  BY <1>1, <1>2, <1>3, <1>4, <1>5, <1>6 DEF Next

LEMMA AlwaysIInv == Spec => []IInv
BY InitHolds, StepKeeps, PTL DEF Spec

\* Every reachable state is well typed, for any number of reflections.
THEOREM DeployTypeCorrect == Spec => []TypeOK
<1>1. IInv => TypeOK
  BY DEF IInv
<1>2. QED
  BY <1>1, AlwaysIInv, PTL

\* The counters in gate_window.json agree with one another, whatever races on
\* the file (rolling_decision, verify.py:201-217).
THEOREM WindowStaysBalanced == Spec => []WindowBalanced
<1>1. IInv => WindowBalanced
  BY DEF IInv
<1>2. QED
  BY <1>1, AlwaysIInv, PTL

\* No skill is seen live before the comparisons it needs were made
\* (consolidate_deploy: never auto-activate blind).
THEOREM NeverActivatedBlind == Spec => []NeverBlind
<1>1. IInv => NeverBlind
  BY DEF IInv
<1>2. QED
  BY <1>1, AlwaysIInv, PTL

\* A skill's status names a directory that holds its SKILL.md (write_skill,
\* induce.py:199-211), whatever copies of the state overwrite one another.
THEOREM StatusAlwaysHasFile == Spec => []StatusHasFile
<1>1. IInv => StatusHasFile
  BY DEF IInv
<1>2. QED
  BY <1>1, AlwaysIInv, PTL

-----------------------------------------------------------------------------
\* The remainder of a count by Every.

LEMMA ProductGrows ==
    ASSUME NEW q \in Int, NEW k \in Int, q < k
    PROVE  Every * q + Every <= Every * k
<1>1. Every \in Nat /\ Every > 0
  BY DeployAssumption
<1>2. PICK d \in Nat : k = q + 1 + d
  <2>1. k - q - 1 \in Nat /\ k = q + 1 + (k - q - 1)
    OBVIOUS
  <2>2. QED
    BY <2>1
<1>3. Every * k = Every * q + Every + Every * d
  BY <1>1, <1>2
<1>4. Every * d >= 0
  BY <1>1
<1>5. Every * q \in Int /\ Every * d \in Int /\ Every * k \in Int
  BY <1>1
<1>6. QED
  BY <1>1, <1>3, <1>4, <1>5

\* What a number is above its remainder is a multiple.
LEMMA Divides ==
    ASSUME NEW a \in Nat, NEW b \in Nat, b > 0, NEW c \in Nat, c = a % b
    PROVE  \E q \in Int : a - c = b * q
OBVIOUS

\* A number is a multiple of Every and its remainder ...
LEMMA HasRemainder ==
    ASSUME NEW n \in Nat
    PROVE  /\ Turn(n) \in Nat /\ Turn(n) < Every
           /\ \E q \in Int : n = Every * q + Turn(n)
<1>1. Every \in Nat /\ Every > 0
  BY DeployAssumption
<1>2. n % Every \in Nat /\ n % Every < Every
  BY <1>1
<1> DEFINE c == n % Every
<1>3. c \in Nat /\ c = n % Every
  BY <1>2
<1> HIDE DEF c
<1>4. PICK q \in Int : n - c = Every * q
  BY <1>1, <1>3, Divides
<1>5. Every * q \in Int
  BY <1>1
<1>6. n = Every * q + c
  BY <1>3, <1>4, <1>5
<1>7. QED
  BY <1>2, <1>3, <1>6 DEF Turn

\* ... which is the only one.
LEMMA RemainderUnique ==
    ASSUME NEW n \in Nat, NEW q \in Int, NEW b \in Nat, b < Every, n = Every * q + b
    PROVE  Turn(n) = b
<1>1. Every \in Nat /\ Every > 0
  BY DeployAssumption
<1>2. Turn(n) \in Nat /\ Turn(n) < Every
  BY HasRemainder
<1>3. PICK k \in Int : n = Every * k + Turn(n)
  BY HasRemainder
<1>4. Every * q \in Int /\ Every * k \in Int
  BY <1>1
<1>5. ~(q < k)
  BY <1>1, <1>2, <1>3, <1>4, ProductGrows
<1>6. ~(k < q)
  BY <1>1, <1>2, <1>3, <1>4, ProductGrows
<1>7. q = k
  BY <1>5, <1>6
<1>8. Every * q + b = Every * q + Turn(n)
  BY <1>3, <1>7
<1>9. QED
  BY <1>2, <1>4, <1>8

LEMMA TurnOfZero == Turn(0) = 0
BY DeployAssumption, RemainderUnique

\* Counting one on is one nearer to the turn, or is the turn.
LEMMA TurnOfNext ==
    ASSUME NEW n \in Nat
    PROVE  IF Turn(n + 1) = 0 THEN Turn(n) = Every - 1 ELSE Turn(n + 1) = Turn(n) + 1
<1>1. Every \in Nat /\ Every > 0
  BY DeployAssumption
<1>2. Turn(n) \in Nat /\ Turn(n) < Every
  BY HasRemainder
<1>3. PICK q \in Int : n = Every * q + Turn(n)
  BY HasRemainder
<1>4. Every * q \in Int
  BY <1>1
<1>5. CASE Turn(n) = Every - 1
  <2>1. n + 1 = Every * q + Every
    BY <1>1, <1>3, <1>4, <1>5
  <2>2. n + 1 = Every * (q + 1) + 0
    BY <1>1, <2>1
  <2>3. Turn(n + 1) = 0
    BY <1>1, <2>2, RemainderUnique
  <2>4. QED
    BY <1>5, <2>3
<1>6. CASE Turn(n) < Every - 1
  <2>1. n + 1 = Every * q + (Turn(n) + 1) /\ Turn(n) + 1 < Every
    BY <1>1, <1>2, <1>3, <1>4, <1>6
  <2>2. n + 1 \in Nat /\ Turn(n) + 1 \in Nat
    BY <1>2
  <2> DEFINE b == Turn(n) + 1
  <2>3. b \in Nat /\ b < Every /\ n + 1 = Every * q + b
    BY <2>1, <2>2
  <2> HIDE DEF b
  <2>4. Turn(n + 1) = b
    BY <2>2, <2>3, RemainderUnique
  <2>5. Turn(n + 1) = Turn(n) + 1
    BY <2>4 DEF b
  <2>6. QED
    BY <1>2, <2>5
<1>7. QED
  BY <1>2, <1>1, <1>5, <1>6

-----------------------------------------------------------------------------
\* The pace of the inductions.

\* A step that counts nothing and whose process holds no count after it.
LEMMA TickFrame ==
    ASSUME TypeOK, TickInv, NEW p \in Proc,
           tickSound' => tickSound,
           UNCHANGED <<tick, reflections, inductions>>,
           \A q \in Proc \ {p} : pc'[q] = pc[q] /\ count'[q] = count[q],
           pc'[p] \notin Ticking
    PROVE  TickInv'
BY DEF TickInv, OnFile, Turn, Ticking

LEMMA TickReadPaced ==
    ASSUME TypeOK, TickInv, NEW p \in Proc, TickRead(p), tickSound'
    PROVE  TickInv'
<1>1. /\ tickSound /\ \A q \in Proc : pc[q] \notin Ticking
      /\ pc' = [pc EXCEPT ![p] = "tickOpen"]
      /\ UNCHANGED <<tick, reflections, inductions>>
  BY DEF TickRead, Goto, shared
<1>2. PICK n \in {OnFile, 0} : count' = [count EXCEPT ![p] = n + 1]
  BY DEF TickRead, OnFile
<1>3. OnFile \in Nat /\ n \in Nat
  BY <1>2 DEF OnFile, TypeOK
<1>4. count'[p] = n + 1 /\ count'[p] > 0 /\ count'[p] - 1 = n
  BY <1>2, <1>3 DEF TypeOK
<1>5. Turn(n) <= Turn(OnFile) /\ Turn(n) \in Nat /\ Turn(OnFile) \in Nat
  <2>1. Turn(n) \in Nat /\ Turn(OnFile) \in Nat
    BY <1>3, HasRemainder
  <2>2. n = OnFile \/ Turn(n) = 0
    BY <1>2, TurnOfZero
  <2>3. QED
    BY <2>1, <2>2
<1>6. inductions * Every \in Nat /\ reflections \in Nat
  BY DeployAssumption DEF TypeOK
<1>7. inductions * Every + Turn(OnFile) <= reflections
  BY <1>1 DEF TickInv
<1>8. inductions * Every + Turn(n) <= reflections
  BY <1>5, <1>6, <1>7
<1>9. \A q \in Proc : pc'[q] \in Ticking => q = p /\ pc'[q] = "tickOpen"
  BY <1>1 DEF TypeOK
<1>10. OnFile' = OnFile
  BY <1>1 DEF OnFile
<1>11. inductions' * Every + Turn(OnFile') <= reflections'
  BY <1>1, <1>7, <1>10
<1>12. \A q \in Proc : pc'[q] \in Ticking =>
          count'[q] > 0 /\ inductions' * Every + Turn(count'[q] - 1) <= reflections'
  BY <1>1, <1>4, <1>8, <1>9
<1>13. QED
  BY <1>9, <1>11, <1>12 DEF TickInv, Ticking

LEMMA TickOpenPaced ==
    ASSUME TypeOK, TickInv, NEW p \in Proc, TickOpen(p), tickSound'
    PROVE  TickInv'
<1>1. /\ tickSound /\ pc[p] = "tickOpen" /\ tick' = Empty
      /\ pc' = [pc EXCEPT ![p] = "tickWrite"]
      /\ UNCHANGED <<count, reflections, inductions>>
  BY DEF TickOpen, Goto, local, ghost, sound
<1>2. pc'[p] = "tickWrite" /\ \A q \in Proc \ {p} : pc'[q] = pc[q]
  BY <1>1 DEF TypeOK
<1>3. count[p] > 0 /\ inductions * Every + Turn(count[p] - 1) <= reflections
  BY <1>1 DEF TickInv, Ticking
<1>4. count[p] - 1 \in Nat
  BY <1>3 DEF TypeOK
<1>5. Turn(count[p] - 1) \in Nat
  BY <1>4, HasRemainder, DeployAssumption
<1>6. inductions * Every \in Nat /\ reflections \in Nat
  BY DeployAssumption DEF TypeOK
<1>7. Turn(OnFile') = 0
  BY <1>1, TurnOfZero DEF OnFile
<1>8. inductions' * Every + Turn(OnFile') <= reflections'
  BY <1>1, <1>3, <1>5, <1>6, <1>7
<1>9. QED
  BY <1>1, <1>2, <1>8 DEF TickInv, Ticking, Turn, OnFile

\* Who takes its turn held the only count; the file has it or is empty.
LEMMA TakesTurnPaced ==
    ASSUME TypeOK, TickInv, NEW p \in Proc, TakesTurn(p), pc[p] \in Ticking, tickSound,
           tick' \in {count[p], Empty}
    PROVE  TickInv'
<1>1. count[p] > 0 /\ inductions * Every + Turn(count[p] - 1) <= reflections
  BY DEF TickInv
<1> DEFINE n == count[p] - 1
<1>2. n \in Nat /\ n + 1 = count[p]
  BY <1>1 DEF TypeOK
<1>3. pc'[p] \notin Ticking /\ \A q \in Proc \ {p} : pc'[q] = pc[q]
  BY DEF TakesTurn, TypeOK, Ticking
<1>4. \A q \in Proc : pc'[q] \notin Ticking
  BY <1>3 DEF TickInv
<1>5. reflections' = reflections + 1 /\ reflections \in Nat /\ inductions \in Nat
  BY DEF TakesTurn, TypeOK
<1>6. inductions' = IF Turn(n + 1) = 0 THEN inductions + 1 ELSE inductions
  BY <1>2 DEF TakesTurn, Turn
<1>7. OnFile' \in {n + 1, 0}
  BY <1>2 DEF OnFile
<1>8. Turn(OnFile') <= Turn(n + 1) /\ Turn(OnFile') \in Nat /\ Turn(n + 1) \in Nat
        /\ Turn(n) \in Nat
  <2>1. n + 1 \in Nat /\ OnFile' \in Nat
    BY <1>2, <1>7
  <2>2. Turn(OnFile') \in Nat /\ Turn(n + 1) \in Nat /\ Turn(n) \in Nat
    BY <1>2, <2>1, HasRemainder
  <2>3. OnFile' = n + 1 \/ Turn(OnFile') = 0
    BY <1>7, TurnOfZero
  <2>4. QED
    BY <2>2, <2>3
<1>9. IF Turn(n + 1) = 0 THEN Turn(n) = Every - 1 ELSE Turn(n + 1) = Turn(n) + 1
  BY <1>2, TurnOfNext
<1>10. Every \in Nat /\ inductions * Every \in Nat
         /\ (inductions + 1) * Every = inductions * Every + Every
  BY <1>5, DeployAssumption
<1>11. inductions * Every + Turn(n) <= reflections
  BY <1>1
<1> HIDE DEF n
<1>12. inductions' * Every + Turn(OnFile') <= reflections'
  <2>1. CASE Turn(n + 1) = 0
    <3>1. inductions' * Every = inductions * Every + Every
      BY <1>6, <1>10, <2>1
    <3>2. QED
      BY <1>5, <1>8, <1>9, <1>10, <1>11, <2>1, <3>1
  <2>2. CASE Turn(n + 1) # 0
    <3>1. inductions' * Every = inductions * Every
      BY <1>6, <2>2
    <3>2. QED
      BY <1>5, <1>8, <1>9, <1>10, <1>11, <2>2, <3>1
  <2>3. QED
    BY <2>1, <2>2
<1>13. QED
  BY <1>4, <1>12 DEF TickInv, Ticking

LEMMA TickStep == TypeOK /\ TickInv /\ [Next]_vars => TickInv'
<1> SUFFICES ASSUME TypeOK, TickInv, [Next]_vars, tickSound' PROVE TickInv'
  BY DEF TickInv
<1>1. CASE UNCHANGED vars
  BY <1>1 DEF vars, shared, local, ghost, sound, TickInv, OnFile
<1>2. ASSUME NEW p \in Proc, ReflectTick(p) PROVE TickInv'
  <2>1. ASSUME TickWrite(p) \/ TickWriteFails(p)
        PROVE  /\ pc[p] \in Ticking /\ tickSound /\ TakesTurn(p)
               /\ tick' \in {count[p], Empty}
    BY <2>1 DEF TickWrite, TickWriteFails, Ticking, TickInv
  <2>2. ~TickOpenFails(p)
    BY DEF TickOpenFails
  <2>3. QED
    BY <1>2, <2>1, <2>2, TickReadPaced, TickOpenPaced, TakesTurnPaced DEF ReflectTick
<1>3. ASSUME NEW p \in Proc,
             \/ InduceNothing(p) \/ InduceUngated(p) \/ InduceGated(p)
             \/ RollingDecision(p) \/ WriteSkill(p) \/ Crash(p)
      PROVE  TickInv'
  <2>1. /\ pc'[p] \notin Ticking
        /\ \A q \in Proc \ {p} : pc'[q] = pc[q] /\ count'[q] = count[q]
    BY <1>3 DEF TypeOK, Ticking, InduceNothing, InduceUngated, InduceGated, PickCandidates,
       RollingDecision, GateRead, GateOpen, GateOpenFails, GateWrite, GateWriteFails, Decides,
       WriteSkill, SkillWrite, StateLoad, StateSave, Crash, Goto, Forget, local
  <2>2. UNCHANGED <<tick, reflections, inductions, tickSound>>
    BY <1>3 DEF InduceNothing, InduceUngated, InduceGated, PickCandidates,
       RollingDecision, GateRead, GateOpen, GateOpenFails, GateWrite, GateWriteFails, Decides,
       WriteSkill, SkillWrite, StateLoad, StateSave, Crash, shared, ghost, sound
  <2>3. QED
    BY <2>1, <2>2, TickFrame
<1>4. QED
  BY <1>1, <1>2, <1>3 DEF Next

\* Only every Nth reflection induces (promote.py, DEPLOY_INDUCE_EVERY), for any
\* N and any number of reflections, killed processes, and reads and writes that
\* fail, as long as no two count at once and the counter can be opened.
THEOREM InductionsArePaced == Spec => []PacedInductions
<1>1. Init => TickInv
  <2>1. ASSUME Init PROVE OnFile = 0
    BY <2>1, DeployAssumption DEF Init, OnFile
  <2>2. QED
    BY <2>1, TurnOfZero, DeployAssumption DEF Init, TickInv, Ticking
<1>2. TypeOK /\ TickInv => PacedInductions
  <2> SUFFICES ASSUME TypeOK, TickInv, tickSound PROVE inductions * Every <= reflections
    BY DEF PacedInductions, EveryNthOnly
  <2>1. OnFile \in Nat
    BY DEF TypeOK, OnFile
  <2>2. Turn(OnFile) \in Nat
    BY <2>1, HasRemainder, DeployAssumption
  <2>3. inductions * Every + Turn(OnFile) <= reflections
    BY DEF TickInv
  <2>4. inductions * Every \in Nat /\ reflections \in Nat
    BY DeployAssumption DEF TypeOK
  <2>5. QED
    BY <2>2, <2>3, <2>4
<1>3. QED
  BY <1>1, <1>2, TickStep, DeployTypeCorrect, PTL DEF Spec
-----------------------------------------------------------------------------
\* The evidence of every round.

\* A step away from the gate: the file and the evidence stay as they are.
LEMMA GateFrame ==
    ASSUME TypeOK, GateInv, NEW p \in Proc,
           gateSound' => gateSound /\ pc[p] # "gateWrite",
           UNCHANGED <<window, evidence>>,
           \A q \in Proc \ {p} :
               /\ pc'[q] = pc[q] /\ verdict'[q] = verdict[q]
               /\ round'[q] = round[q] /\ evid'[q] = evid[q],
           pc'[p] \notin Gated,
           pc'[p] = "gateRead" => verdict'[p] = "candidate"
    PROVE  GateInv'
<1>1. \A q \in Proc : pc'[q] \in {"gateRead"} \cup Gated => verdict'[q] = "candidate"
  BY DEF GateInv
<1>2. ASSUME gateSound' PROVE (\A q \in Proc : pc'[q] # "gateWrite") => window' = evidence'
  BY <1>2 DEF GateInv
<1>3. ASSUME gateSound'
      PROVE  /\ \A q, r \in Proc : pc'[q] \in Gated /\ pc'[r] \in Gated => q = r
             /\ \A q \in Proc :
                  /\ pc'[q] \in Gated => evid'[q] = Accumulated(evidence', round'[q])
                  /\ pc'[q] = "gateWrite" => window' = Empty
  BY <1>3 DEF GateInv, Gated
<1>4. QED
  BY <1>1, <1>2, <1>3 DEF GateInv

LEMMA GateReadWhole ==
    ASSUME TypeOK, GateInv, NEW p \in Proc, GateRead(p)
    PROVE  GateInv'
<1>1. /\ pc[p] = "gateRead" /\ pc'[p] = "gateOpen"
      /\ \A q \in Proc \ {p} : pc'[q] = pc[q] /\ evid'[q] = evid[q] /\ round'[q] = round[q]
      /\ UNCHANGED <<window, evidence, verdict>>
  BY DEF GateRead, Goto, shared, TypeOK
<1>2. \A q \in Proc : pc'[q] \in {"gateRead"} \cup Gated => verdict'[q] = "candidate"
  BY <1>1 DEF GateInv
<1>3. ASSUME gateSound'
      PROVE  /\ \A q \in Proc : pc[q] \notin Gated
             /\ window = evidence
             /\ evid'[p] = Accumulated(evidence, round'[p])
  <2>1. PICK r \in RoundChoices, failed \in BOOLEAN :
          /\ round' = [round EXCEPT ![p] = r]
          /\ evid' = [evid EXCEPT ![p] =
                        Accumulated(IF failed \/ window \in Unreadable
                                    THEN NoEvidence ELSE window, r)]
          /\ gateSound /\ ~failed /\ \A q \in Proc : pc[q] \notin Gated
    BY <1>3 DEF GateRead
  <2>2. window = evidence /\ window \notin Unreadable
    BY <2>1, DeployAssumption DEF GateInv, Gated, Unreadable, TypeOK
  <2>3. round'[p] = r /\ evid'[p] = Accumulated(window, r)
    BY <2>1, <2>2 DEF TypeOK
  <2>4. QED
    BY <2>1, <2>2, <2>3
<1>4. QED
  BY <1>1, <1>2, <1>3 DEF GateInv, Gated

LEMMA GateOpenWhole ==
    ASSUME TypeOK, GateInv, NEW p \in Proc, GateOpen(p)
    PROVE  GateInv'
<1>1. /\ pc[p] = "gateOpen" /\ pc'[p] = "gateWrite" /\ window' = Empty
      /\ \A q \in Proc \ {p} : pc'[q] = pc[q]
      /\ UNCHANGED <<evidence, verdict, evid, round, gateSound>>
  BY DEF GateOpen, Goto, local, ghost, sound, TypeOK
<1>2. QED
  BY <1>1 DEF GateInv, Gated

\* A decision is on all there is, whatever becomes of the file.
LEMMA DecidesOnAll ==
    ASSUME TypeOK, GateInv, NEW p \in Proc, Decides(p), pc[p] \in Gated, gateSound,
           verdict'[p] = "active"
    PROVE  Accepts(evidence')
<1>1. evid[p] = Accumulated(evidence, round[p])
  BY DEF GateInv
<1>2. evidence' = evid[p] /\ verdict'[p] = IF Accepts(evid[p]) THEN "active" ELSE "candidate"
  BY <1>1 DEF Decides, TypeOK
<1>3. QED
  BY <1>2

LEMMA GateWriteWhole ==
    ASSUME TypeOK, GateInv, NEW p \in Proc,
           GateOpenFails(p) \/ GateWrite(p) \/ GateWriteFails(p)
    PROVE  GateInv'
<1>1. /\ pc[p] \in Gated /\ pc'[p] = "skillWrite"
      /\ evidence' = Accumulated(evidence, round[p])
      /\ \A q \in Proc \ {p} : pc'[q] = pc[q] /\ verdict'[q] = verdict[q]
  BY DEF GateOpenFails, GateWrite, GateWriteFails, Decides, TypeOK, Gated
<1>2. \A q \in Proc : pc'[q] \in {"gateRead"} \cup Gated => verdict'[q] = "candidate"
  BY <1>1 DEF GateInv, Gated
<1>3. ASSUME gateSound'
      PROVE  window' = evidence' /\ \A q \in Proc : pc'[q] \notin Gated
  <2>1. gateSound /\ pc[p] = "gateWrite" /\ GateWrite(p)
    BY <1>3 DEF GateOpenFails, GateWrite, GateWriteFails
  <2>2. window = Empty /\ evid[p] = Accumulated(evidence, round[p])
    BY <2>1 DEF GateInv, Gated
  <2>3. window' = evid[p]
    BY <2>1, <2>2 DEF GateWrite
  <2>4. \A q \in Proc : pc'[q] \notin Gated
    BY <1>1, <2>1 DEF GateInv, Gated
  <2>5. QED
    BY <1>1, <2>2, <2>3, <2>4
<1>4. QED
  BY <1>2, <1>3 DEF GateInv, Gated

LEMMA GateStep == TypeOK /\ GateInv /\ [Next]_vars => GateInv'
<1> SUFFICES ASSUME TypeOK, GateInv, [Next]_vars PROVE GateInv'
  OBVIOUS
<1>1. CASE UNCHANGED vars
  BY <1>1 DEF vars, shared, local, ghost, sound, GateInv
<1>2. ASSUME NEW p \in Proc, RollingDecision(p) PROVE GateInv'
  BY <1>2, GateReadWhole, GateOpenWhole, GateWriteWhole DEF RollingDecision
<1>3. ASSUME NEW p \in Proc,
             \/ ReflectTick(p) \/ WriteSkill(p) \/ Crash(p)
             \/ InduceNothing(p) \/ InduceUngated(p) \/ InduceGated(p)
      PROVE  GateInv'
  <2>1. /\ pc'[p] \notin Gated
        /\ pc'[p] = "gateRead" => verdict'[p] = "candidate"
    BY <1>3 DEF TypeOK, Gated, InduceNothing, InduceUngated, InduceGated, PickCandidates,
       ReflectTick, TickRead, TickOpen, TickOpenFails, TickWrite, TickWriteFails, TakesTurn,
       WriteSkill, SkillWrite, StateLoad, StateSave, Crash, Goto
  <2>2. \A q \in Proc \ {p} :
          /\ pc'[q] = pc[q] /\ verdict'[q] = verdict[q]
          /\ round'[q] = round[q] /\ evid'[q] = evid[q]
    BY <1>3 DEF TypeOK, InduceNothing, InduceUngated, InduceGated, PickCandidates,
       ReflectTick, TickRead, TickOpen, TickOpenFails, TickWrite, TickWriteFails, TakesTurn,
       WriteSkill, SkillWrite, StateLoad, StateSave, Crash, Goto, Forget, local
  <2>3. UNCHANGED <<window, evidence>>
    BY <1>3 DEF InduceNothing, InduceUngated, InduceGated, PickCandidates,
       ReflectTick, TickRead, TickOpen, TickOpenFails, TickWrite, TickWriteFails, TakesTurn,
       WriteSkill, SkillWrite, StateLoad, StateSave, Crash, shared, ghost
  <2>4. CASE Crash(p)
    <3>1. gateSound' = (gateSound /\ pc[p] # "gateWrite")
      BY <2>4 DEF Crash
    <3>2. QED
      BY <2>1, <2>2, <2>3, <3>1, GateFrame
  <2>5. CASE ~Crash(p)
    <3>1. gateSound' = gateSound
      BY <1>3, <2>5 DEF InduceNothing, InduceUngated, InduceGated, PickCandidates,
         ReflectTick, TickRead, TickOpen, TickOpenFails, TickWrite, TickWriteFails, TakesTurn,
         WriteSkill, SkillWrite, StateLoad, StateSave, ghost, sound
    <3>2. pc[p] # "gateWrite"
      BY <1>3, <2>5 DEF InduceNothing, InduceUngated, InduceGated,
         ReflectTick, TickRead, TickOpen, TickOpenFails, TickWrite, TickWriteFails,
         WriteSkill, SkillWrite, StateLoad, StateSave, Goto
    <3>3. QED
      BY <2>1, <2>2, <2>3, <3>1, <3>2, GateFrame
  <2>6. QED
    BY <2>4, <2>5
<1>4. QED
  BY <1>1, <1>2, <1>3 DEF Next

LEMMA AlwaysGateInv == Spec => []GateInv
<1>1. Init => GateInv
  BY DEF Init, GateInv, Gated
<1>2. QED
  BY <1>1, DeployTypeCorrect, GateStep, PTL DEF Spec

\* A skill goes live on the comparisons of all rounds (rolling_decision:
\* accumulate across checkpoints), as long as every decision before was written
\* on its own and to its end; the write of this one may still fail.
THEOREM DecisionsAreOnAll == Spec => DecidesOnAllEvidence
<1>1. TypeOK /\ GateInv /\ [Next]_vars =>
        [\A p \in Proc :
            pc[p] \in Gated /\ verdict'[p] = "active" /\ gateSound
                => Accepts(evidence')]_vars
  <2> SUFFICES ASSUME TypeOK, GateInv, Next, NEW p \in Proc,
                      pc[p] \in Gated, verdict'[p] = "active", gateSound
               PROVE  Accepts(evidence')
    OBVIOUS
  <2>1. verdict[p] = "candidate"
    BY DEF GateInv
  <2>2. PICK q \in Proc : ReflectTick(q) \/ InduceNothing(q) \/ InduceUngated(q)
                            \/ InduceGated(q) \/ RollingDecision(q)
                            \/ WriteSkill(q) \/ Crash(q)
    BY DEF Next
  <2>3. CASE q # p
    <3>1. verdict'[p] = verdict[p]
      BY <2>2, <2>3 DEF TypeOK, InduceNothing, InduceUngated, InduceGated, PickCandidates,
         ReflectTick, TickRead, TickOpen, TickOpenFails, TickWrite, TickWriteFails, TakesTurn,
         RollingDecision, GateRead, GateOpen, GateOpenFails, GateWrite, GateWriteFails, Decides,
         WriteSkill, SkillWrite, StateLoad, StateSave, Crash, Forget, local
    <3>2. QED
      BY <2>1, <3>1
  <2>4. CASE q = p /\ (GateOpenFails(p) \/ GateWrite(p) \/ GateWriteFails(p))
    BY <2>4, DecidesOnAll DEF GateOpenFails, GateWrite, GateWriteFails
  <2>5. CASE q = p /\ (Crash(p) \/ GateOpen(p))
    BY <2>1, <2>5 DEF Crash, GateOpen, Forget, local, TypeOK
  <2>6. QED
    BY <2>2, <2>3, <2>4, <2>5
       DEF ReflectTick, TickRead, TickOpen, TickOpenFails, TickWrite, TickWriteFails, Gated,
           InduceNothing, InduceUngated, InduceGated, RollingDecision, GateRead,
           WriteSkill, SkillWrite, StateLoad, StateSave, Goto
<1>2. QED
  BY <1>1, DeployTypeCorrect, AlwaysGateInv, PTL DEF Spec, DecidesOnAllEvidence

-----------------------------------------------------------------------------
\* The skills registered.

LEMMA StateStep == TypeOK /\ StateInv /\ [Next]_vars => StateInv'
<1> SUFFICES ASSUME TypeOK, StateInv, [Next]_vars, stateSound' PROVE StateInv'
  BY DEF StateInv
<1>1. CASE UNCHANGED vars
  BY <1>1 DEF vars, shared, local, ghost, sound, StateInv
<1>2. ASSUME NEW p \in Proc, StateLoad(p) PROVE StateInv'
  <2>1. /\ \A q \in Proc : pc[q] # "stateSave"
        /\ \A q \in Proc \ {p} : pc'[q] = pc[q]
        /\ skills' = skills
    BY <1>2 DEF StateLoad, Goto, shared, TypeOK
  <2>2. copy' = [copy EXCEPT ![p] = [n \in Name |-> skills[n]]]
    BY <1>2 DEF StateLoad
  <2>3. copy'[p] = skills
    BY <2>2 DEF TypeOK
  <2>4. QED
    BY <2>1, <2>3 DEF StateInv
<1>3. ASSUME NEW p \in Proc, StateSave(p) PROVE StateInv'
  <2>1. /\ pc[p] = "stateSave" /\ pc'[p] # "stateSave" /\ stateSound
        /\ \A q \in Proc \ {p} : pc'[q] = pc[q]
    BY <1>3 DEF StateSave, Goto, ghost, sound, TypeOK
  <2>2. \A q \in Proc : pc'[q] # "stateSave"
    BY <2>1 DEF StateInv
  <2>3. QED
    BY <2>2 DEF StateInv
<1>4. ASSUME NEW p \in Proc,
             \/ ReflectTick(p) \/ RollingDecision(p) \/ SkillWrite(p) \/ Crash(p)
             \/ InduceNothing(p) \/ InduceUngated(p) \/ InduceGated(p)
      PROVE  StateInv'
  <2>1. /\ pc'[p] # "stateSave"
        /\ \A q \in Proc \ {p} : pc'[q] = pc[q] /\ copy'[q] = copy[q]
    BY <1>4 DEF TypeOK, InduceNothing, InduceUngated, InduceGated, PickCandidates,
       ReflectTick, TickRead, TickOpen, TickOpenFails, TickWrite, TickWriteFails, TakesTurn,
       RollingDecision, GateRead, GateOpen, GateOpenFails, GateWrite, GateWriteFails, Decides,
       SkillWrite, Crash, Goto, Forget, local
  <2>2. UNCHANGED <<skills, stateSound>>
    BY <1>4 DEF InduceNothing, InduceUngated, InduceGated, PickCandidates,
       ReflectTick, TickRead, TickOpen, TickOpenFails, TickWrite, TickWriteFails, TakesTurn,
       RollingDecision, GateRead, GateOpen, GateOpenFails, GateWrite, GateWriteFails, Decides,
       SkillWrite, Crash, shared, ghost, sound
  <2>3. QED
    BY <2>1, <2>2 DEF StateInv
<1>5. QED
  BY <1>1, <1>2, <1>3, <1>4 DEF Next, WriteSkill

LEMMA AlwaysStateInv == Spec => []StateInv
<1>1. Init => StateInv
  BY DEF Init, StateInv
<1>2. QED
  BY <1>1, DeployTypeCorrect, StateStep, PTL DEF Spec

\* No save of skill_state.json forgets a skill (write_skill: non-destructive), as
\* long as no two processes register a skill at once and the file can be read.
THEOREM RegistrationsSurvive == Spec => RegistrationSurvives
<1>1. TypeOK /\ StateInv /\ [Next]_vars =>
        [stateSound => \A n \in Name : skills[n] # "none" => skills'[n] # "none"]_vars
  <2> SUFFICES ASSUME TypeOK, StateInv, Next, stateSound, NEW n \in Name, skills[n] # "none"
               PROVE  skills'[n] # "none"
    OBVIOUS
  <2>1. ASSUME NEW p \in Proc, StateSave(p) PROVE skills'[n] # "none"
    <3>1. copy[p] = skills
      BY <2>1 DEF StateSave, StateInv
    <3>2. skills' = [skills EXCEPT ![Head(cands[p])] = verdict[p]]
      BY <2>1, <3>1 DEF StateSave
    <3>3. verdict[p] # "none" /\ skills \in [Name -> Dir \cup {"none"}]
      BY <2>1 DEF TypeOK, Dir
    <3>4. QED
      BY <3>2, <3>3
  <2>2. ASSUME NEW p \in Proc,
               \/ ReflectTick(p) \/ RollingDecision(p) \/ Crash(p)
               \/ InduceNothing(p) \/ InduceUngated(p) \/ InduceGated(p)
               \/ SkillWrite(p) \/ StateLoad(p)
        PROVE  skills' = skills
    BY <2>2 DEF ReflectTick, TickRead, TickOpen, TickOpenFails, TickWrite, TickWriteFails,
       TakesTurn, InduceNothing, InduceUngated, InduceGated, PickCandidates, RollingDecision,
       GateRead, GateOpen, GateOpenFails, GateWrite, GateWriteFails, Decides,
       SkillWrite, StateLoad, Crash, shared
  <2>3. QED
    BY <2>1, <2>2 DEF Next, WriteSkill
<1>2. QED
  BY <1>1, DeployTypeCorrect, AlwaysStateInv, PTL DEF Spec, RegistrationSurvives
=============================================================================
