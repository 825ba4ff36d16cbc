----------------------------- MODULE DeployGate -----------------------------
(***************************************************************************)
(* Consolidation in a deployment (promote.consolidate_deploy): every       *)
(* Stop-hook process, once it has merged and credited, counts its          *)
(* reflection in memory/.reflect_count; on every Nth count it lets the     *)
(* LLM induce candidate skills, gates them on the replay cases over the    *)
(* evidence kept in memory/gate_window.json, and writes each as a live or  *)
(* a staged skill.  The processes share the files and take no lock; the    *)
(* two counters are written in place, skill_state.json is replaced.        *)
(***************************************************************************)
EXTENDS EvidenceWindow, Sequences

CONSTANTS
    Proc,            \* the processes the Stop hook spawns
    Name,            \* names of skills
    Every,           \* DEPLOY_INDUCE_EVERY
    CandidateLists,  \* lists of candidate names the inducer may answer
    RoundChoices,    \* outcomes the replay cases may have
    MayCrash,        \* a detached process may be killed
    MayFailIO,       \* a call on a file may fail
    Empty,           \* a file opened for writing and not yet filled
    Mixed,           \* a JSON text with the tail of another: does not parse
    MixedTicks,      \* numbers that two counts written over each other may
                     \* read as (at offset 0 a longer text keeps its tail)
    MaxReflections   \* bound: how many reflections get this far

ASSUME DeployAssumption ==
    /\ Every \in Nat \ {0}
    /\ CandidateLists \subseteq Seq(Name)
    /\ RoundChoices \subseteq Rows
    /\ MayCrash \in BOOLEAN
    /\ MayFailIO \in BOOLEAN
    /\ MixedTicks \subseteq Nat
    /\ Empty \notin Nat
    /\ Empty \notin Evidence
    /\ Mixed \notin Evidence
    /\ MaxReflections \in Nat

VARIABLES
    tick,         \* memory/.reflect_count
    window,       \* memory/gate_window.json; a missing file reads as zeros
    skills,       \* [Name -> status in skill_state.json]
    file,         \* [status -> names with a SKILL.md in its directory]
    pc,           \* [Proc -> where it stands]
    count,        \* [Proc -> the count it returns from _reflect_tick]
    cands,        \* [Proc -> candidates still to write]
    round,        \* [Proc -> the comparisons of its own round]
    evid,         \* [Proc -> the evidence it decides on]
    verdict,      \* [Proc -> the status it decided on]
    copy,         \* [Proc -> the skill state it loaded]
    started,      \* how many reflections got this far
    reflections,  \* how many were counted
    inductions,   \* how many went on to induce
    evidence,     \* all the comparisons of rounds that were decided
    tickSound,    \* no two processes counted at once, and .reflect_count
                  \* could be opened by whoever counted
    gateSound,    \* no two decided at once, none was killed while it wrote
                  \* its decision, and all calls on gate_window.json worked
    stateSound    \* no two registered a skill at once, and whoever did could
                  \* read skill_state.json

shared == <<tick, window, skills, file>>
local == <<count, cands, round, evid, verdict, copy>>
sound == <<tickSound, gateSound, stateSound>>
ghost == <<started, reflections, inductions, evidence, sound>>
vars == <<shared, pc, local, ghost>>

Unreadable == {Empty, Mixed}
Dir == {"active", "candidate"}
NoRows == [both |-> 0, broke |-> 0, rescued |-> 0, neither |-> 0]

Init ==
    /\ tick = 0
    /\ window = NoEvidence
    /\ skills = [n \in Name |-> "none"]
    /\ file = [d \in Dir |-> {}]
    /\ pc = [p \in Proc |-> "idle"]
    /\ count = [p \in Proc |-> 0]
    /\ cands = [p \in Proc |-> <<>>]
    /\ round = [p \in Proc |-> NoRows]
    /\ evid = [p \in Proc |-> NoEvidence]
    /\ verdict = [p \in Proc |-> "candidate"]
    /\ copy = [p \in Proc |-> [n \in Name |-> "none"]]
    /\ started = 0 /\ reflections = 0 /\ inductions = 0
    /\ evidence = NoEvidence
    /\ tickSound = TRUE /\ gateSound = TRUE /\ stateSound = TRUE

Goto(p, from, to) == pc[p] = from /\ pc' = [pc EXCEPT ![p] = to]

\* The locals of a process die with it; a local that is not read again is
\* reset where it was read last.
Forget(p) ==
    /\ count' = [count EXCEPT ![p] = 0]
    /\ cands' = [cands EXCEPT ![p] = <<>>]
    /\ round' = [round EXCEPT ![p] = NoRows]
    /\ evid' = [evid EXCEPT ![p] = NoEvidence]
    /\ verdict' = [verdict EXCEPT ![p] = "candidate"]
    /\ copy' = [copy EXCEPT ![p] = [n \in Name |-> "none"]]

-----------------------------------------------------------------------------
\* _reflect_tick: read, truncate, write.  What cannot be read or does not parse
\* counts as 0; when the file cannot be opened or written, the process goes on
\* with the count it has.

Ticking == {"tickOpen", "tickWrite"}

TickRead(p) ==
    /\ started < MaxReflections
    /\ started' = started + 1
    /\ Goto(p, "idle", "tickOpen")
    /\ \E n \in {IF tick = Empty THEN 0 ELSE tick} \cup (IF MayFailIO THEN {0} ELSE {}) :
         count' = [count EXCEPT ![p] = n + 1]
    /\ tickSound' = (tickSound /\ \A q \in Proc : pc[q] \notin Ticking)
    /\ UNCHANGED <<shared, cands, round, evid, verdict, copy,
                   reflections, inductions, evidence, gateSound, stateSound>>

TickOpen(p) ==
    /\ Goto(p, "tickOpen", "tickWrite")
    /\ tick' = Empty
    /\ UNCHANGED <<window, skills, file, local, ghost>>

\* Mutant of TakesTurn: the count starts at the turn it should reach.
TakesTurnEarly(p) ==
    /\ reflections' = reflections + 1
    /\ UNCHANGED <<window, skills, file, started, evidence, gateSound, stateSound>>
    /\ \/ /\ (count[p] + 1) % Every # 0
          /\ pc' = [pc EXCEPT ![p] = "idle"]
          /\ Forget(p)
          /\ UNCHANGED inductions
       \/ /\ (count[p] + 1) % Every = 0
          /\ pc' = [pc EXCEPT ![p] = "induce"]
          /\ inductions' = inductions + 1
          /\ count' = [count EXCEPT ![p] = 0]
          /\ UNCHANGED <<cands, round, evid, verdict, copy>>

\* _reflect_tick has returned: only every Nth count goes on.
TakesTurn(p) ==
    /\ reflections' = reflections + 1
    /\ UNCHANGED <<window, skills, file, started, evidence, gateSound, stateSound>>
    /\ \/ /\ count[p] % Every # 0
          /\ pc' = [pc EXCEPT ![p] = "idle"]
          /\ Forget(p)
          /\ UNCHANGED inductions
       \/ /\ count[p] % Every = 0
          /\ pc' = [pc EXCEPT ![p] = "induce"]
          /\ inductions' = inductions + 1
          /\ count' = [count EXCEPT ![p] = 0]
          /\ UNCHANGED <<cands, round, evid, verdict, copy>>

TickOpenFails(p) ==
    /\ MayFailIO
    /\ pc[p] = "tickOpen"
    /\ tickSound' = FALSE
    /\ UNCHANGED tick
    /\ TakesTurn(p)

TickWrite(p) ==
    /\ pc[p] = "tickWrite"
    /\ tick' \in {count[p]} \cup (IF tick = Empty THEN {} ELSE MixedTicks)
    /\ UNCHANGED tickSound
    /\ TakesTurn(p)

TickWriteFails(p) ==
    /\ MayFailIO
    /\ pc[p] = "tickWrite"
    /\ UNCHANGED <<tick, tickSound>>
    /\ TakesTurn(p)

-----------------------------------------------------------------------------
\* induce.induce and the gate

\* No skill worth proposing, or the call raised (reflect.run catches it).
InduceNothing(p) ==
    /\ Goto(p, "induce", "idle")
    /\ Forget(p)
    /\ UNCHANGED <<shared, ghost>>

PickCandidates(p) ==
    /\ \E cl \in CandidateLists \ {<<>>} : cands' = [cands EXCEPT ![p] = cl]
    /\ verdict' = [verdict EXCEPT ![p] = "candidate"]
    /\ UNCHANGED <<shared, count, round, evid, copy, ghost>>

\* Mutant of InduceUngated: without replay cases the candidates go live.
InduceLive(p) ==
    /\ Goto(p, "induce", "skillWrite")
    /\ \E cl \in CandidateLists \ {<<>>} : cands' = [cands EXCEPT ![p] = cl]
    /\ verdict' = [verdict EXCEPT ![p] = "active"]
    /\ UNCHANGED <<shared, count, round, evid, copy, ghost>>

\* memory/replay holds no case: the candidates are staged ...
InduceUngated(p) ==
    /\ Goto(p, "induce", "skillWrite")
    /\ PickCandidates(p)

\* ... it holds some: they go to the gate.
InduceGated(p) ==
    /\ Goto(p, "induce", "gateRead")
    /\ PickCandidates(p)

Gated == {"gateOpen", "gateWrite"}

\* The A/B over the replay cases, and the counters as the file has them; a read
\* that fails is swallowed like a text that does not parse.
GateRead(p) ==
    /\ Goto(p, "gateRead", "gateOpen")
    /\ \E r \in RoundChoices, failed \in IF MayFailIO THEN BOOLEAN ELSE {FALSE} :
         /\ round' = [round EXCEPT ![p] = r]
         /\ evid' = [evid EXCEPT ![p] =
                       Accumulated(IF failed \/ window \in Unreadable
                                   THEN NoEvidence ELSE window, r)]
         /\ gateSound' = (gateSound /\ ~failed /\ \A q \in Proc : pc[q] \notin Gated)
    /\ UNCHANGED <<shared, count, cands, verdict, copy,
                   started, reflections, inductions, evidence, tickSound, stateSound>>

GateOpen(p) ==
    /\ Goto(p, "gateOpen", "gateWrite")
    /\ window' = Empty
    /\ UNCHANGED <<tick, skills, file, local, ghost>>

\* The decision on the counters in memory, whatever became of the file.
Decides(p) ==
    /\ pc' = [pc EXCEPT ![p] = "skillWrite"]
    /\ evidence' = Accumulated(evidence, round[p])
    /\ verdict' = [verdict EXCEPT ![p] =
                     IF Accepts(evid[p]) THEN "active" ELSE "candidate"]
    /\ round' = [round EXCEPT ![p] = NoRows]
    /\ evid' = [evid EXCEPT ![p] = NoEvidence]
    /\ UNCHANGED <<tick, skills, file, count, cands, copy,
                   started, reflections, inductions, tickSound, stateSound>>

GateOpenFails(p) ==
    /\ MayFailIO
    /\ pc[p] = "gateOpen"
    /\ gateSound' = FALSE
    /\ UNCHANGED window
    /\ Decides(p)

\* Mutant of GateWrite: the round is decided and not added to the window.
GateWriteNothing(p) ==
    /\ pc[p] = "gateWrite"
    /\ window' = NoEvidence
    /\ UNCHANGED gateSound
    /\ Decides(p)

GateWrite(p) ==
    /\ pc[p] = "gateWrite"
    /\ window' \in {evid[p]} \cup (IF window = Empty THEN {} ELSE {Mixed})
    /\ UNCHANGED gateSound
    /\ Decides(p)

GateWriteFails(p) ==
    /\ MayFailIO
    /\ pc[p] = "gateWrite"
    /\ gateSound' = FALSE
    /\ UNCHANGED window
    /\ Decides(p)

-----------------------------------------------------------------------------
\* induce.write_skill for the first candidate: SKILL.md in place, then the
\* skill state, read and replaced as a whole.  A read that fails is an empty
\* state; any other call that fails raises (Crash).

\* Mutant of SkillWrite: a candidate always goes to the staging directory.
SkillWriteStaged(p) ==
    /\ Goto(p, "skillWrite", "stateLoad")
    /\ file' = [file EXCEPT !["candidate"] = @ \cup {Head(cands[p])}]
    /\ UNCHANGED <<tick, window, skills, local, ghost>>

SkillWrite(p) ==
    /\ Goto(p, "skillWrite", "stateLoad")
    /\ file' = [file EXCEPT ![verdict[p]] = @ \cup {Head(cands[p])}]
    /\ UNCHANGED <<tick, window, skills, local, ghost>>

\* Mutant of StateLoad: the state is written from scratch.
StateLoadNothing(p) ==
    /\ Goto(p, "stateLoad", "stateSave")
    /\ copy' = [copy EXCEPT ![p] = [n \in Name |-> "none"]]
    /\ UNCHANGED <<shared, count, cands, round, evid, verdict, ghost>>

StateLoad(p) ==
    /\ Goto(p, "stateLoad", "stateSave")
    /\ \E failed \in IF MayFailIO THEN BOOLEAN ELSE {FALSE} :
         /\ copy' = [copy EXCEPT ![p] = [n \in Name |-> IF failed THEN "none" ELSE skills[n]]]
         /\ stateSound' = (stateSound /\ ~failed /\ \A q \in Proc : pc[q] # "stateSave")
    /\ UNCHANGED <<shared, count, cands, round, evid, verdict,
                   started, reflections, inductions, evidence, tickSound, gateSound>>

StateSave(p) ==
    /\ pc[p] = "stateSave"
    /\ skills' = [copy[p] EXCEPT ![Head(cands[p])] = verdict[p]]
    /\ UNCHANGED <<tick, window, file, ghost>>
    /\ \/ /\ Tail(cands[p]) = <<>>
          /\ Goto(p, "stateSave", "idle")
          /\ Forget(p)
       \/ /\ Tail(cands[p]) # <<>>
          /\ Goto(p, "stateSave", "skillWrite")
          /\ cands' = [cands EXCEPT ![p] = Tail(@)]
          /\ copy' = [copy EXCEPT ![p] = [n \in Name |-> "none"]]
          /\ UNCHANGED <<count, round, evid, verdict>>

-----------------------------------------------------------------------------

\* The process is killed, or one of its calls raises.
Crash(p) ==
    /\ MayCrash
    /\ pc[p] # "idle"
    /\ pc' = [pc EXCEPT ![p] = "idle"]
    /\ Forget(p)
    /\ gateSound' = (gateSound /\ pc[p] # "gateWrite")
    /\ UNCHANGED <<shared, started, reflections, inductions, evidence, tickSound, stateSound>>

ReflectTick(p) ==
    \/ TickRead(p)
    \/ TickOpen(p) \/ TickOpenFails(p)
    \/ TickWrite(p) \/ TickWriteFails(p)

RollingDecision(p) ==
    \/ GateRead(p)
    \/ GateOpen(p) \/ GateOpenFails(p)
    \/ GateWrite(p) \/ GateWriteFails(p)

WriteSkill(p) == SkillWrite(p) \/ StateLoad(p) \/ StateSave(p)

Next ==
    \E p \in Proc :
        \/ ReflectTick(p)
        \/ InduceNothing(p) \/ InduceUngated(p) \/ InduceGated(p)
        \/ RollingDecision(p)
        \/ WriteSkill(p)
        \/ Crash(p)

Spec == Init /\ [][Next]_vars

-----------------------------------------------------------------------------

Writing == {"skillWrite", "stateLoad", "stateSave"}

\* Every variable has its type.
TypeOK ==
    /\ tick \in Nat \cup {Empty}
    /\ window \in Evidence \cup Unreadable
    /\ skills \in [Name -> Dir \cup {"none"}]
    /\ file \in [Dir -> SUBSET Name]
    /\ pc \in [Proc -> {"idle", "induce", "gateRead"} \cup Ticking \cup Gated \cup Writing]
    /\ count \in [Proc -> Nat]
    /\ cands \in [Proc -> Seq(Name)]
    /\ round \in [Proc -> Rows]
    /\ evid \in [Proc -> Evidence]
    /\ verdict \in [Proc -> Dir]
    /\ copy \in [Proc -> [Name -> Dir \cup {"none"}]]
    /\ started \in Nat /\ reflections \in Nat /\ inductions \in Nat
    /\ evidence \in Evidence
    /\ tickSound \in BOOLEAN /\ gateSound \in BOOLEAN /\ stateSound \in BOOLEAN

\* However processes race on gate_window.json and wherever one dies, the
\* counters in it agree with one another: the accept rule never compares the
\* passes of one history with the rescues of another.
WindowBalanced == window \notin Unreadable => Balanced(window)

\* "Never auto-activate blind" (consolidate_deploy): when SKILL.md of a skill
\* stands in the live directory, as many comparisons were made as the rule
\* asks for, and as many of them were rescues as the margin asks for.
NeverBlind ==
    file["active"] # {} => Powered(evidence) /\ evidence.rescued >= Margin

\* No crash and no race leaves a status in skill_state.json for a skill whose
\* SKILL.md is not in the directory of that status (retrieval would find none).
StatusHasFile ==
    \A n \in Name : skills[n] # "none" => n \in file[skills[n]]

\* Consolidation is frequency-gated: only every Nth reflection pays for an
\* induction (promote.py, DEPLOY_INDUCE_EVERY) ...
EveryNthOnly == inductions * Every <= reflections

\* ... as long as no two processes count at once and .reflect_count can be
\* opened: a process killed anywhere, a truncated file, a failing read and a
\* failing write put an induction off and never bring one forward.
PacedInductions == tickSound => EveryNthOnly

\* A skill goes live on the comparisons of all rounds so far: rolling_decision
\* accumulates them across checkpoints ...
AccumulatesAllRounds ==
    [][\A p \in Proc :
         pc[p] \in Gated /\ verdict'[p] = "active" => Accepts(evidence')]_vars

\* ... as long as every decision before it was written, on its own and to its
\* end, whatever other processes do in the meantime to the other files and
\* wherever else one is killed.
DecidesOnAllEvidence ==
    [][\A p \in Proc :
         pc[p] \in Gated /\ verdict'[p] = "active" /\ gateSound
             => Accepts(evidence')]_vars

\* Consolidation adds and replaces skills and forgets none: as long as no two
\* processes register a skill at once and skill_state.json can be read, no save
\* of the whole file drops an entry, also one of a process that was killed
\* before it was through its candidates.
RegistrationSurvives ==
    [][stateSound => \A n \in Name : skills[n] # "none" => skills'[n] # "none"]_vars

-----------------------------------------------------------------------------
\* The inductive invariant behind the safety properties, by parts.

EvidenceBalanced == \A p \in Proc : Balanced(evid[p])

\* Nobody counts a comparison that no gate made: a race or a crash loses
\* evidence and never invents it.
WindowEarned == window \notin Unreadable => PartOf(window, evidence)

EvidenceEarned(p) ==
    pc[p] \in Gated => PartOf(evid[p], Accumulated(evidence, round[p]))

VerdictEarned(p) ==
    pc[p] \in Writing /\ verdict[p] = "active"
        => Powered(evidence) /\ evidence.rescued >= Margin

HasCandidate(p) == pc[p] \in {"gateRead"} \cup Gated \cup Writing => cands[p] # <<>>

FileWritten(p) ==
    pc[p] \in {"stateLoad", "stateSave"} => Head(cands[p]) \in file[verdict[p]]

CopyHasFile(p) ==
    pc[p] = "stateSave" =>
        \A n \in Name : copy[p][n] # "none" => n \in file[copy[p][n]]

IInv ==
    /\ TypeOK
    /\ WindowBalanced
    /\ EvidenceBalanced
    /\ WindowEarned
    /\ NeverBlind
    /\ StatusHasFile
    /\ \A p \in Proc : EvidenceEarned(p)
    /\ \A p \in Proc : VerdictEarned(p)
    /\ \A p \in Proc : HasCandidate(p)
    /\ \A p \in Proc : FileWritten(p)
    /\ \A p \in Proc : CopyHasFile(p)

-----------------------------------------------------------------------------
\* The invariants behind the properties with a premise.

\* How many counts have passed since the last turn to induce.
Turn(n) == n % Every
OnFile == IF tick = Empty THEN 0 ELSE tick

\* The file and whoever counts are never nearer to a turn than the reflections.
TickInv ==
    tickSound =>
        /\ inductions * Every + Turn(OnFile) <= reflections
        /\ \A p, q \in Proc : pc[p] \in Ticking /\ pc[q] \in Ticking => p = q
        /\ \A p \in Proc : pc[p] = "tickWrite" => tick = Empty
        /\ \A p \in Proc :
             pc[p] \in Ticking =>
                 count[p] > 0 /\ inductions * Every + Turn(count[p] - 1) <= reflections

\* The file has all the evidence, or the one that rewrites it has.
GateInv ==
    /\ \A p \in Proc : pc[p] \in {"gateRead"} \cup Gated => verdict[p] = "candidate"
    /\ gateSound =>
        /\ \A p, q \in Proc : pc[p] \in Gated /\ pc[q] \in Gated => p = q
        /\ (\A p \in Proc : pc[p] # "gateWrite") => window = evidence
        /\ \A p \in Proc :
             /\ pc[p] \in Gated => evid[p] = Accumulated(evidence, round[p])
             /\ pc[p] = "gateWrite" => window = Empty

\* The one that saves the state has all of it.
StateInv ==
    stateSound =>
        /\ \A p, q \in Proc : pc[p] = "stateSave" /\ pc[q] = "stateSave" => p = q
        /\ \A p \in Proc : pc[p] = "stateSave" => copy[p] = skills
=============================================================================
