---------------------------- MODULE RepairProofs ----------------------------
(***************************************************************************)
(* Proofs about MonotoneRepair, for every set of answers, every check and  *)
(* every number of rounds; then about TaskSolve, for every budget and any  *)
(* number of retries: a task is solved by steps of MonotoneRepair, so that *)
(* what is proved of the loop holds of it.                                 *)
(***************************************************************************)
EXTENDS TaskSolve, TLAPS

-----------------------------------------------------------------------------
\* The inductive invariant, by parts.

\* The result is the single-shot answer while the loop runs.
KeepsBaseline == pc # "done" => result = resp

\* A repair that was adopted is one the check may pass.
PassedByCheck == result # resp => "ok" \in verdicts[result]

\* Every call belongs to a round.
CallsCounted ==
    /\ ncalls <= round
    /\ pc \in {"call", "reverify"} => ncalls < round

\* Nothing has happened before the target answers.
Untouched ==
    pc = "target" =>
        /\ result = resp /\ cur = resp /\ cand = resp
        /\ trace = <<>> /\ ncalls = 0

LastAttempt == IF trace = <<>> THEN resp ELSE trace[Len(trace)].after

\* The loop goes on from the last attempt of the trace ...
GoesOnFromLast == pc \in {"verify", "loop", "call", "reverify"} => cur = LastAttempt

\* ... and judges it.
JudgesLast ==
    pc = "judge" =>
        /\ trace # <<>>
        /\ trace[Len(trace)].after = cand
        /\ candVr \in verdicts[cand]

IInv ==
    /\ TypeOK /\ AdoptsOnlyPassing /\ ChainedTrace
    /\ KeepsBaseline /\ PassedByCheck /\ CallsCounted
    /\ Untouched /\ GoesOnFromLast /\ JudgesLast

-----------------------------------------------------------------------------

\* Appending a repair to a trace keeps what is there and puts it last.
LEMMA TraceGrows ==
    ASSUME NEW tr \in Seq([before : Answer, after : Answer]),
           NEW x \in Answer, NEW y \in Answer
    PROVE  LET more == Append(tr, [before |-> x, after |-> y])
           IN  /\ more \in Seq([before : Answer, after : Answer])
               /\ Len(more) = Len(tr) + 1 /\ Len(tr) \in Nat
               /\ more # <<>>
               /\ \A k \in 1 .. Len(tr) : more[k] = tr[k]
               /\ more[Len(more)].before = x
               /\ more[Len(more)].after = y
<1> DEFINE pair == [before |-> x, after |-> y]
           more == Append(tr, pair)
<1>1. pair \in [before : Answer, after : Answer] /\ pair.before = x /\ pair.after = y
  OBVIOUS
<1> HIDE DEF pair
<1>2. /\ more \in Seq([before : Answer, after : Answer])
      /\ Len(more) = Len(tr) + 1 /\ Len(tr) \in Nat
      /\ more # <<>>
      /\ \A k \in 1 .. Len(tr) : more[k] = tr[k]
      /\ more[Len(more)] = pair
  BY <1>1
<1>3. QED
  BY <1>1, <1>2 DEF pair

LEMMA InitHolds == Init => IInv
BY RepairAssumption
   DEF Init, IInv, TypeOK, AdoptsOnlyPassing, ChainedTrace, KeepsBaseline,
       PassedByCheck, CallsCounted, GoesOnFromLast, LastAttempt, JudgesLast,
       Untouched, Budgets, Verdict

\* The first call, whether it answers or raises.
LEMMA TargetKeeps ==
    ASSUME IInv, Target \/ TargetRaises
    PROVE  IInv'
<1>1. /\ pc = "target" /\ pc' \in {"verify", "done"}
      /\ result' = resp' /\ cur' = resp' /\ cand' = resp'
      /\ resp' \in Answer
      /\ UNCHANGED <<verdicts, budget, vr, candVr, round, ncalls, trace>>
  BY DEF IInv, TypeOK, Untouched, Target, TargetRaises, AfterTarget
<1>2. trace = <<>> /\ ncalls = 0
  BY <1>1 DEF IInv, Untouched
<1>3. TypeOK'
  BY <1>1 DEF IInv, TypeOK
<1>4. AdoptsOnlyPassing' /\ KeepsBaseline' /\ PassedByCheck' /\ Untouched'
  BY <1>1 DEF AdoptsOnlyPassing, KeepsBaseline, PassedByCheck, Untouched
<1>5. ChainedTrace'
  BY <1>1, <1>2 DEF ChainedTrace
<1>6. CallsCounted'
  BY <1>1 DEF IInv, CallsCounted
<1>7. GoesOnFromLast' /\ JudgesLast'
  BY <1>1, <1>2 DEF GoesOnFromLast, LastAttempt, JudgesLast
<1>8. QED
  BY <1>3, <1>4, <1>5, <1>6, <1>7 DEF IInv

\* The steps that leave the trace and the result alone.
LEMMA StepBesideTrace ==
    ASSUME IInv, Verify \/ Stop \/ Round \/ RepairCall \/ RepairCallRaises
                   \/ GiveUp \/ Iterate
    PROVE  IInv'
<1>1. TypeOK'
  BY RepairAssumption
     DEF IInv, TypeOK, Budgets, CallsCounted, Verdict, Verify, Stop, Round, RepairCall,
         RepairCallRaises, GiveUp, Iterate
<1>2. UNCHANGED <<verdicts, budget, trace, result, resp, ncalls>>
  BY DEF Verify, Stop, Round, RepairCall, RepairCallRaises, GiveUp, Iterate
<1>3. AdoptsOnlyPassing' /\ KeepsBaseline' /\ PassedByCheck' /\ ChainedTrace'
  <2>1. result = resp
    BY DEF IInv, KeepsBaseline, Verify, Stop, Round, RepairCall,
           RepairCallRaises, GiveUp, Iterate
  <2>2. QED
    BY <1>2, <2>1
       DEF IInv, AdoptsOnlyPassing, KeepsBaseline, PassedByCheck, ChainedTrace
<1>4. CallsCounted'
  BY RepairAssumption DEF IInv, TypeOK, Budgets, CallsCounted, Verify, Stop, Round, RepairCall,
         RepairCallRaises, GiveUp, Iterate
<1>5. GoesOnFromLast'
  BY <1>2 DEF IInv, GoesOnFromLast, LastAttempt, JudgesLast, Verify, Stop, Round,
         RepairCall, RepairCallRaises, GiveUp, Iterate
<1>6. JudgesLast' /\ Untouched'
  BY DEF JudgesLast, Untouched, Verify, Stop, Round, RepairCall, RepairCallRaises,
         GiveUp, Iterate
<1>7. QED
  BY <1>1, <1>3, <1>4, <1>5, <1>6 DEF IInv

\* The step that adds to the trace.
LEMMA ReverifyKeeps ==
    ASSUME IInv, Reverify
    PROVE  IInv'
<1>1. TypeOK /\ ChainedTrace /\ CallsCounted /\ result = resp /\ cur = LastAttempt
        /\ pc = "reverify"
  BY DEF IInv, KeepsBaseline, GoesOnFromLast, Reverify
<1>2. /\ trace' \in Seq([before : Answer, after : Answer])
      /\ Len(trace') = Len(trace) + 1 /\ Len(trace) \in Nat
      /\ trace' # <<>>
      /\ \A k \in 1 .. Len(trace) : trace'[k] = trace[k]
      /\ trace'[Len(trace')].before = cur
      /\ trace'[Len(trace')].after = cand
  <2>1. /\ trace \in Seq([before : Answer, after : Answer])
        /\ cur \in Answer /\ cand \in Answer
    BY <1>1 DEF TypeOK
  <2>2. trace' = Append(trace, [before |-> cur, after |-> cand])
    BY DEF Reverify
  <2>3. QED
    BY <2>1, <2>2, TraceGrows
<1>3. /\ UNCHANGED <<verdicts, budget, resp, result, cur, vr, cand, round>>
      /\ pc' = "judge" /\ ncalls' = ncalls + 1 /\ candVr' \in verdicts[cand]
  BY DEF Reverify
<1>4. TypeOK'
  BY <1>1, <1>2, <1>3, RepairAssumption DEF TypeOK, Budgets, CallsCounted
<1>5. ChainedTrace'
  <2>1. SUFFICES ASSUME NEW k \in 1 .. Len(trace')
                 PROVE  trace'[k].before =
                          IF k = 1 THEN resp ELSE trace'[k - 1].after
    BY <1>1, <1>2, <1>3 DEF ChainedTrace
  <2>2. CASE k \in 1 .. Len(trace)
    <3>1. trace'[k] = trace[k] /\ (k # 1 => trace'[k - 1] = trace[k - 1])
      BY <1>2, <2>2
    <3>2. QED
      BY <1>1, <2>2, <3>1 DEF ChainedTrace
  <2>3. CASE k = Len(trace) + 1
    <3>1. CASE Len(trace) = 0
      BY <1>1, <1>2, <2>3, <3>1 DEF LastAttempt, TypeOK
    <3>2. CASE Len(trace) # 0
      <4>1. trace # <<>> /\ trace'[Len(trace)] = trace[Len(trace)]
        BY <1>1, <1>2, <3>2
      <4>2. QED
        BY <1>1, <1>2, <2>3, <3>2, <4>1 DEF LastAttempt
    <3>3. QED
      BY <3>1, <3>2
  <2>4. QED
    BY <1>2, <2>2, <2>3
<1>6. AdoptsOnlyPassing' /\ KeepsBaseline' /\ PassedByCheck' /\ GoesOnFromLast'
  BY <1>1, <1>3 DEF AdoptsOnlyPassing, KeepsBaseline, PassedByCheck, GoesOnFromLast
<1>7. CallsCounted'
  BY <1>1, <1>3, RepairAssumption DEF CallsCounted, TypeOK, Budgets
<1>8. JudgesLast' /\ Untouched'
  BY <1>2, <1>3 DEF JudgesLast, Untouched
<1>9. QED
  BY <1>4, <1>5, <1>6, <1>7, <1>8 DEF IInv

\* The only step that changes the result: the check has passed the repair.
LEMMA AdoptKeeps ==
    ASSUME IInv, Adopt
    PROVE  IInv'
<1>1. /\ pc' = "done" /\ result' = cand /\ candVr = "ok" /\ pc = "judge"
      /\ UNCHANGED <<verdicts, budget, resp, cur, vr, cand, candVr, round, ncalls, trace>>
  BY DEF Adopt
<1>2. TypeOK'
  BY <1>1 DEF IInv, TypeOK
<1>3. AdoptsOnlyPassing' /\ PassedByCheck'
  BY <1>1 DEF IInv, JudgesLast, AdoptsOnlyPassing, PassedByCheck
<1>4. ChainedTrace' /\ CallsCounted'
  BY <1>1 DEF IInv, ChainedTrace, CallsCounted
<1>5. KeepsBaseline' /\ GoesOnFromLast' /\ JudgesLast' /\ Untouched'
  BY <1>1 DEF KeepsBaseline, GoesOnFromLast, JudgesLast, Untouched
<1>6. QED
  BY <1>2, <1>3, <1>4, <1>5 DEF IInv

LEMMA StepKeeps == IInv /\ [Next]_vars => IInv'
<1> SUFFICES ASSUME IInv, [Next]_vars PROVE IInv'
  OBVIOUS
<1>1. CASE UNCHANGED vars
  BY <1>1 DEF vars, IInv, TypeOK, AdoptsOnlyPassing, ChainedTrace, KeepsBaseline,
       Untouched, PassedByCheck, CallsCounted, GoesOnFromLast, LastAttempt, JudgesLast
<1>2. QED
  BY <1>1, TargetKeeps, StepBesideTrace, ReverifyKeeps, AdoptKeeps DEF Next, Done

LEMMA AlwaysIInv == Spec => []IInv
BY InitHolds, StepKeeps, PTL DEF Spec

-----------------------------------------------------------------------------

\* The values of the loop have their types, and it makes no more calls than
\* repair_turns.
THEOREM RepairTypeCorrect == Spec => []TypeOK
<1>1. IInv => TypeOK
  BY DEF IInv
<1>2. QED
  BY <1>1, AlwaysIInv, PTL

\* THE INVARIANT of the docstring of monotone_repair: what is returned is the
\* single-shot answer or a repair the check has passed, the last of the trace.
THEOREM OnlyPassingIsAdopted == Spec => []AdoptsOnlyPassing
<1>1. IInv => AdoptsOnlyPassing
  BY DEF IInv
<1>2. QED
  BY <1>1, AlwaysIInv, PTL

\* The trace that reflection learns from is one path from the first answer.
THEOREM TraceIsChained == Spec => []ChainedTrace
<1>1. IInv => ChainedTrace
  BY DEF IInv
<1>2. QED
  BY <1>1, AlwaysIInv, PTL

\* The loop stays at or above the single-shot baseline if the check passes
\* nothing wrong; that it rejects what is right does not matter.  (Of a check
\* that errs both ways the docstring's claim is false: see the run that shows
\* it.)
THEOREM PreciseCheckKeepsBaseline == Spec => []NeverBelowBaseline
<1>1. IInv => NeverBelowBaseline
  BY DEF IInv, TypeOK, PassedByCheck, NeverBelowBaseline, NeverDropsBelow, Precise
<1>2. QED
  BY <1>1, AlwaysIInv, PTL

-----------------------------------------------------------------------------
\* The inductive invariant, beyond that of the loop.

\* A check is under way only while the loop waits for one, and the critique is
\* asked by the routes that may ask it.
CheckBelongs ==
    /\ check # "idle" => Checking
    /\ check \in {"critique", "conclude"} => mode # "oracle"
    /\ check = "critique" => mode # "self_exec"

\* The check of a route says what the table says.
TableOfRoute == mode # "oracle" => verdicts = Routed(mode)

\* What self_verify has found out is what the run and the critique said.
FoundOut ==
    check \in {"critique", "conclude"} =>
        /\ execd = Exec[Attempt]
        /\ execd = "pass" => had /\ ~failed
        /\ execd = "crash" => had /\ failed
        /\ mode = "self_exec" /\ execd = "none" => ~had

SolveIInv ==
    /\ IInv /\ SolveTypeOK /\ CheckBelongs /\ TableOfRoute
    /\ FoundOut /\ VerdictAsRouted /\ CostAccounted

-----------------------------------------------------------------------------

\* Every step is one of the loop, or leaves it alone.
LEMMA StepOfLoop == [SolveNext]_solveVars => [Next]_vars
BY DEF SolveNext, Between, AttemptFails, SolveAnswers, SolveRaises, Oracle,
       Probe, Critique, CritiqueRaises, Conclude, Deliver, Next, solveVars

LEMMA SolveInitHolds == SolveInit => SolveIInv
<1> SUFFICES ASSUME SolveInit PROVE SolveIInv
  OBVIOUS
<1>1. IInv
  BY InitHolds DEF SolveInit
<1>2. SolveTypeOK
  <2>1. had \in BOOLEAN /\ failed \in BOOLEAN
    BY Zenon DEF SolveInit
  <2>2. tries \in 0 .. MaxRetries /\ ledger \in Nat /\ cost \in Nat
    BY SolveAssumption DEF SolveInit, MaxRetries
  <2>3. QED
    BY <1>1, <2>1, <2>2 DEF SolveInit, SolveTypeOK, IInv, Verdict
<1>3. CheckBelongs /\ TableOfRoute /\ FoundOut /\ VerdictAsRouted /\ CostAccounted
  BY DEF SolveInit, CheckBelongs, TableOfRoute, FoundOut, VerdictAsRouted,
         CostAccounted
<1>4. QED
  BY <1>1, <1>2, <1>3 DEF SolveIInv

\* What a call does to the books.
LEMMA BooksKept ==
    ASSUME SolveTypeOK, CostAccounted,
           NEW parsed \in BOOLEAN, NEW counted \in BOOLEAN,
           Billed(parsed, counted), UNCHANGED <<mode, wantCost>>,
           mode \in {"oracle", "self_exec"} /\ wantCost => counted
    PROVE  /\ tries' \in 0 .. MaxRetries /\ ledger' \in Nat /\ cost' \in Nat
           /\ CostAccounted'
BY SolveAssumption DEF SolveTypeOK, CostAccounted, Billed, MaxRetries

\* A step of the loop that is not one of a check starts and ends outside one.
LEMMA OutsideChecks ==
    ASSUME SolveIInv, Between \/ SolveAnswers \/ SolveRaises
    PROVE  /\ CheckBelongs' /\ TableOfRoute' /\ FoundOut' /\ VerdictAsRouted'
           /\ check = "idle" /\ UNCHANGED <<mode, wantCost, checkVars, verdicts, budget>>
<1>1. UNCHANGED <<mode, wantCost, checkVars, verdicts, budget>>
  BY DEF Between, SolveAnswers, SolveRaises, Stop, Round, Adopt, GiveUp,
         Iterate, Done, vars, Target, RepairCall, TargetRaises, RepairCallRaises
<1>2. ~Checking
  BY DEF Between, SolveAnswers, SolveRaises, Stop, Round, Adopt, GiveUp,
         Iterate, Done, Target, RepairCall, TargetRaises, RepairCallRaises,
         Checking
<1>3. check = "idle" /\ check' = "idle"
  BY <1>1, <1>2 DEF SolveIInv, CheckBelongs, checkVars
<1>4. QED
  BY <1>1, <1>3
     DEF SolveIInv, CheckBelongs, TableOfRoute, FoundOut, VerdictAsRouted

LEMMA LoopStep ==
    ASSUME SolveIInv, IInv', Between \/ SolveAnswers \/ SolveRaises
    PROVE  SolveIInv'
<1>1. /\ CheckBelongs' /\ TableOfRoute' /\ FoundOut' /\ VerdictAsRouted'
      /\ UNCHANGED <<mode, wantCost, checkVars>>
  BY OutsideChecks
<1>2. /\ tries' \in 0 .. MaxRetries /\ ledger' \in Nat /\ cost' \in Nat
      /\ CostAccounted'
  <2>1. CASE Between
    BY <1>1, <2>1 DEF SolveIInv, SolveTypeOK, CostAccounted, Between, callVars
  <2>2. CASE SolveRaises
    BY <1>1, <2>2, SolveAssumption
       DEF SolveIInv, SolveTypeOK, CostAccounted, SolveRaises, Exhausted, MaxRetries
  <2>3. CASE SolveAnswers
    <3>1. PICK parsed \in BOOLEAN : Billed(parsed, wantCost \/ mode = "native")
      BY <2>3 DEF SolveAnswers
    <3> DEFINE counted == wantCost \/ mode = "native"
    <3>2. counted \in BOOLEAN
      BY DEF SolveIInv, SolveTypeOK
    <3>3. QED
      BY <1>1, <3>1, <3>2, BooksKept DEF SolveIInv
  <2>4. QED
    BY <2>1, <2>2, <2>3
<1>3. SolveTypeOK'
  BY <1>1, <1>2 DEF SolveIInv, SolveTypeOK, IInv, checkVars, MaxRetries
<1>4. QED
  BY <1>1, <1>2, <1>3 DEF SolveIInv

\* A failed attempt changes nothing but their number.
LEMMA AttemptStep ==
    ASSUME SolveIInv, IInv', AttemptFails
    PROVE  SolveIInv'
<1>1. /\ UNCHANGED <<vars, mode, wantCost, checkVars, ledger, cost>>
      /\ tries < MaxRetries /\ tries' = tries + 1
  BY DEF AttemptFails
<1>2. SolveTypeOK'
  BY <1>1, SolveAssumption
     DEF SolveIInv, SolveTypeOK, TypeOK, vars, checkVars, MaxRetries
<1>3. QED
  BY <1>1, <1>2
     DEF SolveIInv, CheckBelongs, TableOfRoute, FoundOut, VerdictAsRouted,
         CostAccounted, Checking, Attempt, vars, checkVars

\* The steps of a check that make no call.
LEMMA CheckStep ==
    ASSUME SolveIInv, IInv', Oracle \/ Probe \/ Conclude
    PROVE  SolveIInv'
<1>1. UNCHANGED <<vars, mode, wantCost, callVars>> /\ Attempt \in Answer
  BY DEF SolveIInv, SolveTypeOK, TypeOK, Attempt, Oracle, Probe, Conclude
<1>2. Checking' /\ UNCHANGED <<Attempt, verdicts>>
  BY <1>1 DEF SolveIInv, CheckBelongs, Checking, Attempt, vars, Oracle, Probe, Conclude
<1>3. CostAccounted' /\ TableOfRoute'
  BY <1>1, <1>2 DEF SolveIInv, CostAccounted, TableOfRoute, callVars
<1>4. CASE Oracle
  <2>1. /\ mode = "oracle" /\ check' = "said" /\ said' \in verdicts[Attempt]
        /\ UNCHANGED <<execd, had, failed>>
    BY <1>4 DEF Oracle
  <2>2. said' \in Verdict
    BY <1>1, <2>1 DEF SolveIInv, SolveTypeOK, TypeOK
  <2>3. SolveTypeOK'
    BY <1>1, <2>1, <2>2 DEF SolveIInv, SolveTypeOK, IInv, callVars, MaxRetries
  <2>4. CheckBelongs' /\ FoundOut' /\ VerdictAsRouted'
    BY <1>1, <1>2, <2>1 DEF CheckBelongs, FoundOut, VerdictAsRouted
  <2>5. QED
    BY <1>3, <2>3, <2>4 DEF SolveIInv
<1>5. CASE Probe
  <2>1. /\ mode # "oracle" /\ execd' = Exec[Attempt]
        /\ had' = (execd' # "none") /\ failed' = (execd' = "crash")
        /\ check' = IF mode = "self_both" \/ (mode = "self" /\ execd' = "none")
                    THEN "critique" ELSE "conclude"
        /\ said' = said
    BY <1>5 DEF Probe
  <2>2. execd' \in {"pass", "crash", "none"}
    BY <1>1, <2>1, SolveAssumption
  <2>3. had' \in BOOLEAN /\ failed' \in BOOLEAN
    BY <2>1
  <2>4. SolveTypeOK'
    BY <1>1, <2>1, <2>2, <2>3 DEF SolveIInv, SolveTypeOK, IInv, callVars, MaxRetries
  <2>5. CheckBelongs' /\ FoundOut' /\ VerdictAsRouted'
    BY <1>1, <1>2, <2>1, <2>2 DEF CheckBelongs, FoundOut, VerdictAsRouted
  <2>6. QED
    BY <1>3, <2>4, <2>5 DEF SolveIInv
<1>6. CASE Conclude
  <2>1. /\ check = "conclude" /\ check' = "said"
        /\ said' = IF ~had THEN "none" ELSE IF failed THEN "fail" ELSE "ok"
        /\ UNCHANGED <<execd, had, failed>>
    BY <1>6 DEF Conclude
  <2>2. said' \in Verdict
    BY <2>1 DEF Verdict
  <2>3. SolveTypeOK'
    BY <1>1, <2>1, <2>2 DEF SolveIInv, SolveTypeOK, IInv, callVars, MaxRetries
  <2>4. VerdictAsRouted'
    <3>1. verdicts[Attempt] = Routed(mode)[Attempt]
      BY <2>1 DEF SolveIInv, CheckBelongs, TableOfRoute
    <3>2. Routed(mode)[Attempt] =
            CASE Exec[Attempt] = "pass"  -> {"ok"}
              [] Exec[Attempt] = "crash" -> {"fail"}
              [] OTHER -> IF mode = "self_exec" THEN {"none"} ELSE Verdict
      BY <1>1 DEF Routed
    <3>3. said' \in verdicts[Attempt]
      BY <2>1, <2>2, <3>1, <3>2, <1>1, SolveAssumption
         DEF SolveIInv, FoundOut, SolveTypeOK
    <3>4. QED
      BY <1>2, <3>3 DEF VerdictAsRouted
  <2>5. CheckBelongs' /\ FoundOut'
    BY <1>2, <2>1 DEF CheckBelongs, FoundOut
  <2>6. QED
    BY <1>3, <2>3, <2>4, <2>5 DEF SolveIInv
<1>7. QED
  BY <1>4, <1>5, <1>6

\* The critique, whether it answers or not.
LEMMA CritiqueStep ==
    ASSUME SolveIInv, IInv', Critique \/ CritiqueRaises
    PROVE  SolveIInv'
<1>1. /\ UNCHANGED <<vars, mode, wantCost, execd, said>>
      /\ check = "critique" /\ check' = "conclude"
      /\ mode # "oracle" /\ mode # "self_exec"
  BY DEF SolveIInv, CheckBelongs, Critique, CritiqueRaises
<1>2. Checking' /\ UNCHANGED <<Attempt, verdicts>>
  BY <1>1 DEF SolveIInv, CheckBelongs, Checking, Attempt, vars
<1>3. had' \in BOOLEAN /\ failed' \in BOOLEAN
  BY DEF SolveIInv, SolveTypeOK, Critique, CritiqueRaises
<1>4. /\ tries' \in 0 .. MaxRetries /\ ledger' \in Nat /\ cost' \in Nat
      /\ CostAccounted'
  <2>1. CASE \E parsed \in BOOLEAN : Billed(parsed, FALSE)
    BY <1>1, <2>1, BooksKept DEF SolveIInv
  <2>2. CASE Exhausted
    BY <1>1, <2>2, SolveAssumption
       DEF SolveIInv, SolveTypeOK, CostAccounted, Exhausted, MaxRetries
  <2>3. QED
    BY <2>1, <2>2 DEF Critique, CritiqueRaises
<1>5. SolveTypeOK'
  BY <1>1, <1>3, <1>4 DEF SolveIInv, SolveTypeOK, IInv, MaxRetries
<1>6. FoundOut'
  BY <1>1, <1>2 DEF SolveIInv, SolveTypeOK, FoundOut, Critique, CritiqueRaises
<1>7. CheckBelongs' /\ TableOfRoute' /\ VerdictAsRouted'
  BY <1>1, <1>2 DEF SolveIInv, CheckBelongs, TableOfRoute, VerdictAsRouted
<1>8. QED
  BY <1>4, <1>5, <1>6, <1>7 DEF SolveIInv

LEMMA DeliverStep ==
    ASSUME SolveIInv, IInv', Deliver
    PROVE  SolveIInv'
<1>1. /\ UNCHANGED <<mode, wantCost, execd, had, failed, said, callVars, verdicts>>
      /\ check' = "idle"
  BY DEF Deliver, Verify, Reverify
<1>2. SolveTypeOK' /\ CostAccounted'
  BY <1>1 DEF SolveIInv, SolveTypeOK, IInv, callVars, CostAccounted, MaxRetries
<1>3. CheckBelongs' /\ TableOfRoute' /\ FoundOut' /\ VerdictAsRouted'
  BY <1>1 DEF SolveIInv, CheckBelongs, TableOfRoute, FoundOut, VerdictAsRouted
<1>4. QED
  BY <1>2, <1>3 DEF SolveIInv

LEMMA SolveStepKeeps == SolveIInv /\ [SolveNext]_solveVars => SolveIInv'
<1> SUFFICES ASSUME SolveIInv, [SolveNext]_solveVars PROVE SolveIInv'
  OBVIOUS
<1>1. IInv'
  BY StepOfLoop, StepKeeps DEF SolveIInv
<1>2. CASE UNCHANGED solveVars
  <2>1. SolveTypeOK'
    BY <1>1, <1>2
       DEF SolveIInv, SolveTypeOK, IInv, solveVars, checkVars, callVars, MaxRetries
  <2>2. QED
    BY <1>1, <1>2, <2>1
       DEF SolveIInv, CheckBelongs, TableOfRoute, FoundOut, VerdictAsRouted,
           CostAccounted, Checking, Attempt, solveVars, checkVars, callVars, vars
<1>3. QED
  BY <1>1, <1>2, LoopStep, AttemptStep, CheckStep, CritiqueStep, DeliverStep
     DEF SolveNext

LEMMA SolveAlways == SolveSpec => []SolveIInv
BY SolveInitHolds, SolveStepKeeps, PTL DEF SolveSpec

-----------------------------------------------------------------------------

\* Solving a task, with any check of the harness, is a run of the repair loop:
\* the channels and the retries add nothing the loop does not allow.
THEOREM SolveRunsTheLoop == SolveSpec => Init /\ [][Next]_vars
<1>1. SolveInit => Init
  BY DEF SolveInit
<1>2. QED
  BY <1>1, StepOfLoop, PTL DEF SolveSpec

\* Type correctness; no call is tried more often than its retries allow.
THEOREM SolveTypeCorrect == SolveSpec => []SolveTypeOK
<1>1. SolveIInv => SolveTypeOK
  BY DEF SolveIInv
<1>2. QED
  BY <1>1, SolveAlways, PTL

\* The verdict is that of the channel entitled to it: the critique cannot
\* overrule a run of the code, whatever it answers.
THEOREM RunIsAuthoritative == SolveSpec => []VerdictAsRouted
<1>1. SolveIInv => VerdictAsRouted
  BY DEF SolveIInv
<1>2. QED
  BY <1>1, SolveAlways, PTL

\* The cost in the row is in the ledger, and all of it where no critique is
\* asked.
THEOREM RowCostIsInLedger == SolveSpec => []CostAccounted
<1>1. SolveIInv => CostAccounted
  BY DEF SolveIInv
<1>2. QED
  BY <1>1, SolveAlways, PTL
=============================================================================
