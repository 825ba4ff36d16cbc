--------------------------- MODULE MonotoneRepair ---------------------------
(***************************************************************************)
(* The single-shot call of the evaluation harness and its repair loop      *)
(* (prequential.solve, monotone_repair): an answer that the check rejects  *)
(* is sent back to the model, as often as the method's budget allows, and  *)
(* a repair replaces the first answer only when the check passes it.  The  *)
(* check is a noisy judge: its verdict on an answer is one of several, and *)
(* may differ from one call to the next.                                   *)
(***************************************************************************)
EXTENDS Integers, Sequences

CONSTANTS
    Answer,    \* answers the model may give
    Blank,     \* the empty one, which stands for a call that raised
    Correct,   \* the ones the gold score accepts
    Checks,    \* the checks there may be: [Answer -> what it may say of it]
    Turns      \* repair_turns

Verdict == {"ok", "fail", "none"}

ASSUME RepairAssumption ==
    /\ Blank \in Answer
    /\ Correct \subseteq Answer
    /\ Checks \subseteq [Answer -> SUBSET Verdict]
    /\ Turns \in Nat

VARIABLES
    verdicts, \* what the check may say of each answer
    budget,  \* rounds of repair the method is given
    pc,      \* target, verify, loop, call, reverify, judge or done
    resp,    \* the single-shot answer
    result,  \* the answer that is returned
    cur,     \* the attempt the loop goes on from
    vr,      \* the check's verdict on it
    cand,    \* the repair that was answered
    candVr,  \* the check's verdict on it
    round,   \* rounds begun
    ncalls,  \* repair_calls of the task's row
    trace    \* the pairs before and after of each repair

vars == <<verdicts, budget, pc, resp, result, cur, vr, cand, candVr, round, ncalls, trace>>

\* repair_turns for the methods that repair, nothing for the others.
Budgets == {0, Turns}

Init ==
    /\ verdicts \in Checks
    /\ budget \in Budgets
    /\ resp = Blank /\ result = Blank /\ cur = Blank /\ cand = Blank
    /\ vr = "none" /\ candVr = "none"
    /\ round = 0 /\ ncalls = 0
    /\ trace = <<>>
    /\ pc = "target"

AfterTarget == IF budget = 0 THEN "done" ELSE "verify"

\* The model answers ...
Target ==
    /\ pc = "target"
    /\ resp' \in Answer
    /\ result' = resp' /\ cur' = resp' /\ cand' = resp'
    /\ pc' = AfterTarget
    /\ UNCHANGED <<verdicts, budget, vr, candVr, round, ncalls, trace>>

\* ... or the call raises, and the answer is the empty one.
TargetRaises ==
    /\ pc = "target"
    /\ pc' = AfterTarget
    /\ UNCHANGED <<verdicts, budget, resp, result, cur, vr, cand, candVr, round, ncalls, trace>>

\* The check of the single-shot answer.
Verify ==
    /\ pc = "verify"
    /\ vr' \in verdicts[cur]
    /\ pc' = "loop"
    /\ UNCHANGED <<verdicts, budget, resp, result, cur, cand, candVr, round, ncalls, trace>>

\* The rounds are used up, or the attempt passes or cannot be checked.
Stop ==
    /\ pc = "loop"
    /\ round = budget \/ vr # "fail"
    /\ pc' = "done"
    /\ UNCHANGED <<verdicts, budget, resp, result, cur, vr, cand, candVr, round, ncalls, trace>>

\* Mutant of Round: one round too many.
RoundOneMore ==
    /\ pc = "loop"
    /\ round <= budget /\ vr = "fail"
    /\ round' = round + 1
    /\ pc' = "call"
    /\ UNCHANGED <<verdicts, budget, resp, result, cur, vr, cand, candVr, ncalls, trace>>

Round ==
    /\ pc = "loop"
    /\ round < budget /\ vr = "fail"
    /\ round' = round + 1
    /\ pc' = "call"
    /\ UNCHANGED <<verdicts, budget, resp, result, cur, vr, cand, candVr, ncalls, trace>>

\* The model answers with a repair, or the call raises.
RepairCall ==
    /\ pc = "call"
    /\ cand' \in Answer
    /\ pc' = "reverify"
    /\ UNCHANGED <<verdicts, budget, resp, result, cur, vr, candVr, round, ncalls, trace>>

\* Mutant of RepairCallRaises: a call that raised does not use up its round.
RepairCallRetried ==
    /\ pc = "call"
    /\ round' = round - 1
    /\ pc' = "loop"
    /\ UNCHANGED <<verdicts, budget, resp, result, cur, vr, cand, candVr, ncalls, trace>>

RepairCallRaises ==
    /\ pc = "call"
    /\ pc' = "done"
    /\ UNCHANGED <<verdicts, budget, resp, result, cur, vr, cand, candVr, round, ncalls, trace>>

\* The repair is checked and goes into the trace, whatever the verdict.
Reverify ==
    /\ pc = "reverify"
    /\ candVr' \in verdicts[cand]
    /\ ncalls' = ncalls + 1
    /\ trace' = Append(trace, [before |-> cur, after |-> cand])
    /\ pc' = "judge"
    /\ UNCHANGED <<verdicts, budget, resp, result, cur, vr, cand, round>>

\* Mutant of Adopt: a repair is taken unless the check rejects it.
AdoptUnchecked ==
    /\ pc = "judge" /\ candVr # "fail"
    /\ result' = cand
    /\ pc' = "done"
    /\ UNCHANGED <<verdicts, budget, resp, cur, vr, cand, candVr, round, ncalls, trace>>

\* The check passes the repair.
Adopt ==
    /\ pc = "judge" /\ candVr = "ok"
    /\ result' = cand
    /\ pc' = "done"
    /\ UNCHANGED <<verdicts, budget, resp, cur, vr, cand, candVr, round, ncalls, trace>>

\* The check has no verdict on the repair.
GiveUp ==
    /\ pc = "judge" /\ candVr = "none"
    /\ pc' = "done"
    /\ UNCHANGED <<verdicts, budget, resp, result, cur, vr, cand, candVr, round, ncalls, trace>>

\* Mutant of Iterate: the next round starts over from the first answer.
IterateFromResp ==
    /\ pc = "judge" /\ candVr = "fail"
    /\ vr' = candVr
    /\ pc' = "loop"
    /\ UNCHANGED <<verdicts, budget, resp, result, cur, cand, candVr, round, ncalls, trace>>

\* The check rejects the repair: the loop goes on from it, the result stays.
Iterate ==
    /\ pc = "judge" /\ candVr = "fail"
    /\ cur' = cand /\ vr' = candVr
    /\ pc' = "loop"
    /\ UNCHANGED <<verdicts, budget, resp, result, cand, candVr, round, ncalls, trace>>

Done == pc = "done" /\ UNCHANGED vars

Next ==
    \/ Target \/ TargetRaises
    \/ Verify \/ Stop \/ Round
    \/ RepairCall \/ RepairCallRaises
    \/ Reverify \/ Adopt \/ GiveUp \/ Iterate
    \/ Done

Spec == Init /\ [][Next]_vars /\ WF_vars(Next)

-----------------------------------------------------------------------------

\* Every variable has its type; no task has more repairs than it may.
TypeOK ==
    /\ verdicts \in [Answer -> SUBSET Verdict]
    /\ budget \in Budgets
    /\ pc \in {"target", "verify", "loop", "call", "reverify", "judge", "done"}
    /\ resp \in Answer /\ result \in Answer /\ cur \in Answer /\ cand \in Answer
    /\ vr \in Verdict /\ candVr \in Verdict
    /\ round \in 0 .. budget
    /\ ncalls \in 0 .. budget
    /\ trace \in Seq([before : Answer, after : Answer])

\* THE INVARIANT of monotone_repair: the result is the single-shot answer
\* unless a repair passed the check; then it is that repair, the last of the
\* trace, so that what is scored is what is recorded.
AdoptsOnlyPassing ==
    result # resp =>
        /\ candVr = "ok" /\ cand = result
        /\ trace # <<>>
        /\ trace[Len(trace)].after = result

\* The trace is one path from the single-shot answer, a repair per call.
ChainedTrace ==
    /\ Len(trace) = ncalls
    /\ \A k \in 1 .. Len(trace) :
         trace[k].before = IF k = 1 THEN resp ELSE trace[k - 1].after

\* "A noisy verify can never drop us BELOW the single-shot baseline" ...
NeverDropsBelow == pc = "done" /\ resp \in Correct => result \in Correct

\* ... of a check that may reject what is right, and passes nothing wrong.
Precise == \A a \in Answer \ Correct : "ok" \notin verdicts[a]

NeverBelowBaseline == Precise => NeverDropsBelow

\* The loop ends.
RepairEnds == <>(pc = "done")
=============================================================================
