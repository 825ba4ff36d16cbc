------------------------------ MODULE TaskSolve ------------------------------
(***************************************************************************)
(* One task of the evaluation harness (prequential.solve, native_solve):   *)
(* MonotoneRepair with the check it calls and the CLI calls it is made of. *)
(* A check is the environment's own (oracle), or self_verify: it runs the  *)
(* code of an answer, and where that gives no verdict, or always, lets the *)
(* model criticise its own answer.  A CLI call is tried again when it      *)
(* fails; every answer that parses has a line in the ledger.               *)
(***************************************************************************)
EXTENDS MonotoneRepair

CONSTANTS
    Exec,      \* [Answer -> what try_run says of it: pass, crash or none]
    Modes,     \* the routes there may be: verify_mode, or native
    Retries    \* NATIVE_EVOLVE_MAX_RETRIES

Routes == {"oracle", "self", "self_exec", "self_both", "native"}

\* What self_verify may say of each answer: a run decides, and where there is
\* none to decide, a critique does, if it may be asked and is available.
Routed(route) ==
    [a \in Answer |->
        CASE Exec[a] = "pass"  -> {"ok"}
          [] Exec[a] = "crash" -> {"fail"}
          [] OTHER -> IF route = "self_exec" THEN {"none"} ELSE Verdict]

ASSUME SolveAssumption ==
    /\ Exec \in [Answer -> {"pass", "crash", "none"}]
    /\ Modes \subseteq Routes
    /\ \A route \in Modes \ {"oracle"} : Routed(route) \in Checks
    /\ Retries \in Nat

VARIABLES
    mode,      \* which check, or the native route
    wantCost,  \* the caller asked for the cost
    check,     \* of a check under way: idle, critique, conclude or said
    execd,     \* what the run of the code showed
    had,       \* had_channel
    failed,    \* fails is not empty
    said,      \* the verdict
    tries,     \* failed attempts of the CLI call under way
    ledger,    \* lines of the task's calls in the cost ledger
    cost       \* calls the task's own row accounts for

checkVars == <<check, execd, had, failed, said>>
callVars == <<tries, ledger, cost>>
solveVars == <<vars, mode, wantCost, checkVars, callVars>>

-----------------------------------------------------------------------------

SolveInit ==
    /\ Init
    /\ mode \in Modes
    /\ mode = "native" => budget = 0
    /\ mode # "oracle" => verdicts = Routed(mode)
    /\ wantCost \in BOOLEAN
    /\ check = "idle" /\ execd = "none" /\ had = FALSE /\ failed = FALSE
    /\ said = "none"
    /\ tries = 0 /\ ledger = 0 /\ cost = 0

\* Steps of the loop that neither call nor check.
Between ==
    /\ Stop \/ Round \/ Adopt \/ GiveUp \/ Iterate \/ Done
    /\ UNCHANGED <<mode, wantCost, checkVars, callVars>>

-----------------------------------------------------------------------------
(* A call of the CLI: by the target, a repair or the critique. *)

Calling == pc \in {"target", "call"} \/ check = "critique"

\* The native route waits for no outage.
MaxRetries == IF mode = "native" THEN 1 ELSE Retries

\* Mutant of Billed: what did not parse is accounted for as well.
BilledUnparsed(parsed, counted) ==
    /\ ledger' = IF parsed THEN ledger + 1 ELSE ledger
    /\ cost' = IF counted THEN cost + 1 ELSE cost
    /\ tries' = 0

\* An answer: one that parses has a line in the ledger, and its cost goes to
\* the caller who asks for it.
Billed(parsed, counted) ==
    /\ ledger' = IF parsed THEN ledger + 1 ELSE ledger
    /\ cost' = IF parsed /\ counted THEN cost + 1 ELSE cost
    /\ tries' = 0

\* An attempt fails: no output, a non-zero exit, a timeout.
AttemptFails ==
    /\ Calling
    /\ tries < MaxRetries
    /\ tries' = tries + 1
    /\ UNCHANGED <<vars, mode, wantCost, checkVars, ledger, cost>>

\* The last one fails, and the call raises.
Exhausted ==
    /\ tries = MaxRetries
    /\ tries' = 0
    /\ UNCHANGED <<ledger, cost>>

SolveAnswers ==
    /\ Target \/ RepairCall
    /\ \E parsed \in BOOLEAN : Billed(parsed, wantCost \/ mode = "native")
    /\ UNCHANGED <<mode, wantCost, checkVars>>

SolveRaises ==
    /\ TargetRaises \/ RepairCallRaises
    /\ Exhausted
    /\ UNCHANGED <<mode, wantCost, checkVars>>

-----------------------------------------------------------------------------
(* The check of the answer at hand. *)

Checking == pc \in {"verify", "reverify"}

Attempt == IF pc = "verify" THEN cur ELSE cand

\* The environment's own verifier; one that raises has no verdict.
Oracle ==
    /\ Checking /\ mode = "oracle" /\ check = "idle"
    /\ said' \in verdicts[Attempt]
    /\ check' = "said"
    /\ UNCHANGED <<vars, mode, wantCost, execd, had, failed, callVars>>

\* The code is run, if there is any and the environment can.
Probe ==
    /\ Checking /\ mode # "oracle" /\ check = "idle"
    /\ execd' = Exec[Attempt]
    /\ had' = (execd' # "none")
    /\ failed' = (execd' = "crash")
    /\ check' = IF mode = "self_both" \/ (mode = "self" /\ execd' = "none")
                THEN "critique" ELSE "conclude"
    /\ UNCHANGED <<vars, mode, wantCost, said, callVars>>

\* Mutant of Critique: what the critique finds always counts.
CritiqueAlways ==
    /\ check = "critique"
    /\ \E viols \in BOOLEAN : failed' = (failed \/ viols)
    /\ had' = TRUE
    /\ check' = "conclude"
    /\ \E parsed \in BOOLEAN : Billed(parsed, FALSE)
    /\ UNCHANGED <<vars, mode, wantCost, execd, said>>

\* The critique answers; after a clean run what it finds is not heard.
Critique ==
    /\ check = "critique"
    /\ \E viols \in BOOLEAN : failed' = (failed \/ (viols /\ execd # "pass"))
    /\ had' = TRUE
    /\ check' = "conclude"
    /\ \E parsed \in BOOLEAN : Billed(parsed, FALSE)
    /\ UNCHANGED <<vars, mode, wantCost, execd, said>>

\* The call raises, or its answer is not what was asked for.
CritiqueRaises ==
    /\ check = "critique"
    /\ \/ Exhausted
       \/ \E parsed \in BOOLEAN : Billed(parsed, FALSE)
    /\ check' = "conclude"
    /\ UNCHANGED <<vars, mode, wantCost, execd, had, failed, said>>

Conclude ==
    /\ check = "conclude"
    /\ said' = IF ~had THEN "none" ELSE IF failed THEN "fail" ELSE "ok"
    /\ check' = "said"
    /\ UNCHANGED <<vars, mode, wantCost, execd, had, failed, callVars>>

\* The loop takes the verdict.
Deliver ==
    /\ check = "said"
    /\ \/ Verify /\ vr' = said
       \/ Reverify /\ candVr' = said
    /\ check' = "idle"
    /\ UNCHANGED <<mode, wantCost, execd, had, failed, said, callVars>>

-----------------------------------------------------------------------------

SolveNext ==
    \/ Between
    \/ AttemptFails \/ SolveAnswers \/ SolveRaises
    \/ Oracle \/ Probe \/ Critique \/ CritiqueRaises \/ Conclude \/ Deliver

SolveSpec == SolveInit /\ [][SolveNext]_solveVars /\ WF_solveVars(SolveNext)

-----------------------------------------------------------------------------

\* Every variable has its type; no call is tried more often than it may.
SolveTypeOK ==
    /\ TypeOK
    /\ mode \in Modes /\ wantCost \in BOOLEAN
    /\ check \in {"idle", "critique", "conclude", "said"}
    /\ execd \in {"pass", "crash", "none"}
    /\ had \in BOOLEAN /\ failed \in BOOLEAN
    /\ said \in Verdict
    /\ tries \in 0 .. MaxRetries
    /\ ledger \in Nat /\ cost \in Nat

\* Whatever the critique answers, and whether it answers, the verdict is the
\* one the channels are entitled to: a clean run is never overruled, a crash
\* never excused, and an answer nothing could look at is not judged.  (The
\* docstring of self_verify: a clean execution stays authoritative.)
VerdictAsRouted == check = "said" => said \in verdicts[Attempt]

\* The cost in a task's row (what deploy_parallel rebuilds the curve from) is
\* in the ledger, and where no critique is asked it is all of it: no retry, no
\* raised call and no repair is counted twice or left out.
CostAccounted ==
    /\ cost <= ledger
    /\ wantCost /\ mode \in {"oracle", "self_exec"} => cost = ledger
=============================================================================
