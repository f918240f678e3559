------------------------------ MODULE ActionPlan ------------------------------
(***************************************************************************)
(* ActionPlanService (server/app/cognition/action_plan.py): a confirmed    *)
(* plan carries out its steps one by one while the user, the run it came   *)
(* from and the erasure of its conversation stop it, time passes, and the  *)
(* process dies; and what is done can be undone by a second plan.  One     *)
(* action per transaction, and one per call of a tool.                     *)
(***************************************************************************)
EXTENDS Integers, FiniteSets

CONSTANTS
    N,                \* steps of the plan
    NeedsConfirm,     \* the steps whose policy asks for a confirmation
    Reversible,       \* the steps with a compensating action
    UndoNeedsConfirm, \* the steps whose compensating action asks for one
    Executors,        \* calls of execute_plan
    Undoers           \* calls of create_undo_plan

Positions == 1..N
Plans == {"plan", "undo"}

ASSUME PlanAssumption ==
    /\ N \in Nat \ {0}
    /\ NeedsConfirm \subseteq Positions
    /\ Reversible \subseteq Positions
    /\ UndoNeedsConfirm \subseteq Reversible

VARIABLES
    status,        \* action_plan.status, "absent" before the insert
    stop,          \* cancel_requested
    step,          \* action_step.status of each position, "none" when there is no step
    begun,         \* the steps with a started_at
    refused,       \* the steps whose result says not_admitted
    undoes,        \* the step of the plan that each step of the undo plan compensates
    linked,        \* undo_plan_id is set
    overdue,       \* the plans past their expires_at
    pc,            \* where each executor is
    on,            \* its plan
    at,            \* its current step
    count,         \* its completed_count
    outcome,       \* how the tool call of that step ended
    upc,           \* where each call of create_undo_plan is
    calls,         \* how often the tool of a step was started
    world          \* its effect: "none", it "may" come, it is "done"

rowVars == <<status, stop, step, begun, refused, undoes, linked>>
executorVars == <<pc, on, at, count, outcome>>
worldVars == <<calls, world>>
vars == <<rowVars, overdue, executorVars, upc, worldVars>>

Unstarted == {"awaiting_confirmation", "ready"}
Active == Unstarted \cup {"executing"}
Ended == {"completed", "partially_completed", "failed", "cancelled", "expired"}
StepStatus == Active \cup {"completed", "failed", "cancelled", "skipped", "unknown_outcome",
                           "expired"}
Outcomes == {"ok", "failed", "refused", "inconclusive", "timeout"}

TypeOK ==
    /\ status \in [Plans -> Active \cup Ended \cup {"absent"}]
    /\ stop \in [Plans -> BOOLEAN]
    /\ step \in [Plans -> [Positions -> StepStatus \cup {"none"}]]
    /\ begun \in [Plans -> SUBSET Positions]
    /\ refused \in [Plans -> SUBSET Positions]
    /\ undoes \in [Positions -> 0..N]
    /\ linked \in BOOLEAN
    /\ overdue \in SUBSET Plans
    /\ pc \in [Executors -> {"idle", "claim", "run", "tool", "finish", "check", "ask",
                             "complete", "cancel_rest", "unknown", "fail_rest", "dead"}]
    /\ on \in [Executors -> Plans]
    /\ at \in [Executors -> 0..N]
    /\ count \in [Executors -> Nat]
    /\ outcome \in [Executors -> Outcomes]
    /\ upc \in [Undoers -> {"idle", "find", "insert", "link"}]
    /\ calls \in [Plans -> [Positions -> Nat]]
    /\ world \in [Plans -> [Positions -> {"none", "may", "done"}]]

-----------------------------------------------------------------------------
(* create_plan.                                                            *)

\* The statuses of the steps that compensate or are the steps in f; those in
\* asks have an action that must be confirmed.
NewSteps(f, asks) ==
    [i \in Positions |-> IF f[i] = 0 THEN "none"
                         ELSE IF f[i] \in asks THEN "awaiting_confirmation" ELSE "ready"]

NewStatus(steps) ==
    IF \E i \in Positions : steps[i] = "awaiting_confirmation" THEN "awaiting_confirmation"
    ELSE "ready"

Init ==
    LET steps == NewSteps([i \in Positions |-> i], NeedsConfirm) IN
    /\ status = [p \in Plans |-> IF p = "plan" THEN NewStatus(steps) ELSE "absent"]
    /\ stop = [p \in Plans |-> FALSE]
    /\ step = [p \in Plans |-> IF p = "plan" THEN steps ELSE [i \in Positions |-> "none"]]
    /\ begun = [p \in Plans |-> {}]
    /\ refused = [p \in Plans |-> {}]
    /\ undoes = [i \in Positions |-> 0]
    /\ linked = FALSE
    /\ overdue = {}
    /\ pc = [e \in Executors |-> "idle"]
    /\ on = [e \in Executors |-> "plan"]
    /\ at = [e \in Executors |-> 0]
    /\ count = [e \in Executors |-> 0]
    /\ outcome = [e \in Executors |-> "ok"]
    /\ upc = [u \in Undoers |-> "idle"]
    /\ calls = [p \in Plans |-> [i \in Positions |-> 0]]
    /\ world = [p \in Plans |-> [i \in Positions |-> "none"]]

-----------------------------------------------------------------------------
(* confirm_plan, cancel_plan, and the cancellations that come with the run *)
(* of the plan or with the erasure of its conversation.                    *)

SetStatus(p, new) == status' = [status EXCEPT ![p] = new]

\* Every step of p that is in one of the statuses from becomes new.
Sweep(p, from, new) ==
    step' = [step EXCEPT ![p] = [i \in Positions |-> IF @[i] \in from THEN new ELSE @[i]]]

ConfirmPlan(p) ==
    /\ status[p] = "awaiting_confirmation"
    /\ IF p \in overdue
       THEN SetStatus(p, "expired") /\ Sweep(p, Unstarted, "expired")
       ELSE SetStatus(p, "ready") /\ Sweep(p, {"awaiting_confirmation"}, "ready")
    /\ UNCHANGED <<stop, begun, refused, undoes, linked, overdue, executorVars, upc, worldVars>>

CancelPlan(p) ==
    /\ \/ /\ status[p] = "executing"
          /\ stop' = [stop EXCEPT ![p] = TRUE]
          /\ UNCHANGED <<status, step>>
       \/ /\ status[p] \in Unstarted
          /\ SetStatus(p, "cancelled")
          /\ Sweep(p, Unstarted, "cancelled")
          /\ UNCHANGED stop
    /\ UNCHANGED <<begun, refused, undoes, linked, overdue, executorVars, upc, worldVars>>

Revoke(p) ==
    /\ stop' = [stop EXCEPT ![p] = TRUE]
    /\ SetStatus(p, IF status[p] \in Unstarted THEN "cancelled" ELSE status[p])
    /\ Sweep(p, Unstarted, "cancelled")
    /\ UNCHANGED <<begun, refused, undoes, linked, overdue, executorVars, upc, worldVars>>

\* cancel_work of the run that proposed the plan; an undo plan has no run.
CancelRun == status["plan"] \in Active /\ Revoke("plan")

\* purge_conversation marks also the plans that have ended.
EraseSource == Revoke("plan")

Expire(p) ==
    /\ status[p] \in Unstarted
    /\ overdue' = overdue \cup {p}
    /\ UNCHANGED <<rowVars, executorVars, upc, worldVars>>

-----------------------------------------------------------------------------
(* execute_plan.                                                           *)

Goto(e, from, to) == pc[e] = from /\ pc' = [pc EXCEPT ![e] = to]

\* The locals of a call are gone when it ends.
Forget(e) ==
    /\ on' = [on EXCEPT ![e] = "plan"]
    /\ at' = [at EXCEPT ![e] = 0]
    /\ count' = [count EXCEPT ![e] = 0]
    /\ outcome' = [outcome EXCEPT ![e] = "ok"]

\* Mutant: a plan is executed whatever its status.
BeginAnyPlan(e, p) ==
    /\ status[p] # "absent"
    /\ p \notin overdue
    /\ Goto(e, "idle", "claim")
    /\ on' = [on EXCEPT ![e] = p]
    /\ SetStatus(p, "executing")
    /\ UNCHANGED <<stop, step, begun, refused, undoes, linked, overdue, at, count, outcome,
                   upc, worldVars>>

BeginExecution(e, p) ==
    /\ status[p] = "ready"
    /\ p \notin overdue
    /\ Goto(e, "idle", "claim")
    /\ on' = [on EXCEPT ![e] = p]
    /\ SetStatus(p, "executing")
    /\ UNCHANGED <<stop, step, begun, refused, undoes, linked, overdue, at, count, outcome,
                   upc, worldVars>>

Ready(p) == {i \in Positions : step[p][i] = "ready"}

\* Mutant: any step that is ready.
NextStepAny(p, i) == i \in Ready(p)

NextStep(p, i) == i \in Ready(p) /\ \A j \in Ready(p) : i <= j

\* Mutant: a stop is noticed only after a step.
MayClaimStopped(p) == status[p] = "executing"

MayClaim(p) == status[p] = "executing" /\ ~stop[p]

ClaimStep(e) ==
    LET p == on[e] IN
    /\ Goto(e, "claim", "run")
    /\ MayClaim(p)
    /\ \E i \in Positions :
          /\ NextStep(p, i)
          /\ step' = [step EXCEPT ![p][i] = "executing"]
          /\ begun' = [begun EXCEPT ![p] = @ \cup {i}]
          /\ at' = [at EXCEPT ![e] = i]
    /\ UNCHANGED <<status, stop, refused, undoes, linked, overdue, on, count, outcome, upc,
                   worldVars>>

NothingToClaim(e) ==
    /\ Goto(e, "claim", "ask")
    /\ status[on[e]] = "executing"
    /\ ~ MayClaim(on[e]) \/ Ready(on[e]) = {}
    /\ UNCHANGED <<rowVars, overdue, on, at, count, outcome, upc, worldVars>>

Record(e, o) ==
    /\ pc' = [pc EXCEPT ![e] = "finish"]
    /\ outcome' = [outcome EXCEPT ![e] = o]

\* No budget, a trace that is no longer valid, no such tool, arguments or
\* egress refused; a notification without a privacy level, which does not say
\* not_admitted; or the time of the step is up before the tool starts.
RefuseTool(e) ==
    /\ pc[e] = "run"
    /\ \E o \in {"refused", "failed", "timeout"} : Record(e, o)
    /\ UNCHANGED <<rowVars, overdue, on, at, count, upc, worldVars>>

StartTool(e) ==
    LET p == on[e] IN
    /\ Goto(e, "run", "tool")
    /\ calls' = [calls EXCEPT ![p][at[e]] = @ + 1]
    /\ world' = [world EXCEPT ![p][at[e]] = "may"]
    /\ UNCHANGED <<rowVars, overdue, on, at, count, outcome, upc>>

\* What a tool asked for happens while it runs, or after it was given up.
EffectHappens(p, i) ==
    /\ world[p][i] = "may"
    /\ world' = [world EXCEPT ![p][i] = "done"]
    /\ UNCHANGED <<rowVars, overdue, executorVars, upc, calls>>

\* Mutant: the executor reports a failure of the tool as a refusal.
ToolReturnsRefused(e) ==
    /\ pc[e] = "tool"
    /\ \E o \in Outcomes \ {"failed"} : (o = "ok" => world[on[e]][at[e]] = "done") /\ Record(e, o)
    /\ UNCHANGED <<rowVars, overdue, on, at, count, upc, worldVars>>

\* Success is reported of what happened; a failure, a state that does not read
\* back and a time-out leave it open.
ToolReturns(e) ==
    /\ pc[e] = "tool"
    /\ \E o \in Outcomes \ {"refused"} : (o = "ok" => world[on[e]][at[e]] = "done") /\ Record(e, o)
    /\ UNCHANGED <<rowVars, overdue, on, at, count, upc, worldVars>>

StepStatusOf(o) ==
    CASE o = "ok" -> "completed"
      [] o \in {"failed", "refused"} -> "failed"
      [] o \in {"inconclusive", "timeout"} -> "unknown_outcome"

\* Mutant: the plan goes on after a step that failed.
AfterFinishGoOn(o) == "check"

AfterFinish(o) == IF o = "ok" THEN "check" ELSE "fail_rest"

FinishStep(e) ==
    LET p == on[e]
        o == outcome[e]
    IN
    /\ Goto(e, "finish", AfterFinish(o))
    /\ step[p][at[e]] = "executing"
    /\ step' = [step EXCEPT ![p][at[e]] = StepStatusOf(o)]
    /\ refused' = [refused EXCEPT ![p] = IF o = "refused" THEN @ \cup {at[e]} ELSE @]
    /\ count' = [count EXCEPT ![e] = IF o = "ok" THEN @ + 1 ELSE @]
    /\ at' = [at EXCEPT ![e] = 0]
    /\ outcome' = [outcome EXCEPT ![e] = "ok"]
    /\ UNCHANGED <<status, stop, begun, undoes, linked, overdue, on, upc, worldVars>>

CheckStop(e) ==
    /\ Goto(e, "check", IF stop[on[e]] THEN "ask" ELSE "claim")
    /\ UNCHANGED <<rowVars, overdue, on, at, count, outcome, upc, worldVars>>

AskStop(e) ==
    /\ Goto(e, "ask", IF stop[on[e]] THEN "cancel_rest" ELSE "complete")
    /\ UNCHANGED <<rowVars, overdue, on, at, count, outcome, upc, worldVars>>

CompletePlan(e) ==
    /\ Goto(e, "complete", "idle")
    /\ SetStatus(on[e], "completed")
    /\ Forget(e)
    /\ UNCHANGED <<stop, step, begun, refused, undoes, linked, overdue, upc, worldVars>>

\* Mutant: who is stopped leaves the rest of the plan as it is.
LeaveRest(e) ==
    /\ Goto(e, "cancel_rest", "idle")
    /\ Forget(e)
    /\ UNCHANGED <<rowVars, overdue, upc, worldVars>>

CancelRest(e) ==
    /\ Goto(e, "cancel_rest", "idle")
    /\ SetStatus(on[e], "cancelled")
    /\ Sweep(on[e], {"ready"}, "cancelled")
    /\ Forget(e)
    /\ UNCHANGED <<stop, begun, refused, undoes, linked, overdue, upc, worldVars>>

FailRest(e) ==
    LET p == on[e] IN
    /\ Goto(e, "fail_rest", "idle")
    /\ SetStatus(p, IF stop[p] THEN "cancelled"
                    ELSE IF count[e] > 0 THEN "partially_completed" ELSE "failed")
    /\ Sweep(p, {"ready"}, IF stop[p] THEN "cancelled" ELSE "skipped")
    /\ Forget(e)
    /\ UNCHANGED <<stop, begun, refused, undoes, linked, overdue, upc, worldVars>>

\* The task is cancelled: the step it knows of becomes unknown, the rest is
\* skipped.  It does not know of a step whose claim has committed but has not
\* come back, and has let go of one that is completed.
Interrupt(e) ==
    /\ \/ /\ pc[e] \in {"run", "tool", "finish"}
          /\ pc' = [pc EXCEPT ![e] = "unknown"]
          /\ UNCHANGED at
       \/ /\ pc[e] \in {"claim", "run", "check"}
          /\ pc' = [pc EXCEPT ![e] = "fail_rest"]
          /\ at' = [at EXCEPT ![e] = 0]
    /\ outcome' = [outcome EXCEPT ![e] = "ok"]
    /\ UNCHANGED <<rowVars, overdue, on, count, upc, worldVars>>

FinishUnknown(e) ==
    /\ Goto(e, "unknown", "fail_rest")
    /\ step[on[e]][at[e]] = "executing"
    /\ step' = [step EXCEPT ![on[e]][at[e]] = "unknown_outcome"]
    /\ at' = [at EXCEPT ![e] = 0]
    /\ UNCHANGED <<status, stop, begun, refused, undoes, linked, overdue, on, count, outcome,
                   upc, worldVars>>

\* The process dies, the database fails, or an exception nobody expects; also a
\* cancellation where the step was finished or the loop was left.
ExecutorDies(e) ==
    /\ pc[e] \notin {"idle", "dead"}
    /\ pc' = [pc EXCEPT ![e] = "dead"]
    /\ Forget(e)
    /\ UNCHANGED <<rowVars, overdue, upc, worldVars>>

Execute(e) ==
    \/ ClaimStep(e) \/ NothingToClaim(e) \/ RefuseTool(e) \/ StartTool(e) \/ ToolReturns(e)
    \/ FinishStep(e) \/ CheckStop(e) \/ AskStop(e) \/ CompletePlan(e) \/ CancelRest(e)
    \/ FailRest(e) \/ FinishUnknown(e)

-----------------------------------------------------------------------------
(* create_undo_plan: read the plan, find or insert its undo plan, link it. *)

ToUndo == {i \in Reversible : step["plan"][i] = "completed"}

\* Mutant: in the order of the plan.
NthForward(i) == Cardinality({j \in ToUndo : j <= i})

\* The place of step i in the undo plan: the last one is undone first.
Nth(i) == Cardinality({j \in ToUndo : j >= i})

GotoUndo(u, from, to) == upc[u] = from /\ upc' = [upc EXCEPT ![u] = to]

ReadForUndo(u) ==
    /\ status["plan"] \in {"completed", "partially_completed"}
    /\ ToUndo # {}
    /\ GotoUndo(u, "idle", IF linked THEN "idle" ELSE "find")
    /\ UNCHANGED <<rowVars, overdue, executorVars, worldVars>>

FindUndo(u) ==
    /\ GotoUndo(u, "find", IF status["undo"] = "absent" THEN "insert" ELSE "link")
    /\ UNCHANGED <<rowVars, overdue, executorVars, worldVars>>

InsertUndo(u) ==
    LET place == [i \in Positions |->
                     IF \E k \in ToUndo : Nth(k) = i THEN CHOOSE k \in ToUndo : Nth(k) = i ELSE 0]
        steps == NewSteps(place, UndoNeedsConfirm)
    IN
    /\ GotoUndo(u, "insert", "link")
    /\ status["undo"] = "absent"
    /\ undoes' = place
    /\ step' = [step EXCEPT !["undo"] = steps]
    /\ SetStatus("undo", NewStatus(steps))
    /\ UNCHANGED <<stop, begun, refused, linked, overdue, executorVars, worldVars>>

\* Another call inserted the same key: an error for this one.
UndoConflicts(u) ==
    /\ GotoUndo(u, "insert", "idle")
    /\ status["undo"] # "absent"
    /\ UNCHANGED <<rowVars, overdue, executorVars, worldVars>>

LinkUndo(u) ==
    /\ GotoUndo(u, "link", "idle")
    /\ linked' = TRUE
    /\ UNCHANGED <<status, stop, step, begun, refused, undoes, overdue, executorVars, worldVars>>

UndoerDies(u) ==
    /\ upc[u] \in {"find", "insert", "link"}
    /\ upc' = [upc EXCEPT ![u] = "idle"]
    /\ UNCHANGED <<rowVars, overdue, executorVars, worldVars>>

Next ==
    \/ \E p \in Plans : ConfirmPlan(p) \/ CancelPlan(p) \/ Expire(p)
    \/ CancelRun \/ EraseSource
    \/ \E e \in Executors : \/ \E p \in Plans : BeginExecution(e, p)
                            \/ Execute(e) \/ Interrupt(e) \/ ExecutorDies(e)
    \/ \E p \in Plans, i \in Positions : EffectHappens(p, i)
    \/ \E u \in Undoers : \/ ReadForUndo(u) \/ FindUndo(u) \/ InsertUndo(u) \/ UndoConflicts(u)
                          \/ LinkUndo(u) \/ UndoerDies(u)

Spec == Init /\ [][Next]_vars

\* A tool call is bounded by the timeout of its step, all else by the database.
FairSpec == Spec /\ \A e \in Executors : WF_vars(Execute(e))

-----------------------------------------------------------------------------
(* Properties.                                                             *)

\* action_outcome (runs/outcomes.py): what the user is told of the effect of a
\* step that changes something.
SideEffect(p, i) ==
    LET s == step[p][i]
        started == i \in begun[p] \/ s \in {"executing", "completed", "unknown_outcome"}
    IN  IF ~started \/ i \in refused[p] THEN "not_started"
        ELSE IF s = "completed" THEN "submitted" ELSE "unknown"

\* A step that is said not to have started has no effect and will never have
\* one, and one that is said to be submitted has its effect; of all others the
\* user is told that it is unknown.
SideEffectIsHonest ==
    \A p \in Plans, i \in Positions :
        /\ SideEffect(p, i) = "not_started" => world[p][i] = "none"
        /\ SideEffect(p, i) = "submitted" => world[p][i] = "done"

\* A plan that is completed has all its steps completed: a failure is not
\* described as a success (docs/00-产品与架构.md:1700).
CompletedIsWhole ==
    \A p \in Plans, i \in Positions :
        status[p] = "completed" => step[p][i] \in {"completed", "none"}

\* No tool is called twice for a step, and none before the steps in front of
\* it are completed, whoever executes, stops or dies.
CalledOnceInOrder ==
    \A p \in Plans, i \in Positions :
        /\ calls[p][i] <= 1
        /\ calls[p][i] = 1 => \A j \in 1..(i - 1) : step[p][j] = "completed"

\* A step is undone only after it was carried out, and after those that came
\* later in the plan.
UndoneInReverse ==
    \A i \in Positions :
        calls["undo"][i] = 1 =>
            /\ world["plan"][undoes[i]] = "done"
            /\ \A k \in Reversible : k > undoes[i] /\ world["plan"][k] = "done"
                   /\ step["plan"][k] = "completed"
                   => \E j \in 1..(i - 1) : undoes[j] = k /\ world["undo"][j] = "done"

\* Once a stop was accepted no further step is started: only what was in flight
\* may still have its effect.
StopIsObeyed ==
    [][\A p \in Plans : stop[p] => begun'[p] = begun[p]]_vars

\* A plan that has ended stays as it was told: no executor, confirmation or
\* cancellation changes it or its steps again.
EndIsFinal ==
    [][\A p \in Plans : status[p] \in Ended => status'[p] = status[p] /\ step'[p] = step[p]]_vars

\* A plan in execution comes to an end, stopped or not, unless its executor dies.
EveryExecutionEnds ==
    \A p \in Plans :
        status[p] = "executing" ~> status[p] \in Ended \/ \E e \in Executors : pc[e] = "dead"
=============================================================================
