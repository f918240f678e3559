------------------------------ MODULE Reminders ------------------------------
(***************************************************************************)
(* TaskScheduler (server/app/tasks/scheduler.py) and TaskStore             *)
(* (server/app/tasks/store.py) over deliver_once: several scheduler        *)
(* processes claim due reminders, deliver each firing once, and sweep what *)
(* a dead process left, while the user completes, cancels and snoozes.     *)
(* The same processes deliver daily reports (tasks/brief.py, tasks/        *)
(* review.py) with the same executor.                                      *)
(***************************************************************************)
EXTENDS DeliverOnce

CONSTANT Mortal    \* the processes that may be stopped or killed

ASSUME ReminderAssumption == Mortal \subseteq Processes

VARIABLES
    fireCount,     \* fire_count of each reminder
    lapsed         \* the 180 seconds a claim has to register its run are over

claimVars == <<fireCount, lapsed>>
vars == <<kind, runVars, sourceVars, owner, processVars, channelVars, claimVars>>

PC == {"new", "tick", "tasks", "claim", "claiming", "admit", "dead"} \cup Delivering

TypeOK ==
    /\ kind \in [Sources -> {"once", "periodic", "report"}]
    /\ runStatus \in [Key -> RunStatus]
    /\ dispatchState \in [Key -> {"not_started", "started", "unknown", "returned"}]
    /\ reported \in [Key -> BOOLEAN]
    /\ srcStatus \in [Sources -> {"active", "firing", "done", "cancelled",
                                  "pending", "delivered"}]
    /\ lastRun \in [Sources -> 0..MaxFires]
    /\ lastOutcome \in [Sources -> {"none", "claimed", "interrupted",
                                    "not_started", "unknown", "returned"}]
    /\ nextFire \in [Sources -> {"never", "future", "due"}]
    /\ owner \in BOOLEAN
    /\ pc \in [Processes -> PC]
    /\ cur \in [Processes -> Key \cup {NoKey}]
    /\ ending \in [Processes -> Endings]
    /\ stopping \in [Processes -> BOOLEAN]
    /\ sent \in [Key -> Nat]
    /\ loose \in SUBSET Key
    /\ fireCount \in [Sources -> 0..MaxFires]
    /\ lapsed \in [Sources -> BOOLEAN]

Init ==
    /\ kind \in [Sources -> {"once", "periodic", "report"}]
    /\ runStatus = [k \in Key |-> "none"]
    /\ dispatchState = [k \in Key |-> "not_started"]
    /\ reported = [k \in Key |-> FALSE]
    /\ srcStatus = [s \in Sources |-> IF Reminder(s) THEN "active" ELSE "pending"]
    /\ lastRun = [s \in Sources |-> 0]
    /\ lastOutcome = [s \in Sources |-> "none"]
    /\ nextFire = [s \in Sources |-> IF Reminder(s) THEN "future" ELSE "never"]
    /\ owner = TRUE
    /\ pc = [p \in Processes |-> "new"]
    /\ cur = [p \in Processes |-> NoKey]
    /\ ending = [p \in Processes |-> NoEnding]
    /\ stopping = [p \in Processes |-> FALSE]
    /\ sent = [k \in Key |-> 0]
    /\ loose = {}
    /\ fireCount = [s \in Sources |-> 0]
    /\ lapsed = [s \in Sources |-> FALSE]

-----------------------------------------------------------------------------
(* One tick of the scheduler: run_once.                                    *)

KeepProcess == UNCHANGED <<cur, ending, stopping>>

\* _run starts with recover_interrupted; run_once with the two sweeps, the
\* first of which is taken from "tick", the pause between two ticks.
SweepRun(p) ==
    /\ pc[p] = "tick"
    /\ \E k \in Key : RecoverRun(k)
    /\ UNCHANGED <<sourceVars, owner, processVars, channelVars, claimVars>>

EndSweepRuns(p) ==
    /\ Goto(p, {"tick"}, "tasks")
    /\ \A k \in Key : runStatus[k] # "overdue"
    /\ KeepProcess
    /\ UNCHANGED <<runVars, sourceVars, owner, channelVars, claimVars>>

\* Mutant: a claim without a run is taken for one of a live process.
InterruptedRun(s) ==
    LET k == <<s, lastRun[s]>> IN
    /\ srcStatus[s] = "firing"
    /\ lastRun[s] # 0
    /\ runStatus[k] \notin {"none", "running"}

\* A firing whose run is over or overdue, or was never registered in time.
Interrupted(s) ==
    LET k == <<s, lastRun[s]>>
        registered == lastRun[s] # 0 /\ runStatus[k] # "none"
    IN
    /\ srcStatus[s] = "firing"
    /\ registered => runStatus[k] # "running"
    /\ (~registered /\ lastRun[s] # 0) => lapsed[s]

RecoverInterrupted(s) ==
    LET k == <<s, lastRun[s]>>
        registered == lastRun[s] # 0 /\ runStatus[k] # "none"
    IN
    /\ Interrupted(s)
    /\ srcStatus' = [srcStatus EXCEPT ![s] = "done"]
    /\ nextFire' = [nextFire EXCEPT ![s] = "never"]
    /\ lastRun' = [lastRun EXCEPT ![s] = IF registered THEN @ ELSE 0]
    /\ lastOutcome' = [lastOutcome EXCEPT ![s] =
                          IF ~registered THEN "interrupted"
                          ELSE IF dispatchState[k] \in {"started", "unknown"}
                               THEN "unknown" ELSE "not_started"]

SweepTask(p) ==
    /\ pc[p] \in {"new", "tasks"}
    /\ \E s \in Sources : RecoverInterrupted(s)
    /\ UNCHANGED <<runVars, owner, processVars, channelVars, claimVars>>

EndSweepTasks(p) ==
    /\ Goto(p, {"new", "tasks"}, IF pc[p] = "new" THEN "tick" ELSE "claim")
    /\ ~\E s \in Sources : Interrupted(s)
    /\ KeepProcess
    /\ UNCHANGED <<runVars, sourceVars, owner, channelVars, claimVars>>

DueNow(s) == srcStatus[s] = "active" /\ owner /\ nextFire[s] = "due"
             /\ fireCount[s] < MaxFires

\* The SELECT of claim_due: its row is used after the session is closed.
SelectDue(p) ==
    /\ \E s \in Sources :
          /\ DueNow(s)
          /\ Goto(p, {"claim"}, "claiming")
          /\ cur' = [cur EXCEPT ![p] = <<s, fireCount[s] + 1>>]
    /\ UNCHANGED <<ending, stopping>>
    /\ UNCHANGED <<runVars, sourceVars, owner, channelVars, claimVars>>

NothingDue(p) ==
    /\ Goto(p, {"claim"}, "tick")
    /\ ~\E s \in Sources : DueNow(s)
    /\ KeepProcess
    /\ UNCHANGED <<runVars, sourceVars, owner, channelVars, claimVars>>

\* _claim: the conditional write compares the status and fire_count only.
\* Mutant: the status of the row read before is trusted.
MayClaimAnyStatus(s, g) == fireCount[s] = g - 1 /\ owner

MayClaim(s, g) == srcStatus[s] = "active" /\ fireCount[s] = g - 1 /\ owner

Claim(p) ==
    LET s == cur[p][1]
        g == cur[p][2]
    IN
    /\ Goto(p, {"claiming"}, "admit")
    /\ MayClaim(s, g)
    /\ srcStatus' = [srcStatus EXCEPT ![s] = IF kind[s] = "periodic" THEN "active" ELSE "firing"]
    /\ nextFire' = [nextFire EXCEPT ![s] = IF kind[s] = "periodic" THEN "future" ELSE "never"]
    /\ fireCount' = [fireCount EXCEPT ![s] = g]
    /\ lastRun' = [lastRun EXCEPT ![s] = g]
    /\ lastOutcome' = [lastOutcome EXCEPT ![s] = "claimed"]
    /\ lapsed' = [lapsed EXCEPT ![s] = FALSE]
    /\ KeepProcess
    /\ UNCHANGED <<runVars, owner, channelVars>>

LoseClaim(p) ==
    /\ pc[p] = "claiming"
    /\ ~MayClaim(cur[p][1], cur[p][2])
    /\ pc' = [pc EXCEPT ![p] = "tick"]
    /\ cur' = [cur EXCEPT ![p] = NoKey]
    /\ UNCHANGED <<ending, stopping>>
    /\ UNCHANGED <<runVars, sourceVars, owner, channelVars, claimVars>>

\* brief.deliver and review.deliver: a report read as pending.
CallReport(p) ==
    /\ \E s \in Sources :
          /\ kind[s] = "report"
          /\ srcStatus[s] = "pending"
          /\ Goto(p, {"tick"}, "admit")
          /\ cur' = [cur EXCEPT ![p] = <<s, 1>>]
    /\ UNCHANGED <<ending, stopping>>
    /\ UNCHANGED <<runVars, sourceVars, owner, channelVars, claimVars>>

-----------------------------------------------------------------------------
(* The user.                                                               *)

Open(s) == srcStatus[s] \in {"active", "firing"}

\* _cancel_current_delivery: the run of the latest claim, if it is registered.
CancelCurrent(s) ==
    runStatus' = IF lastRun[s] # 0 /\ runStatus[<<s, lastRun[s]>>] \in Live
                 THEN [runStatus EXCEPT ![<<s, lastRun[s]>>] = "cancelled"]
                 ELSE runStatus

UserFrame == UNCHANGED <<dispatchState, reported, lastRun, lastOutcome, owner,
                         processVars, channelVars, claimVars>>

\* complete_task, cancel_task and cancel_tasks_by_source_refs.
CloseTask(s, status) ==
    /\ Open(s)
    /\ srcStatus' = [srcStatus EXCEPT ![s] = status]
    /\ nextFire' = [nextFire EXCEPT ![s] = "never"]
    /\ CancelCurrent(s)
    /\ UserFrame

SnoozeTask(s) ==
    /\ Open(s)
    /\ fireCount[s] < MaxFires      \* bound: a firing is left to honour it
    /\ srcStatus' = [srcStatus EXCEPT ![s] = "active"]
    /\ nextFire' = [nextFire EXCEPT ![s] = "future"]
    /\ CancelCurrent(s)
    /\ UserFrame

\* RunStore.cancel_work of the delivery's run, by its owner.
CancelWork(k) ==
    /\ runStatus[k] \in Live
    /\ runStatus' = [runStatus EXCEPT ![k] = "cancelled"]
    /\ UNCHANGED <<dispatchState, reported, sourceVars, owner,
                   processVars, channelVars, claimVars>>

Deactivate ==
    /\ owner
    /\ \A s \in Sources : fireCount[s] < MaxFires   \* bound: before the last firing
    /\ owner' = FALSE
    /\ UNCHANGED <<runVars, sourceVars, processVars, channelVars, claimVars>>

-----------------------------------------------------------------------------
(* Time, and the end of a process.                                         *)

FallsDue(s) ==
    /\ nextFire[s] = "future"
    /\ fireCount[s] < MaxFires      \* bound: no firing is left to claim it
    /\ nextFire' = [nextFire EXCEPT ![s] = "due"]
    /\ UNCHANGED <<runVars, srcStatus, lastRun, lastOutcome, owner,
                   processVars, channelVars, claimVars>>

DeadlinePasses(k) ==
    /\ runStatus[k] = "running"
    /\ runStatus' = [runStatus EXCEPT ![k] = "overdue"]
    /\ UNCHANGED <<dispatchState, reported, sourceVars, owner, processVars, channelVars, claimVars>>

GraceLapses(s) ==
    /\ srcStatus[s] = "firing"
    /\ runStatus[<<s, lastRun[s]>>] = "none"      \* it is looked at for no other
    /\ ~lapsed[s]
    /\ lapsed' = [lapsed EXCEPT ![s] = TRUE]
    /\ UNCHANGED <<runVars, sourceVars, owner, processVars, channelVars, fireCount>>

\* stop() cancels the task: in the try block CancelledError still runs _finish.
\* At the commit of tx B the write may stand although started is not yet set.
Stop(p) ==
    /\ p \in Mortal
    /\ pc[p] # "dead"
    /\ ~stopping[p]
    /\ stopping' = [stopping EXCEPT ![p] = TRUE]
    /\ IF pc[p] \in InTry
       THEN \E state \in IF pc[p] = "start" THEN {"not_started"}
                         ELSE IF pc[p] = "call" THEN {"unknown", "not_started"}
                         ELSE {"unknown"} :
               /\ pc' = [pc EXCEPT ![p] = "finish"]
               /\ ending' = [ending EXCEPT ![p] = [StopWith(state) EXCEPT !.cancelled = TRUE]]
               /\ cur' = cur
       ELSE /\ pc' = [pc EXCEPT ![p] = "dead"]
            /\ ending' = [ending EXCEPT ![p] = NoEnding]
            /\ cur' = [cur EXCEPT ![p] = NoKey]
    /\ loose' \in {loose, IF pc[p] = "sending" THEN loose \cup {cur[p]} ELSE loose}
    /\ UNCHANGED <<runVars, sourceVars, owner, sent, claimVars>>

Kill(p) ==
    /\ p \in Mortal
    /\ pc[p] # "dead"
    /\ pc' = [pc EXCEPT ![p] = "dead"]
    /\ cur' = [cur EXCEPT ![p] = NoKey]
    /\ ending' = [ending EXCEPT ![p] = NoEnding]
    /\ stopping' = [stopping EXCEPT ![p] = TRUE]
    /\ UNCHANGED <<runVars, sourceVars, owner, channelVars, claimVars>>

-----------------------------------------------------------------------------
Sweep(p) == SweepRun(p) \/ EndSweepRuns(p) \/ SweepTask(p) \/ EndSweepTasks(p)
ClaimStep(p) == SelectDue(p) \/ NothingDue(p) \/ Claim(p) \/ LoseClaim(p)
DeliverStep(p) ==
    /\ \/ Admit(p) \/ Refuse(p) \/ StartDispatch(p) \/ DenyDispatch(p) \/ BeginCall(p)
       \/ Transmit(p) \/ CallReturns(p) \/ CallFails(p) \/ AcceptResult(p) \/ Finish(p)
    /\ UNCHANGED claimVars
ProcessStep(p) == Sweep(p) \/ ClaimStep(p) \/ DeliverStep(p)

User ==
    \/ \E s \in Sources : CloseTask(s, "done") \/ CloseTask(s, "cancelled") \/ SnoozeTask(s)
    \/ \E k \in Key : CancelWork(k)
    \/ Deactivate

Time ==
    \/ \E s \in Sources : FallsDue(s) \/ GraceLapses(s)
    \/ \E k \in Key : DeadlinePasses(k)

Next ==
    /\ \/ \E p \in Processes : ProcessStep(p) \/ CallReport(p) \/ Stop(p) \/ Kill(p)
       \/ \E k \in Key : LateTransmit(k) /\ UNCHANGED claimVars
       \/ User
       \/ Time
    /\ UNCHANGED kind

Spec == Init /\ [][Next]_vars

\* Schedulers that are not stopped keep ticking; deadlines and the grace of
\* a claim do pass.  Nothing makes a user act, or a due reminder come.
FairSpec ==
    /\ Spec
    /\ \A p \in Processes \ Mortal :
          WF_vars(ProcessStep(p) /\ UNCHANGED kind) /\ SF_vars(Sweep(p) /\ UNCHANGED kind)
    /\ \A k \in Key : WF_vars(DeadlinePasses(k) /\ UNCHANGED kind)
    /\ \A s \in Sources : WF_vars(GraceLapses(s) /\ UNCHANGED kind)

-----------------------------------------------------------------------------
(* Properties.                                                             *)

\* The outcome an API caller reads from the run is never wrong: "returned" was
\* sent, "not delivered" and "cancelled" were not (runs/delivery.py:62).
HonestOutcome ==
    \A k \in Key :
        /\ Outcome(k) = "returned" => sent[k] > 0
        /\ Outcome(k) \in {"not_delivered", "cancelled"} => sent[k] = 0

\* deliver_once and its recovery keep the promise of OnceOnly: no second send
\* of an occurrence by any caller, restart or late operation, and no send after
\* the owner was told there was none.
Told(k) ==
    CASE Outcome(k) = "unknown" -> "maybe"
      [] Outcome(k) = "returned" -> "yes"
      [] Outcome(k) \in {"not_delivered", "cancelled"} -> "no"
      [] OTHER -> "open"

Once == INSTANCE OnceOnly WITH
    Occurrences <- Key,
    sent <- {k \in Key : sent[k] > 0},
    told <- [k \in Key |-> Told(k)]

OnceOnlySpec == Once!Spec

\* No occurrence is sent twice.
SentAtMostOnce == \A k \in Key : sent[k] <= 1

\* A reminder's last_delivery and the run it names tell the same story, also
\* when the sweep of another scheduler wrote the first and a late _finish the
\* second; an "interrupted" claim never had a run.
StoriesAgree ==
    \A s \in Sources :
        LET states == CASE lastOutcome[s] = "claimed" -> {"not_started", "started", "unknown"}
                        [] lastOutcome[s] = "unknown" -> {"started", "unknown"}
                        [] OTHER -> {lastOutcome[s]}
        IN
        /\ lastOutcome[s] \notin {"none", "interrupted"} =>
               lastRun[s] # 0 /\ dispatchState[<<s, lastRun[s]>>] \in states
        /\ lastOutcome[s] = "interrupted" => runStatus[<<s, fireCount[s]>>] = "none"

\* A reminder that is done or cancelled is not revived, by a late result, a
\* sweep or a claim whose row was read before (docs/00-产品与架构.md:2584).
ClosedStaysClosed ==
    [][\A s \in Sources :
           srcStatus[s] \in {"done", "cancelled"} => srcStatus'[s] = srcStatus[s]]_vars

\* A reminder does not stay in firing, whoever died while delivering it.
EveryFiringEnds == \A s \in Sources : srcStatus[s] = "firing" ~> srcStatus[s] # "firing"

\* A delivery run does not stay open: its process or a later sweep ends it.
EveryRunEnds == \A k \in Key : runStatus[k] \in Live ~> runStatus[k] \in Ended

\* Snoozing keeps the future trigger time: a reminder is not claimed before the
\* time the user chose (docs/00-产品与架构.md:2584).  The claim compares the
\* status and fire_count of a row read earlier, not its trigger time.
SnoozeIsKept ==
    [][\A s \in Sources : nextFire[s] = "future" => fireCount'[s] = fireCount[s]]_vars
=============================================================================
