----------------------------- MODULE DeliverOnce -----------------------------
(***************************************************************************)
(* deliver_once and recover_expired_deliveries of                          *)
(* server/app/runs/delivery.py over the source rows of                     *)
(* delivery_sources.py: reminders and daily reports.  One action per       *)
(* transaction or await.  An occurrence <<s, g>> is the g-th firing of a   *)
(* reminder, or the single delivery of a report (g = 1); its TaskRun has   *)
(* the request key of the occurrence.  A member of Processes is one        *)
(* process incarnation with one delivery in hand.                          *)
(***************************************************************************)
EXTENDS Integers, FiniteSets

CONSTANTS
    Sources,       \* rows of task_item, daily_brief and daily_review
    MaxFires,      \* bound on fire_count
    Processes,     \* process incarnations, each with one delivery in hand
    NoKey          \* a process with no delivery in hand

Fires == 1..MaxFires
Key == Sources \X Fires

ASSUME DeliveryAssumption ==
    /\ MaxFires \in Nat \ {0}
    /\ NoKey \notin Key

VARIABLES
    kind,          \* a one-shot or a periodic reminder, or a daily report
    runStatus,     \* TaskRun.status of each occurrence; "overdue" is a running
                   \* run whose deadline has passed
    dispatchState, \* contract.dispatch_state
    reported,      \* contract.delivery_channels is not empty
    srcStatus,     \* status of the source row
    lastRun,       \* the firing last_delivery.run_id names, 0 for none
    lastOutcome,   \* last_delivery.outcome
    nextFire,      \* next_fire_at: "never", "future", or "due" (<= now)
    owner,         \* the owner's account is active
    pc,            \* where each process is
    cur,           \* the occurrence it delivers
    ending,        \* what its _finish will be called with
    stopping,      \* its task was cancelled by stop()
    sent,          \* how often each occurrence reached a channel
    loose          \* cancelled operations that have not ended yet

runVars == <<runStatus, dispatchState, reported>>
sourceVars == <<srcStatus, lastRun, lastOutcome, nextFire>>
processVars == <<pc, cur, ending, stopping>>
channelVars == <<sent, loose>>

\* "accepted" is left in the transaction that inserts the run.
Live == {"running", "overdue"}
Ended == {"succeeded", "failed", "cancelled"}
RunStatus == {"none"} \cup Live \cup Ended
Endings == [state : {"not_started", "unknown", "returned"},
            channels : BOOLEAN, cancelled : BOOLEAN]
NoEnding == [state |-> "not_started", channels |-> FALSE, cancelled |-> FALSE]

\* From tx A to _finish a process runs the try block of deliver_once.
Started == {"call", "sending", "sent", "returned"}
InTry == {"start"} \cup Started
Delivering == InTry \cup {"finish"}

SourceOf(k) == k[1]

Reminder(s) == kind[s] \in {"once", "periodic"}

\* The states _source_lock(pending=True) accepts.
Pending(s) == srcStatus[s] \in {"active", "firing", "pending"}

\* _matches: a reminder must still be owed this firing; a report's text never
\* changes.
Matches(k) ==
    Reminder(SourceOf(k)) =>
        srcStatus[SourceOf(k)] \in {"active", "firing"} /\ lastRun[SourceOf(k)] = k[2]

\* Mutant: the run's status is not looked at again.
ValidWhateverTheRun(k) == owner /\ Matches(k)

\* validate of _dispatch_with_watch, over the committed rows.
Valid(k) == runStatus[k] = "running" /\ owner /\ Matches(k)

\* transition_run: a terminal run keeps its status.
RunAfter(k, status) == IF runStatus[k] \in Live THEN status ELSE runStatus[k]

Goto(p, from, to) == pc[p] \in from /\ pc' = [pc EXCEPT ![p] = to]

\* The process leaves deliver_once; the scheduler goes on to the next claim.
Leave(p) ==
    /\ pc' = [pc EXCEPT ![p] = IF stopping[p] THEN "dead"
                               ELSE IF Reminder(SourceOf(cur[p])) THEN "claim" ELSE "tick"]
    /\ cur' = [cur EXCEPT ![p] = NoKey]
    /\ ending' = [ending EXCEPT ![p] = NoEnding]
    /\ UNCHANGED stopping

\* The process enters _finish with this outcome.
Conclude(p, e) ==
    /\ pc' = [pc EXCEPT ![p] = "finish"]
    /\ ending' = [ending EXCEPT ![p] = e]
    /\ UNCHANGED <<cur, stopping>>

StopWith(state) == [NoEnding EXCEPT !.state = state]

-----------------------------------------------------------------------------
(* tx A: admission.                                                        *)

MayAdmit(k) == Pending(SourceOf(k)) /\ owner /\ Matches(k) /\ runStatus[k] = "none"

Admit(p) ==
    LET k == cur[p] IN
    /\ Goto(p, {"admit"}, "start")
    /\ MayAdmit(k)
    /\ runStatus' = [runStatus EXCEPT ![k] = "running"]
    /\ UNCHANGED <<dispatchState, reported, sourceVars, owner,
                   cur, ending, stopping, channelVars>>

\* Returns False, or raises BudgetDenied before there is a run.
Refuse(p) ==
    /\ pc[p] = "admit"
    /\ ~MayAdmit(cur[p])
    /\ Leave(p)
    /\ UNCHANGED <<runVars, sourceVars, owner, channelVars>>

-----------------------------------------------------------------------------
(* tx B: the point of no return.                                           *)

MayStart(k) == Pending(SourceOf(k)) /\ Valid(k)

StartDispatch(p) ==
    LET k == cur[p] IN
    /\ Goto(p, {"start"}, "call")
    /\ MayStart(k)
    /\ dispatchState' = [dispatchState EXCEPT ![k] = "started"]
    /\ UNCHANGED <<runStatus, reported, sourceVars, owner,
                   cur, ending, stopping, channelVars>>

\* No deliverer, no budget for another delivery, or a row that changed.  The
\* first two are the environment's and may come whatever the rows say.
DenyDispatch(p) ==
    /\ pc[p] = "start"
    /\ Conclude(p, StopWith("not_started"))
    /\ UNCHANGED <<runVars, sourceVars, owner, channelVars>>

-----------------------------------------------------------------------------
(* guarded_call: the operation, and the watcher that validates beside it.  *)

BeginCall(p) ==
    /\ pc[p] = "call"
    /\ \/ Valid(cur[p]) /\ Goto(p, {"call"}, "sending") /\ UNCHANGED <<cur, ending, stopping>>
       \/ ~Valid(cur[p]) /\ Conclude(p, StopWith("unknown"))
    /\ UNCHANGED <<runVars, sourceVars, owner, channelVars>>

Transmit(p) ==
    /\ Goto(p, {"sending"}, "sent")
    /\ sent' = [sent EXCEPT ![cur[p]] = @ + 1]
    /\ UNCHANGED <<runVars, sourceVars, owner, cur, ending, stopping, loose>>

\* The operation ends: with the channels it reached, or with none.
CallReturns(p) ==
    LET channels == pc[p] = "sent" IN
    /\ Goto(p, {"sending", "sent"}, "returned")
    /\ ending' = [ending EXCEPT ![p] = [state |-> "returned", channels |-> channels,
                                        cancelled |-> FALSE]]
    /\ UNCHANGED <<runVars, sourceVars, owner, cur, stopping, channelVars>>

\* The operation raises, the watcher denies it, or the timeout fires.  The
\* cancelled operation is given a quarter of a second and then left to itself.
CallFails(p) ==
    /\ pc[p] \in {"sending", "sent"}
    /\ Conclude(p, StopWith("unknown"))
    /\ loose' \in {loose, IF pc[p] = "sending" THEN loose \cup {cur[p]} ELSE loose}
    /\ UNCHANGED <<runVars, sourceVars, owner, sent>>

\* A cancelled operation that still reaches its channel.
LateTransmit(k) ==
    /\ k \in loose
    /\ sent' = [sent EXCEPT ![k] = @ + 1]
    /\ loose' = loose \ {k}
    /\ UNCHANGED <<runVars, sourceVars, owner, processVars>>

\* The validation after the call, and that of the channels' names.
AcceptResult(p) ==
    /\ pc[p] = "returned"
    /\ \/ Valid(cur[p]) /\ Conclude(p, ending[p])
       \/ Conclude(p, StopWith("unknown"))
    /\ UNCHANGED <<runVars, sourceVars, owner, channelVars>>

-----------------------------------------------------------------------------
(* _finish: the run's contract, the source and the run's status.           *)

\* Mutant: a late result is written whichever run the reminder names.
FinishAnySource(s, g, e) ==
    /\ lastOutcome' = [lastOutcome EXCEPT ![s] = e.state]
    /\ srcStatus' = [srcStatus EXCEPT ![s] =
                        IF @ = "firing" THEN "done" ELSE IF @ = "pending" THEN "delivered" ELSE @]
    /\ UNCHANGED <<lastRun, nextFire>>

FinishSource(s, g, e) ==
    IF Reminder(s)
    THEN IF lastRun[s] = g
         THEN /\ lastOutcome' = [lastOutcome EXCEPT ![s] = e.state]
              /\ srcStatus' = [srcStatus EXCEPT ![s] = IF @ = "firing" THEN "done" ELSE @]
              /\ nextFire' = [nextFire EXCEPT ![s] =
                                 IF srcStatus[s] = "firing" THEN "never" ELSE @]
              /\ UNCHANGED lastRun
         ELSE UNCHANGED sourceVars
    ELSE /\ srcStatus' = [srcStatus EXCEPT ![s] =
                             IF e.state # "not_started" THEN "delivered" ELSE @]
         /\ UNCHANGED <<lastRun, lastOutcome, nextFire>>

SourceCancelled(s, g) == Reminder(s) /\ lastRun[s] = g /\ srcStatus[s] = "cancelled"

Finish(p) ==
    LET k == cur[p]
        e == ending[p]
        cancelled == e.cancelled \/ SourceCancelled(k[1], k[2])
    IN
    /\ pc[p] = "finish"
    /\ dispatchState' = [dispatchState EXCEPT ![k] = e.state]
    /\ reported' = [reported EXCEPT ![k] = e.channels]
    /\ FinishSource(k[1], k[2], e)
    /\ runStatus' = [runStatus EXCEPT ![k] =
                        RunAfter(k, IF e.channels THEN "succeeded"
                                    ELSE IF cancelled THEN "cancelled" ELSE "failed")]
    /\ Leave(p)
    /\ UNCHANGED <<owner, channelVars>>

-----------------------------------------------------------------------------
(* recover_expired_deliveries, one run.                                    *)

\* Mutant: whether the dispatch was started is forgotten.
RecoverAsNotStarted(k) ==
    /\ runStatus[k] = "overdue"
    /\ dispatchState' = [dispatchState EXCEPT ![k] = "not_started"]
    /\ runStatus' = [runStatus EXCEPT ![k] = "failed"]
    /\ UNCHANGED reported

\* Mutant: a run whose dispatch never started is not recovered.
RecoverStartedRun(k) ==
    /\ runStatus[k] = "overdue"
    /\ dispatchState[k] = "started"
    /\ dispatchState' = [dispatchState EXCEPT ![k] = "unknown"]
    /\ runStatus' = [runStatus EXCEPT ![k] = "failed"]
    /\ UNCHANGED reported

RecoverRun(k) ==
    /\ runStatus[k] = "overdue"
    /\ dispatchState' = [dispatchState EXCEPT ![k] =
                            IF @ = "started" THEN "unknown" ELSE "not_started"]
    /\ runStatus' = [runStatus EXCEPT ![k] = "failed"]
    /\ UNCHANGED reported

\* What outcome(row) tells the owner.
Outcome(k) ==
    IF runStatus[k] = "none" THEN "none"
    ELSE IF dispatchState[k] = "unknown" THEN "unknown"
    ELSE IF dispatchState[k] = "returned"
         THEN IF reported[k] THEN "returned" ELSE "not_delivered"
    ELSE IF dispatchState[k] = "started" /\ runStatus[k] \in {"failed", "cancelled"} THEN "unknown"
    ELSE IF runStatus[k] = "cancelled" THEN "cancelled"
    ELSE IF runStatus[k] = "failed" THEN "not_delivered"
    ELSE IF runStatus[k] \in Live THEN "running"
    ELSE "not_started"
=============================================================================
