--------------------------- MODULE DelegatedWorker ---------------------------
(***************************************************************************)
(* DelegatedJobWorker of server/app/jobs/delegated.py over the job engine: *)
(* it runs the deleg.* jobs a chat turn hands over and reports the result  *)
(* to the user.  Unlike the maintenance worker it does not renew its lease *)
(* and its handlers ask for themselves whether the claim is still active.  *)
(* One action per await; a member of Workers is one process incarnation.   *)
(***************************************************************************)
EXTENDS JobEngine

CONSTANTS
    NoJob,        \* a worker that holds no job
    Mortal        \* the incarnations whose process may be killed

ASSUME DelegationAssumption == NoJob \notin Jobs /\ Mortal \subseteq Workers

VARIABLES
    pc,           \* where each incarnation is in _run and _execute
    cur,          \* the job of its current cycle
    ver,          \* the claim version it was given with the job
    retryable,    \* how the exception it is handling is classified
    reports,      \* results delivered to the user, per job
    asked,        \* the user withdrew the delegation
    unservable    \* jobs without a registered handler or a valid user_id

workerVars == <<pc, cur, ver, retryable>>
userVars == <<reports, asked, unservable>>
allVars == <<jobVars, workerVars, userVars>>

\* From claim_active to the report the worker is bound to its claim.
AtWork == {"active", "start", "handle", "complete", "succeed",
           "confirm", "error", "fail", "report"}
PC == AtWork \cup {"new", "expire", "retries", "claim", "dead"}

WorkerTypeOK ==
    /\ TypeOK
    /\ pc \in [Workers -> PC]
    /\ cur \in [Workers -> Jobs \cup {NoJob}]
    /\ ver \in [Workers -> 0..MaxAttempts]
    /\ retryable \in [Workers -> BOOLEAN]
    /\ reports \in [Jobs -> Nat]
    /\ asked \in [Jobs -> BOOLEAN]
    /\ unservable \subseteq Jobs

WorkerInit ==
    /\ Init
    /\ pc = [w \in Workers |-> "new"]
    /\ cur = [w \in Workers |-> NoJob]
    /\ ver = [w \in Workers |-> 0]
    /\ retryable = [w \in Workers |-> TRUE]
    /\ reports = [j \in Jobs |-> 0]
    /\ asked = [j \in Jobs |-> FALSE]
    /\ unservable = {}

-----------------------------------------------------------------------------
(* One cycle of the worker.                                                *)

Goto(w, from, to) == pc[w] = from /\ pc' = [pc EXCEPT ![w] = to]
KeepClaim == UNCHANGED <<cur, ver, retryable>>
Skip(enabled) == ~enabled /\ UNCHANGED jobVars

Start(w) ==
    /\ Goto(w, "new", "expire")
    /\ KeepClaim
    /\ UNCHANGED <<jobVars, userVars>>

SweepLeases(w) ==
    /\ Goto(w, "expire", "retries")
    /\ ExpireStaleLeases \/ Skip(\E j \in Jobs : Stale(j))
    /\ KeepClaim
    /\ UNCHANGED userVars

SweepRetries(w) ==
    /\ Goto(w, "retries", "claim")
    /\ ReleaseReadyRetries \/ Skip(\E j \in Jobs : RetryReady(j))
    /\ KeepClaim
    /\ UNCHANGED userVars

ClaimNext(w) ==
    \/ \E j \in Jobs :
          /\ Goto(w, "claim", "active")
          /\ Claim(j, w)
          /\ cur' = [cur EXCEPT ![w] = j]
          /\ ver' = [ver EXCEPT ![w] = attempts[j] + 1]
          /\ UNCHANGED <<retryable, userVars>>
    \/ /\ Goto(w, "claim", "expire")
       /\ Skip(\E j \in Jobs : Claimable(j))
       /\ KeepClaim
       /\ UNCHANGED userVars

ClaimActive(w) == LiveClaim(cur[w], w, ver[w])

CheckActive(w) ==
    /\ Goto(w, "active", IF ClaimActive(w) THEN "start" ELSE "confirm")
    /\ KeepClaim
    /\ UNCHANGED <<jobVars, userVars>>

\* A job that cannot be served gets a step only to fail it, without retry;
\* start_step raises job_claim_lost out of _execute when the claim is gone.
BeginStep(w) ==
    LET j == cur[w]
        hopeless == j \in unservable
    IN  \/ /\ Goto(w, "start", IF hopeless THEN "fail" ELSE "handle")
           /\ StartStep(j, w, ver[w])
           /\ retryable' = [retryable EXCEPT ![w] = ~hopeless]
           /\ UNCHANGED <<cur, ver, userVars>>
        \/ /\ Goto(w, "start", "expire")
           /\ Skip(ClaimActive(w))
           /\ KeepClaim
           /\ UNCHANGED userVars

\* The first model call: job_model_budget links the job to a run.
OpenBudget(w) ==
    /\ pc[w] = "handle"
    /\ LinkRun(cur[w])
    /\ UNCHANGED <<workerVars, userVars>>

\* is_cancel_requested answered TRUE: DelegCancelled.
HandlerGivesUp(w) ==
    /\ Goto(w, "handle", "confirm")
    /\ ~ClaimActive(w)
    /\ KeepClaim
    /\ UNCHANGED <<jobVars, userVars>>

HandlerReturns(w) ==
    /\ Goto(w, "handle", "complete")
    /\ KeepClaim
    /\ UNCHANGED <<jobVars, userVars>>

\* Any other exception; DelegHandlerError and most BudgetDenied do not retry.
HandlerRaises(w) ==
    /\ Goto(w, "handle", "error")
    /\ \E r \in BOOLEAN : retryable' = [retryable EXCEPT ![w] = r]
    /\ UNCHANGED <<cur, ver, jobVars, userVars>>

CheckAfterError(w) ==
    /\ Goto(w, "error", IF ClaimActive(w) THEN "fail" ELSE "confirm")
    /\ KeepClaim
    /\ UNCHANGED <<jobVars, userVars>>

FailOwnStep(w) ==
    LET j == cur[w] IN
    /\ Goto(w, "fail", "expire")
    /\ \/ FailStep(j, ver[w], w, ver[w], retryable[w])
       \/ Skip(MayClose(j, ver[w], w, ver[w]))
    /\ KeepClaim
    /\ UNCHANGED userVars

\* The answer of complete_step is not looked at.
FinishStep(w) ==
    LET j == cur[w] IN
    /\ Goto(w, "complete", "succeed")
    /\ CompleteStep(j, ver[w], w, ver[w]) \/ Skip(MayClose(j, ver[w], w, ver[w]))
    /\ KeepClaim
    /\ UNCHANGED userVars

\* Mutant: the answer of succeed is not looked at either.
ReportAnyway(w) ==
    LET j == cur[w] IN
    /\ Goto(w, "succeed", "report")
    /\ Succeed(j, w, ver[w]) \/ Skip(ClaimActive(w))
    /\ KeepClaim
    /\ UNCHANGED userVars

FinishJob(w) ==
    LET j == cur[w] IN
    /\ \/ Goto(w, "succeed", "report") /\ Succeed(j, w, ver[w])
       \/ Goto(w, "succeed", "confirm") /\ Skip(ClaimActive(w))
    /\ KeepClaim
    /\ UNCHANGED userVars

Confirm(w) ==
    LET j == cur[w] IN
    /\ Goto(w, "confirm", "expire")
    /\ ConfirmCancelled(j, w, ver[w]) \/ Skip(MayConfirm(j, w, ver[w]))
    /\ KeepClaim
    /\ UNCHANGED userVars

\* _report, after the commit of succeed: delivered once, or the exception of
\* the channel is suppressed and the report is lost.
Report(w) ==
    /\ Goto(w, "report", "expire")
    /\ \/ reports' = [reports EXCEPT ![cur[w]] = reports[cur[w]] + 1]
       \/ UNCHANGED reports
    /\ KeepClaim
    /\ UNCHANGED <<jobVars, asked, unservable>>

WorkerStep(w) ==
    \/ Start(w) \/ SweepLeases(w) \/ SweepRetries(w) \/ ClaimNext(w)
    \/ CheckActive(w) \/ BeginStep(w) \/ OpenBudget(w)
    \/ HandlerGivesUp(w) \/ HandlerReturns(w) \/ HandlerRaises(w)
    \/ CheckAfterError(w) \/ FailOwnStep(w)
    \/ FinishStep(w) \/ FinishJob(w) \/ Confirm(w) \/ Report(w)

-----------------------------------------------------------------------------
(* The rest of the hub.                                                    *)

Kill(w) ==
    /\ w \in Mortal
    /\ pc[w] \notin {"new", "dead"}
    /\ pc' = [pc EXCEPT ![w] = "dead"]
    /\ KeepClaim
    /\ UNCHANGED <<jobVars, userVars>>

\* What is submitted under a deleg. kind need not be what a worker can serve.
Delegate(j) ==
    /\ Submit(j)
    /\ unservable' \in {unservable, unservable \cup {j}}
    /\ UNCHANGED <<workerVars, reports, asked>>

\* cancel_turn_delegations, the administration API, or cancelling the run.
UserCancels(j) ==
    /\ Cancel(j, NoWorker, 0) \/ CancelRun(j)
    /\ asked' = [asked EXCEPT ![j] = TRUE]
    /\ UNCHANGED <<workerVars, reports, unservable>>

\* The lease (15 minutes) is not renewed: any handler may outlive it.
Lapse(j) == LeaseLapses(j) /\ UNCHANGED <<workerVars, userVars>>
Elapse(j) == BackoffElapses(j) /\ UNCHANGED <<workerVars, userVars>>

WorkerNext ==
    \/ \E w \in Workers : WorkerStep(w) \/ Kill(w)
    \/ \E j \in Jobs : Delegate(j) \/ UserCancels(j) \/ Lapse(j) \/ Elapse(j)

WorkerSpec == WorkerInit /\ [][WorkerNext]_allVars

\* Live workers run, backoffs end, and leases always lapse.
Fairness ==
    /\ \A w \in Workers : WF_allVars(WorkerStep(w))
    /\ \A j \in Jobs : WF_allVars(Elapse(j)) /\ WF_allVars(Lapse(j))

FairWorkerSpec == WorkerSpec /\ Fairness

-----------------------------------------------------------------------------
(* Safety and liveness of the composition.                                 *)

\* The user hears of a result at most once, although attempts are repeated
\* by several workers, only of a job that did succeed, and never of a
\* delegation that was withdrawn.
ReportedAtMostOnce ==
    \A j \in Jobs : reports[j] > 0 =>
        reports[j] = 1 /\ status[j] = "succeeded" /\ ~asked[j]

\* Every delegated job ends, although no lease is renewed, workers die and
\* handlers fail, as long as one worker process is left alone.
EveryJobEnds ==
    \A j \in Jobs : status[j] # "absent" ~> status[j] \in Terminal
=============================================================================
