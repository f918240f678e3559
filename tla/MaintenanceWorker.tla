-------------------------- MODULE MaintenanceWorker --------------------------
(***************************************************************************)
(* MaintenanceWorker of server/app/jobs/maintenance.py over the job        *)
(* engine: post-commit derivation of a chat turn, workflow drafts, plan    *)
(* reports.  One action per await of process_ready; every other worker,    *)
(* the user and the clock run between two of them.  A member of Workers is *)
(* one process incarnation, because a worker id is drawn when the process  *)
(* starts: a restart is the start of a member that has not run yet.        *)
(***************************************************************************)
EXTENDS JobEngine

CONSTANTS
    NoJob,        \* a worker that holds no job
    Mortal        \* the incarnations whose process may be killed

ASSUME MaintenanceAssumption == NoJob \notin Jobs /\ Mortal \subseteq Workers

VARIABLES
    pc,           \* where each incarnation is in process_ready
    cur,          \* the job of its current cycle
    ver,          \* the claim version it was given with the job
    retryable,    \* how the exception it is handling is classified
    derived,      \* claim versions whose derived writes were committed
    asked,        \* the user asked for the job, or its run, to be cancelled
    gone          \* the source the job derives from was deleted

workerVars == <<pc, cur, ver, retryable>>
sourceVars == <<derived, asked, gone>>
allVars == <<jobVars, workerVars, sourceVars>>

\* From start_step to the end of the cycle the worker is bound to its claim.
AtWork == {"start", "check", "handle", "complete", "succeed",
           "gone", "confirm", "error", "fail"}
PC == AtWork \cup {"new", "retries", "expire", "claim", "dead"}

WorkerTypeOK ==
    /\ TypeOK
    /\ pc \in [Workers -> PC]
    /\ cur \in [Workers -> Jobs \cup {NoJob}]
    /\ ver \in [Workers -> 0..MaxAttempts]
    /\ retryable \in [Workers -> BOOLEAN]
    /\ derived \in [Jobs -> SUBSET Attempt]
    /\ asked \in [Jobs -> BOOLEAN]
    /\ gone \in [Jobs -> BOOLEAN]

WorkerInit ==
    /\ Init
    /\ pc = [w \in Workers |-> "new"]
    /\ cur = [w \in Workers |-> NoJob]
    /\ ver = [w \in Workers |-> 0]
    /\ retryable = [w \in Workers |-> TRUE]
    /\ derived = [j \in Jobs |-> {}]
    /\ asked = [j \in Jobs |-> FALSE]
    /\ gone = [j \in Jobs |-> FALSE]

-----------------------------------------------------------------------------
(* One cycle of the worker.                                                *)

Goto(w, from, to) == pc[w] = from /\ pc' = [pc EXCEPT ![w] = to]
KeepClaim == UNCHANGED <<cur, ver, retryable>>

\* A call that finds nothing to do, or whose WHERE clause matches no row.
Skip(enabled) == ~enabled /\ UNCHANGED jobVars

Start(w) ==
    /\ Goto(w, "new", "retries")
    /\ KeepClaim
    /\ UNCHANGED <<jobVars, sourceVars>>

SweepRetries(w) ==
    /\ Goto(w, "retries", "expire")
    /\ ReleaseReadyRetries \/ Skip(\E j \in Jobs : RetryReady(j))
    /\ KeepClaim
    /\ UNCHANGED sourceVars

SweepLeases(w) ==
    /\ Goto(w, "expire", "claim")
    /\ ExpireStaleLeases \/ Skip(\E j \in Jobs : Stale(j))
    /\ KeepClaim
    /\ UNCHANGED sourceVars

\* claim, or the end of process_ready and the pause of the loop.
ClaimNext(w) ==
    \/ \E j \in Jobs :
          /\ Goto(w, "claim", "start")
          /\ Claim(j, w)
          /\ cur' = [cur EXCEPT ![w] = j]
          /\ ver' = [ver EXCEPT ![w] = attempts[j] + 1]
          /\ UNCHANGED <<retryable, sourceVars>>
    \/ /\ Goto(w, "claim", "retries")
       /\ Skip(\E j \in Jobs : Claimable(j))
       /\ KeepClaim
       /\ UNCHANGED sourceVars

\* start_step raises job_claim_lost out of process_ready: the next cycle.
BeginStep(w) ==
    LET j == cur[w] IN
    /\ \/ Goto(w, "start", "check") /\ StartStep(j, w, ver[w])
       \/ Goto(w, "start", "retries") /\ Skip(LiveClaim(j, w, ver[w]))
    /\ KeepClaim
    /\ UNCHANGED sourceVars

CancelRequested(j) == status[j] \notin Terminal /\ cancelReq[j]

CheckBeforeHandler(w) ==
    /\ Goto(w, "check", IF CancelRequested(cur[w]) THEN "gone" ELSE "handle")
    /\ KeepClaim
    /\ UNCHANGED <<jobVars, sourceVars>>

\* Mutant: the derived write does not assert the claim in its transaction.
CommitUnfenced(w) ==
    /\ pc[w] = "handle"
    /\ ~gone[cur[w]]
    /\ derived' = [derived EXCEPT ![cur[w]] = derived[cur[w]] \cup {ver[w]}]
    /\ UNCHANGED <<jobVars, workerVars, asked, gone>>

\* A derived write: assert_current_claim locks the job row with a conditional
\* write in the same transaction, so the claim holds at the commit.
CommitDerived(w) ==
    LET j == cur[w] IN
    /\ pc[w] = "handle"
    /\ LiveClaim(j, w, ver[w])
    /\ ~gone[j]
    /\ derived' = [derived EXCEPT ![j] = derived[j] \cup {ver[w]}]
    /\ UNCHANGED <<jobVars, workerVars, asked, gone>>

\* The first model call: job_model_budget links the job to a run.
OpenBudget(w) ==
    /\ pc[w] = "handle"
    /\ LinkRun(cur[w])
    /\ UNCHANGED <<workerVars, sourceVars>>

\* ClaimInvalidated, raised by the fence or by the handler's source checks.
LoseClaim(w) ==
    LET j == cur[w] IN
    /\ Goto(w, "handle", "gone")
    /\ gone[j] \/ ~LiveClaim(j, w, ver[w])
    /\ KeepClaim
    /\ UNCHANGED <<jobVars, sourceVars>>

\* Mutant: complete_step is left out.
HandlerReturnsUnrecorded(w) ==
    /\ Goto(w, "handle", "succeed")
    /\ KeepClaim
    /\ UNCHANGED <<jobVars, sourceVars>>

HandlerReturns(w) ==
    /\ Goto(w, "handle", "complete")
    /\ KeepClaim
    /\ UNCHANGED <<jobVars, sourceVars>>

\* Any other exception; a BudgetDenied other than concurrency is not retried.
HandlerRaises(w) ==
    /\ Goto(w, "handle", "error")
    /\ \E r \in BOOLEAN : retryable' = [retryable EXCEPT ![w] = r]
    /\ UNCHANGED <<cur, ver, jobVars, sourceVars>>

\* The answer of complete_step is not looked at.
FinishStep(w) ==
    LET j == cur[w] IN
    /\ Goto(w, "complete", "succeed")
    /\ CompleteStep(j, ver[w], w, ver[w]) \/ Skip(MayClose(j, ver[w], w, ver[w]))
    /\ KeepClaim
    /\ UNCHANGED sourceVars

FinishJob(w) ==
    LET j == cur[w] IN
    /\ \/ Goto(w, "succeed", "claim") /\ Succeed(j, w, ver[w])
       \/ Goto(w, "succeed", "confirm") /\ Skip(LiveClaim(j, w, ver[w]))
    /\ KeepClaim
    /\ UNCHANGED sourceVars

\* MaintenanceSourceGone: cancel under the worker's own claim.
CancelOwn(w) ==
    LET j == cur[w] IN
    /\ Goto(w, "gone", "confirm")
    /\ Cancel(j, w, ver[w]) \/ Skip(MayCancel(j, w, ver[w]))
    /\ KeepClaim
    /\ UNCHANGED sourceVars

Confirm(w) ==
    LET j == cur[w] IN
    /\ Goto(w, "confirm", "claim")
    /\ ConfirmCancelled(j, w, ver[w]) \/ Skip(MayConfirm(j, w, ver[w]))
    /\ KeepClaim
    /\ UNCHANGED sourceVars

\* Mutant: an exception is logged and the next job is claimed.
SwallowError(w) ==
    /\ Goto(w, "error", IF CancelRequested(cur[w]) THEN "confirm" ELSE "claim")
    /\ KeepClaim
    /\ UNCHANGED <<jobVars, sourceVars>>

\* The except branch reads cancel_requested first and acts on it afterwards.
CheckAfterError(w) ==
    /\ Goto(w, "error", IF CancelRequested(cur[w]) THEN "confirm" ELSE "fail")
    /\ KeepClaim
    /\ UNCHANGED <<jobVars, sourceVars>>

FailOwnStep(w) ==
    LET j == cur[w] IN
    /\ Goto(w, "fail", "claim")
    /\ \/ FailStep(j, ver[w], w, ver[w], retryable[w])
       \/ Skip(MayClose(j, ver[w], w, ver[w]))
    /\ KeepClaim
    /\ UNCHANGED sourceVars

WorkerStep(w) ==
    \/ Start(w) \/ SweepRetries(w) \/ SweepLeases(w) \/ ClaimNext(w)
    \/ BeginStep(w) \/ CheckBeforeHandler(w) \/ CommitDerived(w) \/ OpenBudget(w)
    \/ LoseClaim(w) \/ HandlerReturns(w) \/ HandlerRaises(w)
    \/ FinishStep(w) \/ FinishJob(w) \/ CancelOwn(w) \/ Confirm(w)
    \/ CheckAfterError(w) \/ FailOwnStep(w)

-----------------------------------------------------------------------------
(* The rest of the hub.                                                    *)

\* The process dies between two awaits; its lease stays behind.
Kill(w) ==
    /\ w \in Mortal
    /\ pc[w] \notin {"new", "dead"}
    /\ pc' = [pc EXCEPT ![w] = "dead"]
    /\ KeepClaim
    /\ UNCHANGED <<jobVars, sourceVars>>

Enqueue(j) == Submit(j) /\ UNCHANGED <<workerVars, sourceVars>>

\* The administration API cancels the job, or the user cancels its run.
UserCancels(j) ==
    /\ Cancel(j, NoWorker, 0) \/ CancelRun(j)
    /\ asked' = [asked EXCEPT ![j] = TRUE]
    /\ UNCHANGED <<workerVars, derived, gone>>

SourceDeleted(j) ==
    /\ status[j] # "absent"
    /\ ~gone[j]
    /\ gone' = [gone EXCEPT ![j] = TRUE]
    /\ UNCHANGED <<jobVars, workerVars, derived, asked>>

\* A lease lapses although its worker is alive when the machine sleeps or
\* the renewal task is starved: the renewal cannot be relied upon.
Lapse(j) == LeaseLapses(j) /\ UNCHANGED <<workerVars, sourceVars>>
Elapse(j) == BackoffElapses(j) /\ UNCHANGED <<workerVars, sourceVars>>

WorkerNext ==
    \/ \E w \in Workers : WorkerStep(w) \/ Kill(w)
    \/ \E j \in Jobs : \/ Enqueue(j) \/ UserCancels(j) \/ SourceDeleted(j)
                       \/ Lapse(j) \/ Elapse(j)

WorkerSpec == WorkerInit /\ [][WorkerNext]_allVars

\* w renews the lease of j: its renewal task runs while it works on j.
Renewing(w, j) ==
    /\ owner[j] = w
    /\ pc[w] \in AtWork \ {"start"}
    /\ cur[w] = j
    /\ ver[w] = attempts[j]

\* The event loop runs every live worker, a backoff ends, and a lease nobody
\* renews lapses.  Nothing makes a process be killed or a user cancel.
Fairness ==
    /\ \A w \in Workers : WF_allVars(WorkerStep(w))
    /\ \A j \in Jobs :
          /\ WF_allVars(Elapse(j))
          /\ WF_allVars(Lapse(j) /\ ~\E w \in Workers : Renewing(w, j))

FairWorkerSpec == WorkerSpec /\ Fairness

-----------------------------------------------------------------------------
(* Safety and liveness of the composition.                                 *)

\* No cycle of a worker walks away from a claim that is still live: on every
\* path out of process_ready the job was finished, failed, cancelled or lost.
\* Only a killed process leaves a live lease behind.
NoLiveClaimLeaks ==
    \A j \in Jobs, w \in Workers, v \in Attempt :
        LiveClaim(j, w, v) =>
            pc[w] = "dead" \/ (pc[w] \in AtWork /\ cur[w] = j /\ ver[w] = v)

\* The worker ignores the answer of complete_step, yet a job that succeeded
\* completed the step of the very attempt that succeeded.
SucceededCompletedItsStep ==
    \A j \in Jobs : status[j] = "succeeded" => step[j][attempts[j]] = "completed"

\* Once the user has asked, no derived write is committed, whatever the
\* handler of the running attempt was doing at that moment.
CancelStopsDerivation ==
    [][\A j \in Jobs : asked[j] => derived'[j] = derived[j]]_allVars

\* Every accepted job ends, although workers die, leases lapse and handlers
\* fail, as long as one worker process is left alone.
EveryJobEnds ==
    \A j \in Jobs : status[j] # "absent" ~> status[j] \in Terminal

=============================================================================
