------------------------------ MODULE JobEngine ------------------------------
(***************************************************************************)
(* The durable job engine, server/app/jobs/engine.py, over the table job   *)
(* and job_step of server/app/db/jobs.py.  Every action is one database    *)
(* transaction of one JobEngine method; the parameters w and v are the     *)
(* worker_id and claim_version a caller passes (NoWorker and 0: omitted).  *)
(*                                                                         *)
(* Time.  The engine compares stored timestamps with now and nothing else, *)
(* so a lease is "none", "live" or "expired", and due says whether         *)
(* available_at has passed: the clock is the two actions LeaseLapses and   *)
(* BackoffElapses.  The jobs of one instance are those of one              *)
(* resource_class.                                                         *)
(***************************************************************************)
EXTENDS Naturals

CONSTANTS
    Jobs,         \* identities of the rows of table job
    Workers,      \* worker ids; a restarted process has a new one
    NoWorker,     \* lease_owner IS NULL, or a worker_id that is not given
    MaxAttempts   \* max_attempts

ASSUME EngineAssumption ==
    /\ NoWorker \notin Workers
    /\ MaxAttempts \in Nat \ {0}

VARIABLES
    status,       \* job.status; "absent" before the row exists
    owner,        \* job.lease_owner
    lease,        \* job.lease_expires_at against now
    attempts,     \* job.attempts, which is also the claim version
    due,          \* job.available_at <= now
    cancelReq,    \* job.cancel_requested_at IS NOT NULL
    step,         \* job_step.status of the step of each attempt
    run           \* task_run.status of the run with the job's own id

jobVars == <<status, owner, lease, attempts, due, cancelReq, step, run>>

JobStatus == {"queued", "admitted", "running", "waiting_user", "retry_wait",
              "cancelling", "succeeded", "failed", "cancelled"}
Terminal == {"succeeded", "failed", "cancelled"}
Held == {"admitted", "running"}
Attempt == 1..MaxAttempts

TypeOK ==
    /\ status \in [Jobs -> JobStatus \cup {"absent"}]
    /\ owner \in [Jobs -> Workers \cup {NoWorker}]
    /\ lease \in [Jobs -> {"none", "live", "expired"}]
    /\ attempts \in [Jobs -> 0..MaxAttempts]
    /\ due \in [Jobs -> BOOLEAN]
    /\ cancelReq \in [Jobs -> BOOLEAN]
    /\ step \in [Jobs -> [Attempt -> {"none", "running", "completed", "failed"}]]
    /\ run \in [Jobs -> {"none", "running", "succeeded", "failed", "cancelled"}]

Init ==
    /\ status = [j \in Jobs |-> "absent"]
    /\ owner = [j \in Jobs |-> NoWorker]
    /\ lease = [j \in Jobs |-> "none"]
    /\ attempts = [j \in Jobs |-> 0]
    /\ due = [j \in Jobs |-> FALSE]
    /\ cancelReq = [j \in Jobs |-> FALSE]
    /\ step = [j \in Jobs |-> [a \in Attempt |-> "none"]]
    /\ run = [j \in Jobs |-> "none"]

-----------------------------------------------------------------------------
(* Guards shared by several transactions.                                  *)

\* worker_id and claim_version are matched only when the caller gives them.
Matches(j, w, v) ==
    /\ w = NoWorker \/ owner[j] = w
    /\ v = 0 \/ attempts[j] = v

\* _live_step_claim, and the WHERE clause of succeed and claim_active.
LiveClaim(j, w, v) ==
    /\ status[j] \in Held
    /\ owner[j] # NoWorker
    /\ ~cancelReq[j]
    /\ lease[j] = "live"
    /\ Matches(j, w, v)

\* Mutant: a job that is being cancelled is still on offer.
ClaimableWhileCancelling(j) ==
    /\ status[j] \in {"queued", "admitted", "cancelling"}
    /\ lease[j] # "live" /\ due[j] /\ attempts[j] < MaxAttempts

Claimable(j) ==
    /\ status[j] \in {"queued", "admitted"}
    /\ lease[j] # "live"
    /\ due[j]
    /\ attempts[j] < MaxAttempts
    /\ ~cancelReq[j]

\* Mutant: the job's end is not told to its run.
RunIsForgotten(j, s) == run' = run

\* transition_run: a run that is already terminal keeps its status.
RunMovesTo(j, s) ==
    run' = IF run[j] = "running" THEN [run EXCEPT ![j] = s] ELSE run

\* Mutant: lease_expires_at survives the claim.
ClearOwnerOnly(j) == owner' = [owner EXCEPT ![j] = NoWorker] /\ UNCHANGED lease

ClearLease(j) ==
    /\ owner' = [owner EXCEPT ![j] = NoWorker]
    /\ lease' = [lease EXCEPT ![j] = "none"]

-----------------------------------------------------------------------------
(* Submission, claiming and leases.                                        *)

Submit(j) ==
    /\ status[j] = "absent"
    /\ status' = [status EXCEPT ![j] = "queued"]
    /\ \E soon \in BOOLEAN : due' = [due EXCEPT ![j] = soon]
    /\ UNCHANGED <<owner, lease, attempts, cancelReq, step, run>>

\* One conditional UPDATE of the first claimable row in order of priority
\* that nobody else has locked, or of the row job_id names: any claimable row.
Claim(j, w) ==
    /\ Claimable(j)
    /\ status' = [status EXCEPT ![j] =
                    IF status[j] = "queued" THEN "admitted" ELSE "running"]
    /\ owner' = [owner EXCEPT ![j] = w]
    /\ lease' = [lease EXCEPT ![j] = "live"]
    /\ attempts' = [attempts EXCEPT ![j] = attempts[j] + 1]
    /\ UNCHANGED <<due, cancelReq, step, run>>

\* Mutant: the renewal does not ask whether the lease is still live.
MayRenewAnyLease(j, w, v) ==
    /\ owner[j] = w
    /\ status[j] \in Held \cup {"cancelling"}
    /\ v = 0 \/ attempts[j] = v

\* A lease that is extended stays "live": the row changes, the model does not.
MayRenew(j, w, v) ==
    /\ owner[j] = w
    /\ status[j] \in Held \cup {"cancelling"}
    /\ lease[j] = "live"
    /\ v = 0 \/ attempts[j] = v

RenewLease(j, w, v) ==
    /\ MayRenew(j, w, v)
    /\ lease' = [lease EXCEPT ![j] = "live"]
    /\ UNCHANGED <<status, owner, attempts, due, cancelReq, step, run>>

ReleaseLease(j, w, v) ==
    /\ status[j] = "admitted"
    /\ owner[j] = w
    /\ ~cancelReq[j]
    /\ lease[j] = "live"
    /\ v = 0 \/ attempts[j] = v
    /\ status' = [status EXCEPT ![j] = "queued"]
    /\ ClearLease(j)
    /\ UNCHANGED <<attempts, due, cancelReq, step, run>>

\* heartbeat: every unexpired lease of the worker is extended at once.
Heartbeat(w) ==
    /\ \E j \in Jobs : MayRenew(j, w, 0)
    /\ lease' = [j \in Jobs |-> IF MayRenew(j, w, 0) THEN "live" ELSE lease[j]]
    /\ UNCHANGED <<status, owner, attempts, due, cancelReq, step, run>>

RetryReady(j) ==
    /\ status[j] = "retry_wait"
    /\ due[j]
    /\ ~cancelReq[j]
    /\ attempts[j] < MaxAttempts

ReleaseReadyRetries ==
    /\ \E j \in Jobs : RetryReady(j)
    /\ status' = [j \in Jobs |-> IF RetryReady(j) THEN "queued" ELSE status[j]]
    /\ owner' = [j \in Jobs |-> IF RetryReady(j) THEN NoWorker ELSE owner[j]]
    /\ lease' = [j \in Jobs |-> IF RetryReady(j) THEN "none" ELSE lease[j]]
    /\ UNCHANGED <<attempts, due, cancelReq, step, run>>

Stale(j) == lease[j] = "expired" /\ status[j] \in Held \cup {"cancelling"}

\* Mutant: the last attempt is counted one too early.
GiveUpEarly(j) ==
    IF status[j] = "cancelling" THEN "cancelled"
    ELSE IF attempts[j] >= MaxAttempts - 1 THEN "failed" ELSE "queued"

\* Mutant: the last attempt is counted one too late.
GiveUpLate(j) ==
    IF status[j] = "cancelling" THEN "cancelled"
    ELSE IF attempts[j] > MaxAttempts THEN "failed" ELSE "queued"

AfterExpiry(j) ==
    IF status[j] = "cancelling" THEN "cancelled"
    ELSE IF attempts[j] >= MaxAttempts THEN "failed"
    ELSE "queued"

\* At most 100 rows, and rows locked by others are skipped: any batch.
ExpireStaleLeases ==
    \E batch \in SUBSET {j \in Jobs : Stale(j)} :
        /\ batch # {}
        /\ status' = [j \in Jobs |-> IF j \in batch THEN AfterExpiry(j) ELSE status[j]]
        /\ owner' = [j \in Jobs |-> IF j \in batch THEN NoWorker ELSE owner[j]]
        /\ lease' = [j \in Jobs |-> IF j \in batch THEN "none" ELSE lease[j]]
        /\ run' = [j \in Jobs |-> IF /\ j \in batch
                                     /\ AfterExpiry(j) \in {"failed", "cancelled"}
                                     /\ run[j] = "running"
                                  THEN AfterExpiry(j) ELSE run[j]]
        /\ UNCHANGED <<attempts, due, cancelReq, step>>

-----------------------------------------------------------------------------
(* Steps of one attempt.                                                   *)

\* (job, name, attempt) is unique, so an attempt starts its step once.
StartStep(j, w, v) ==
    /\ LiveClaim(j, w, v)
    /\ step[j][attempts[j]] = "none"
    /\ step' = [step EXCEPT ![j][attempts[j]] = "running"]
    /\ UNCHANGED <<status, owner, lease, attempts, due, cancelReq, run>>

\* Mutant: ownership is checked, cancellation is not.
MayCloseOwned(j, a, w, v) ==
    owner[j] # NoWorker /\ Matches(j, w, v) /\ a = attempts[j] /\ step[j][a] = "running"

\* The step of attempt a may be closed by a caller that names it.
MayClose(j, a, w, v) ==
    /\ LiveClaim(j, w, v)
    /\ a = attempts[j]
    /\ step[j][a] = "running"

CompleteStep(j, a, w, v) ==
    /\ MayClose(j, a, w, v)
    /\ step' = [step EXCEPT ![j][a] = "completed"]
    /\ UNCHANGED <<status, owner, lease, attempts, due, cancelReq, run>>

FailStep(j, a, w, v, retryable) ==
    /\ MayClose(j, a, w, v)
    /\ step' = [step EXCEPT ![j][a] = "failed"]
    /\ ClearLease(j)
    /\ IF ~retryable \/ attempts[j] >= MaxAttempts
       THEN /\ status' = [status EXCEPT ![j] = "failed"]
            /\ RunMovesTo(j, "failed")
            /\ UNCHANGED due
       ELSE /\ status' = [status EXCEPT ![j] = "retry_wait"]
            /\ due' = [due EXCEPT ![j] = FALSE]
            /\ UNCHANGED run
    /\ UNCHANGED <<attempts, cancelReq>>

-----------------------------------------------------------------------------
(* Cancellation and completion.                                            *)

MayCancel(j, w, v) == status[j] \notin Terminal \cup {"absent"} /\ Matches(j, w, v)

\* A held job waits for its worker; any other one, one that is already
\* cancelling included, is cancelled on the spot with its lease untouched.
Cancel(j, w, v) ==
    /\ MayCancel(j, w, v)
    /\ cancelReq' = [cancelReq EXCEPT ![j] = TRUE]
    /\ IF status[j] \in Held
       THEN /\ status' = [status EXCEPT ![j] = "cancelling"]
            /\ UNCHANGED run
       ELSE /\ status' = [status EXCEPT ![j] = "cancelled"]
            /\ RunMovesTo(j, "cancelled")
    /\ UNCHANGED <<owner, lease, attempts, due, step>>

MayConfirm(j, w, v) ==
    /\ owner[j] = w
    /\ status[j] = "cancelling"
    /\ v = 0 \/ attempts[j] = v

ConfirmCancelled(j, w, v) ==
    /\ MayConfirm(j, w, v)
    /\ status' = [status EXCEPT ![j] = "cancelled"]
    /\ ClearLease(j)
    /\ RunMovesTo(j, "cancelled")
    /\ UNCHANGED <<attempts, due, cancelReq, step>>

Succeed(j, w, v) ==
    /\ LiveClaim(j, w, v)
    /\ status' = [status EXCEPT ![j] = "succeeded"]
    /\ ClearLease(j)
    /\ RunMovesTo(j, "succeeded")
    /\ UNCHANGED <<attempts, due, cancelReq, step>>

\* job_model_budget: the first model call of a job without a run gives it one.
LinkRun(j) ==
    /\ status[j] \in Held
    /\ run[j] = "none"
    /\ run' = [run EXCEPT ![j] = "running"]
    /\ UNCHANGED <<status, owner, lease, attempts, due, cancelReq, step>>

\* cancel_work on the job's own run: job and run change in one transaction.
CancelRun(j) ==
    /\ run[j] = "running"
    /\ run' = [run EXCEPT ![j] = "cancelled"]
    /\ \/ /\ status[j] \in {"queued", "retry_wait", "waiting_user"}
          /\ status' = [status EXCEPT ![j] = "cancelled"]
          /\ cancelReq' = [cancelReq EXCEPT ![j] = TRUE]
          /\ ClearLease(j)
       \/ /\ status[j] \in Held
          /\ status' = [status EXCEPT ![j] = "cancelling"]
          /\ cancelReq' = [cancelReq EXCEPT ![j] = TRUE]
          /\ UNCHANGED <<owner, lease>>
       \/ /\ status[j] \in Terminal \cup {"cancelling"}
          /\ UNCHANGED <<status, cancelReq, owner, lease>>
    /\ UNCHANGED <<attempts, due, step>>

-----------------------------------------------------------------------------
(* The clock.                                                              *)

LeaseLapses(j) ==
    /\ lease[j] = "live"
    /\ lease' = [lease EXCEPT ![j] = "expired"]
    /\ UNCHANGED <<status, owner, attempts, due, cancelReq, step, run>>

BackoffElapses(j) ==
    /\ status[j] # "absent"
    /\ ~due[j]
    /\ due' = [due EXCEPT ![j] = TRUE]
    /\ UNCHANGED <<status, owner, lease, attempts, cancelReq, step, run>>

-----------------------------------------------------------------------------
(* Callers are not constrained here: any worker id and version, in any     *)
(* order; MaintenanceWorker and DelegatedWorker are the callers the hub has. *)

Caller == Workers \cup {NoWorker}
Version == Attempt \cup {0}

WorkerCalls(j) ==
    \E w \in Workers :
        \/ Claim(j, w)
        \/ \E v \in Version : \/ RenewLease(j, w, v)
                              \/ ReleaseLease(j, w, v)
                              \/ ConfirmCancelled(j, w, v)

ClaimCalls(j) ==
    \E w \in Caller, v \in Version :
        \/ StartStep(j, w, v)
        \/ \E a \in Attempt : \/ CompleteStep(j, a, w, v)
                              \/ \E r \in BOOLEAN : FailStep(j, a, w, v, r)
        \/ Cancel(j, w, v)
        \/ Succeed(j, w, v)

Next ==
    \/ \E j \in Jobs : \/ Submit(j)
                       \/ WorkerCalls(j)
                       \/ ClaimCalls(j)
                       \/ LinkRun(j)
                       \/ CancelRun(j)
                       \/ LeaseLapses(j)
                       \/ BackoffElapses(j)
    \/ \E w \in Workers : Heartbeat(w)
    \/ ReleaseReadyRetries
    \/ ExpireStaleLeases

Spec == Init /\ [][Next]_jobVars

-----------------------------------------------------------------------------
(* The promise: FencedJob, with the claim version as its token.            *)

Phase(j) ==
    IF status[j] \in {"queued", "retry_wait", "waiting_user"} THEN "waiting"
    ELSE IF status[j] \in Held THEN "held"
    ELSE IF status[j] = "cancelling" THEN "stopping"
    ELSE status[j]

Promise == INSTANCE FencedJob WITH
    MaxGrants <- MaxAttempts,
    phase <- [j \in Jobs |-> Phase(j)],
    token <- attempts,
    holder <- owner

\* The engine implements the promise: every transaction is one step of
\* FencedJob or changes nothing that it shows.
FencedJobSpec == Promise!Spec

-----------------------------------------------------------------------------
(* Safety.                                                                 *)

\* A job has a holder exactly while a worker owes it an answer: no path out
\* of a claim (release, step failure, success, confirmation, expiry, run
\* cancellation) leaves a lease on a job that may be claimed again, and no
\* path into one forgets it.  Only a job cancelled twice keeps its lease.
LeaseMatchesStatus ==
    \A j \in Jobs :
        /\ (owner[j] = NoWorker) <=> (lease[j] = "none")
        /\ status[j] \in Held \cup {"cancelling"} => owner[j] # NoWorker /\ attempts[j] > 0
        /\ owner[j] # NoWorker => status[j] \in Held \cup {"cancelling", "cancelled"}

\* A job waits for a retry only when it has an attempt left, and it fails
\* only because its last attempt closed its step as failed or because no
\* attempt is left: neither fail_step nor lease expiry can drop it early or
\* park it where release_ready_retries never looks.
RetryAccounting ==
    \A j \in Jobs :
        /\ status[j] = "retry_wait" =>
              attempts[j] \in 1..(MaxAttempts - 1) /\ step[j][attempts[j]] = "failed"
        /\ status[j] = "failed" =>
              /\ attempts[j] > 0
              /\ attempts[j] = MaxAttempts \/ step[j][attempts[j]] = "failed"

\* The user sees the run, the worker sees the job: whichever transaction ends
\* one of them (fail_step, cancel, confirm_cancelled, succeed, expiry,
\* cancel_work), they never tell different stories.
RunFollowsJob ==
    \A j \in Jobs :
        /\ status[j] \in Terminal => run[j] \in {"none", status[j]}
        /\ run[j] \in {"succeeded", "failed"} => status[j] = run[j]
        /\ run[j] = "cancelled" => status[j] \in {"cancelling", "cancelled"}

\* A request to cancel is remembered by every handler that touches the row.
CancelIsRemembered ==
    \A j \in Jobs : cancelReq[j] <=> status[j] \in {"cancelling", "cancelled"}

\* Fencing: once the claim of version v is not live (lapsed, cancelled,
\* closed or superseded), nothing a late worker or a late renewal does makes
\* it live again.
DeadClaimsStay(j) ==
    \A w \in Workers, v \in Attempt :
        v <= attempts[j] /\ LiveClaim(j, w, v)' => LiveClaim(j, w, v)

ClaimNeverRevives == [][\A j \in Jobs : DeadClaimsStay(j)]_jobVars

\* After the request to cancel, no step starts or closes, no attempt begins
\* and the job can only end cancelled.
CancelKept(j) ==
    cancelReq[j] =>
        /\ step'[j] = step[j] /\ attempts'[j] = attempts[j]
        /\ status'[j] \in {"cancelling", "cancelled"}

CancelStopsWork == [][\A j \in Jobs : CancelKept(j)]_jobVars

\* A finished job is never touched again by any answer that comes late.
FinalKept(j) ==
    status[j] \in Terminal =>
        /\ status'[j] = status[j] /\ attempts'[j] = attempts[j]
        /\ owner'[j] = owner[j] /\ step'[j] = step[j] /\ run'[j] = run[j]

TerminalIsFinal == [][\A j \in Jobs : FinalKept(j)]_jobVars
=============================================================================
