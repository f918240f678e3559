--------------------------- MODULE JobEngineProofs ---------------------------
(***************************************************************************)
(* Proofs about JobEngine, for any jobs, workers and number of attempts.   *)
(***************************************************************************)
EXTENDS JobEngine, TLAPS

\* The inductive invariant, relative to TypeOK.
Inv == LeaseMatchesStatus /\ CancelIsRemembered /\ RunFollowsJob /\ RetryAccounting

\* No transaction puts a column outside its domain: in particular no claim
\* counts an attempt beyond max_attempts (JobEngine.claim).
LEMMA TypeStep == ASSUME TypeOK, [Next]_jobVars PROVE TypeOK'
<1> USE EngineAssumption DEF TypeOK, Attempt, JobStatus, Held, Terminal, Version, Caller
<1>1. TypeOK /\ [Next]_jobVars
  OBVIOUS
<1>2. TypeOK'
  <2>1. ASSUME NEW j \in Jobs, Submit(j) PROVE TypeOK'
    BY <1>1, <2>1 DEF Submit
  <2>2. ASSUME NEW j \in Jobs, WorkerCalls(j) PROVE TypeOK'
    <3>1. ASSUME NEW w \in Workers, Claim(j, w) PROVE TypeOK'
      BY <1>1, <3>1 DEF Claim, Claimable
    <3>2. ASSUME NEW w \in Workers, NEW v \in Version, RenewLease(j, w, v) PROVE TypeOK'
      BY <1>1, <3>2 DEF RenewLease, MayRenew
    <3>3. ASSUME NEW w \in Workers, NEW v \in Version, ReleaseLease(j, w, v) PROVE TypeOK'
      BY <1>1, <3>3 DEF ReleaseLease, ClearLease
    <3>4. ASSUME NEW w \in Workers, NEW v \in Version, ConfirmCancelled(j, w, v) PROVE TypeOK'
      BY <1>1, <3>4 DEF ConfirmCancelled, MayConfirm, ClearLease, RunMovesTo
    <3>5. QED
      BY <2>2, <3>1, <3>2, <3>3, <3>4 DEF WorkerCalls
  <2>3. ASSUME NEW j \in Jobs, ClaimCalls(j) PROVE TypeOK'
    <3>1. ASSUME NEW w \in Caller, NEW v \in Version, 
                StartStep(j, w, v)
         PROVE  TypeOK'
      BY <1>1, <3>1 DEF StartStep, LiveClaim, Matches
    <3>2. ASSUME NEW w \in Caller, NEW v \in Version, NEW a \in Attempt, 
                CompleteStep(j, a, w, v)
         PROVE  TypeOK'
      BY <1>1, <3>2 DEF CompleteStep, MayClose, LiveClaim, Matches
    <3>3. ASSUME NEW w \in Caller, NEW v \in Version, NEW a \in Attempt, NEW r \in BOOLEAN, 
                FailStep(j, a, w, v, r)
         PROVE  TypeOK'
      BY <1>1, <3>3 DEF FailStep, MayClose, LiveClaim, Matches, ClearLease, RunMovesTo
    <3>4. ASSUME NEW w \in Caller, NEW v \in Version, 
                Cancel(j, w, v)
         PROVE  TypeOK'
      BY <1>1, <3>4 DEF Cancel, MayCancel, Matches, RunMovesTo
    <3>5. ASSUME NEW w \in Caller, NEW v \in Version, 
                Succeed(j, w, v)
         PROVE  TypeOK'
      BY <1>1, <3>5 DEF Succeed, LiveClaim, Matches, ClearLease, RunMovesTo
    <3>6. QED
      BY <2>3, <3>1, <3>2, <3>3, <3>4, <3>5 DEF ClaimCalls
  <2>4. ASSUME NEW j \in Jobs, LinkRun(j) PROVE TypeOK'
    BY <1>1, <2>4 DEF LinkRun
  <2>5. ASSUME NEW j \in Jobs, CancelRun(j) PROVE TypeOK'
    BY <1>1, <2>5 DEF CancelRun, ClearLease
  <2>6. ASSUME NEW j \in Jobs, LeaseLapses(j) PROVE TypeOK'
    BY <1>1, <2>6 DEF LeaseLapses
  <2>7. ASSUME NEW j \in Jobs, BackoffElapses(j) PROVE TypeOK'
    BY <1>1, <2>7 DEF BackoffElapses
  <2>8. ASSUME NEW w \in Workers, Heartbeat(w) PROVE TypeOK'
    BY <1>1, <2>8 DEF Heartbeat, MayRenew
  <2>9. CASE ReleaseReadyRetries
    BY <1>1, <2>9 DEF ReleaseReadyRetries, RetryReady
  <2>10. CASE ExpireStaleLeases
    BY <1>1, <2>10 DEF ExpireStaleLeases, Stale, AfterExpiry
  <2>11. CASE UNCHANGED jobVars
    BY <1>1, <2>11 DEF jobVars
  <2>12. QED
    BY <1>1, <2>1, <2>2, <2>3, <2>4, <2>5, <2>6, <2>7, <2>8, <2>9, <2>10, <2>11 DEF Next
<1>3. QED
  BY <1>2

\* Every column of job and job_step keeps its domain.
THEOREM TypeCorrect == Spec => []TypeOK
<1>1. Init => TypeOK
  BY EngineAssumption DEF Init, TypeOK, Attempt
<1>2. TypeOK /\ [Next]_jobVars => TypeOK'
  BY TypeStep
<1>3. QED
  BY <1>1, <1>2, PTL DEF Spec

\* One step of any caller, of the sweeps or of the clock preserves Inv.
LEMMA InvStep ==
    ASSUME TypeOK, TypeOK', Inv, [Next]_jobVars
    PROVE  Inv'
<1> USE EngineAssumption DEF TypeOK, Attempt, JobStatus, Held, Terminal, Version, Caller
<1>1. TypeOK /\ TypeOK' /\ Inv /\ [Next]_jobVars
  OBVIOUS
<1>2. Inv'
  <2>1. ASSUME NEW j \in Jobs, Submit(j) PROVE Inv'
    BY <1>1, <2>1 DEF Inv, LeaseMatchesStatus, CancelIsRemembered, RunFollowsJob, RetryAccounting, Submit
  <2>2. ASSUME NEW j \in Jobs, WorkerCalls(j) PROVE Inv'
    <3>1. ASSUME NEW w \in Workers, Claim(j, w) PROVE Inv'
      BY <1>1, <3>1 DEF Inv, LeaseMatchesStatus, CancelIsRemembered, RunFollowsJob, RetryAccounting, Claim, Claimable
    <3>2. ASSUME NEW w \in Workers, NEW v \in Version, RenewLease(j, w, v) PROVE Inv'
      BY <1>1, <3>2 DEF Inv, LeaseMatchesStatus, CancelIsRemembered, RunFollowsJob, RetryAccounting, RenewLease, MayRenew
    <3>3. ASSUME NEW w \in Workers, NEW v \in Version, ReleaseLease(j, w, v) PROVE Inv'
      BY <1>1, <3>3 DEF Inv, LeaseMatchesStatus, CancelIsRemembered, RunFollowsJob, RetryAccounting, ReleaseLease, ClearLease
    <3>4. ASSUME NEW w \in Workers, NEW v \in Version, ConfirmCancelled(j, w, v) PROVE Inv'
      BY <1>1, <3>4 DEF Inv, LeaseMatchesStatus, CancelIsRemembered, RunFollowsJob, RetryAccounting, ConfirmCancelled, MayConfirm, ClearLease, RunMovesTo
    <3>5. QED
      BY <2>2, <3>1, <3>2, <3>3, <3>4 DEF WorkerCalls
  <2>3. ASSUME NEW j \in Jobs, ClaimCalls(j) PROVE Inv'
    <3>1. ASSUME NEW w \in Caller, NEW v \in Version, 
                StartStep(j, w, v)
         PROVE  Inv'
      BY <1>1, <3>1 DEF Inv, LeaseMatchesStatus, CancelIsRemembered, RunFollowsJob, RetryAccounting, StartStep
    <3>2. ASSUME NEW w \in Caller, NEW v \in Version, NEW a \in Attempt, 
                CompleteStep(j, a, w, v)
         PROVE  Inv'
      BY <1>1, <3>2 DEF Inv, LeaseMatchesStatus, CancelIsRemembered, RunFollowsJob, RetryAccounting, CompleteStep, MayClose
    <3>3. ASSUME NEW w \in Caller, NEW v \in Version, NEW a \in Attempt, NEW r \in BOOLEAN, 
                FailStep(j, a, w, v, r)
         PROVE  Inv'
      <4> status[j] \in Held /\ ~cancelReq[j]
        BY <3>3 DEF FailStep, MayClose, LiveClaim
      <4>1. LeaseMatchesStatus'
        BY <1>1, <3>3 DEF Inv, LeaseMatchesStatus, FailStep, ClearLease
      <4>2. CancelIsRemembered'
        BY <1>1, <3>3 DEF Inv, CancelIsRemembered, FailStep, RunMovesTo
      <4>3. RunFollowsJob'
        <5>1. CASE ~r \/ attempts[j] >= MaxAttempts
          <6>1. /\ status' = [status EXCEPT ![j] = "failed"]
                /\ run' = IF run[j] = "running" THEN [run EXCEPT ![j] = "failed"] ELSE run
            BY <3>3, <5>1 DEF FailStep, RunMovesTo
          <6>2. QED
            BY <1>1, <6>1 DEF Inv, RunFollowsJob
        <5>2. CASE ~(~r \/ attempts[j] >= MaxAttempts)
          <6>1. status' = [status EXCEPT ![j] = "retry_wait"] /\ run' = run
            BY <3>3, <5>2 DEF FailStep
          <6>2. QED
            BY <1>1, <6>1 DEF Inv, RunFollowsJob
        <5>3. QED
          BY <5>1, <5>2
      <4>4. RetryAccounting'
        BY <1>1, <3>3 DEF Inv, RetryAccounting, FailStep, MayClose
      <4>5. QED
        BY <4>1, <4>2, <4>3, <4>4 DEF Inv
    <3>4. ASSUME NEW w \in Caller, NEW v \in Version, 
                Cancel(j, w, v)
         PROVE  Inv'
      <4>1. LeaseMatchesStatus'
        BY <1>1, <3>4 DEF Inv, LeaseMatchesStatus, Cancel, MayCancel
      <4>2. CancelIsRemembered'
        BY <1>1, <3>4 DEF Inv, CancelIsRemembered, Cancel, MayCancel, Matches, RunMovesTo
      <4>3. RunFollowsJob'
        <5>1. CASE status[j] \in Held
          <6>1. status' = [status EXCEPT ![j] = "cancelling"] /\ run' = run
            BY <3>4, <5>1 DEF Cancel
          <6>2. QED
            BY <1>1, <5>1, <6>1 DEF Inv, RunFollowsJob
        <5>2. CASE status[j] \notin Held
          <6>1. /\ status[j] \notin Terminal
                /\ status' = [status EXCEPT ![j] = "cancelled"]
                /\ run' = IF run[j] = "running" THEN [run EXCEPT ![j] = "cancelled"] ELSE run
            BY <3>4, <5>2 DEF Cancel, MayCancel, RunMovesTo
          <6>2. QED
            BY <1>1, <6>1 DEF Inv, RunFollowsJob
        <5>3. QED
          BY <5>1, <5>2
      <4>4. RetryAccounting'
        BY <1>1, <3>4 DEF Inv, RetryAccounting, Cancel
      <4>5. QED
        BY <4>1, <4>2, <4>3, <4>4 DEF Inv
    <3>5. ASSUME NEW w \in Caller, NEW v \in Version, 
                Succeed(j, w, v)
         PROVE  Inv'
      BY <1>1, <3>5 DEF Inv, LeaseMatchesStatus, CancelIsRemembered, RunFollowsJob, RetryAccounting, Succeed, LiveClaim, ClearLease, RunMovesTo
    <3>6. QED
      BY <2>3, <3>1, <3>2, <3>3, <3>4, <3>5 DEF ClaimCalls
  <2>4. ASSUME NEW j \in Jobs, LinkRun(j) PROVE Inv'
    BY <1>1, <2>4 DEF Inv, LeaseMatchesStatus, CancelIsRemembered, RunFollowsJob, RetryAccounting, LinkRun
  <2>5. ASSUME NEW j \in Jobs, CancelRun(j) PROVE Inv'
    <3>1. LeaseMatchesStatus'
      BY <1>1, <2>5 DEF Inv, LeaseMatchesStatus, CancelRun, ClearLease
    <3>2. CancelIsRemembered'
      BY <1>1, <2>5 DEF Inv, CancelIsRemembered, CancelRun, ClearLease
    <3>3. RunFollowsJob'
      BY <1>1, <2>5 DEF Inv, RunFollowsJob, CancelRun, ClearLease
    <3>4. RetryAccounting'
      BY <1>1, <2>5 DEF Inv, LeaseMatchesStatus, RetryAccounting, CancelRun, ClearLease
    <3>5. QED
      BY <3>1, <3>2, <3>3, <3>4 DEF Inv
  <2>6. ASSUME NEW j \in Jobs, LeaseLapses(j) PROVE Inv'
    BY <1>1, <2>6 DEF Inv, LeaseMatchesStatus, CancelIsRemembered, RunFollowsJob, RetryAccounting, LeaseLapses
  <2>7. ASSUME NEW j \in Jobs, BackoffElapses(j) PROVE Inv'
    BY <1>1, <2>7 DEF Inv, LeaseMatchesStatus, CancelIsRemembered, RunFollowsJob, RetryAccounting, BackoffElapses
  <2>8. ASSUME NEW w \in Workers, Heartbeat(w) PROVE Inv'
    BY <1>1, <2>8 DEF Inv, LeaseMatchesStatus, CancelIsRemembered, RunFollowsJob, RetryAccounting, Heartbeat, MayRenew
  <2>9. CASE ReleaseReadyRetries
    BY <1>1, <2>9 DEF Inv, LeaseMatchesStatus, CancelIsRemembered, RunFollowsJob, RetryAccounting, ReleaseReadyRetries, RetryReady
  <2>10. CASE ExpireStaleLeases
    <3>1. LeaseMatchesStatus'
      BY <1>1, <2>10 DEF Inv, LeaseMatchesStatus, ExpireStaleLeases, Stale, AfterExpiry
    <3>2. CancelIsRemembered'
      <4>1. ASSUME NEW k \in Jobs
            PROVE  /\ cancelReq'[k] = cancelReq[k]
                   /\ status'[k] \in {"cancelling", "cancelled"}
                         <=> status[k] \in {"cancelling", "cancelled"}
        <5>1. PICK batch \in SUBSET {i \in Jobs : Stale(i)} :
                 /\ status' = [i \in Jobs |-> IF i \in batch THEN AfterExpiry(i)
                                                            ELSE status[i]]
                 /\ cancelReq' = cancelReq
          BY <2>10 DEF ExpireStaleLeases
        <5>2. CASE k \in batch
          <6>1. status[k] \in Held \cup {"cancelling"} /\ status'[k] = AfterExpiry(k)
            BY <5>1, <5>2 DEF Stale
          <6>2. QED
            BY <5>1, <6>1 DEF AfterExpiry
        <5>3. CASE k \notin batch
          BY <5>1, <5>3
        <5>4. QED
          BY <5>2, <5>3
      <4>2. QED
        BY <1>1, <4>1 DEF Inv, CancelIsRemembered
    <3>3. RunFollowsJob'
      BY <1>1, <2>10 DEF Inv, RunFollowsJob, ExpireStaleLeases, Stale, AfterExpiry
    <3>4. RetryAccounting'
      BY <1>1, <2>10 DEF Inv, LeaseMatchesStatus, RetryAccounting, ExpireStaleLeases, Stale, AfterExpiry
    <3>5. QED
      BY <3>1, <3>2, <3>3, <3>4 DEF Inv
  <2>11. CASE UNCHANGED jobVars
    BY <1>1, <2>11 DEF Inv, LeaseMatchesStatus, CancelIsRemembered, RunFollowsJob, RetryAccounting, jobVars
  <2>12. QED
    BY <1>1, <2>1, <2>2, <2>3, <2>4, <2>5, <2>6, <2>7, <2>8, <2>9, <2>10, <2>11 DEF Next
<1>3. QED
  BY <1>2

\* The whole safety invariant of the engine: leases match the status, a
\* cancellation is remembered, the run tells the story of the job and no
\* retry is lost or invented.
THEOREM InvCorrect == Spec => []Inv
<1>1. Init => Inv
  BY DEF Init, Inv, LeaseMatchesStatus, CancelIsRemembered, RunFollowsJob, RetryAccounting,
         Held, Terminal
<1>2. TypeOK /\ TypeOK' /\ Inv /\ [Next]_jobVars => Inv'
  BY InvStep
<1>3. QED
  BY <1>1, <1>2, TypeCorrect, PTL DEF Spec

\* Whatever path takes a job out of a claim, it clears the lease, and only a
\* job cancelled twice keeps one: no transaction of JobEngine breaks it.
THEOREM LeaseCorrect == Spec => []LeaseMatchesStatus
<1>1. Inv => LeaseMatchesStatus
  BY DEF Inv
<1>2. QED
  BY <1>1, InvCorrect, PTL

\* fail_step and expire_stale_leases neither park nor drop a job that has an
\* attempt left.
THEOREM RetryCorrect == Spec => []RetryAccounting
<1>1. Inv => RetryAccounting
  BY DEF Inv
<1>2. QED
  BY <1>1, InvCorrect, PTL

\* The run the user sees and the job the worker sees end the same way.
THEOREM RunCorrect == Spec => []RunFollowsJob
<1>1. Inv => RunFollowsJob
  BY DEF Inv
<1>2. QED
  BY <1>1, InvCorrect, PTL

\* No handler that rewrites the row forgets that cancellation was requested,
\* and none invents a request.
THEOREM CancelCorrect == Spec => []CancelIsRemembered
<1>1. Inv => CancelIsRemembered
  BY DEF Inv
<1>2. QED
  BY <1>1, InvCorrect, PTL

-----------------------------------------------------------------------------
(* Action properties: what one transaction never does to a row.            *)

\* What one step does to one row: the three action properties, job by job.
LEMMA RowStep ==
    ASSUME TypeOK, TypeOK', Inv, [Next]_jobVars, NEW k \in Jobs
    PROVE  FinalKept(k) /\ CancelKept(k) /\ DeadClaimsStay(k)
<1> USE EngineAssumption DEF TypeOK, Attempt, JobStatus, Held, Terminal, Version, Caller
<1>1. TypeOK /\ TypeOK' /\ Inv /\ [Next]_jobVars
  OBVIOUS
<1>2. FinalKept(k) /\ CancelKept(k) /\ DeadClaimsStay(k)
  <2>1. ASSUME NEW j \in Jobs, Submit(j) PROVE FinalKept(k) /\ CancelKept(k) /\ DeadClaimsStay(k)
    BY <1>1, <2>1 DEF Inv, CancelIsRemembered, FinalKept, CancelKept, DeadClaimsStay, LiveClaim, Matches, Submit
  <2>2. ASSUME NEW j \in Jobs, WorkerCalls(j) PROVE FinalKept(k) /\ CancelKept(k) /\ DeadClaimsStay(k)
    <3>1. ASSUME NEW w \in Workers, Claim(j, w) PROVE FinalKept(k) /\ CancelKept(k) /\ DeadClaimsStay(k)
      BY <1>1, <3>1 DEF Inv, CancelIsRemembered, FinalKept, CancelKept, DeadClaimsStay, LiveClaim, Matches, Claim, Claimable
    <3>2. ASSUME NEW w \in Workers, NEW v \in Version, RenewLease(j, w, v) PROVE FinalKept(k) /\ CancelKept(k) /\ DeadClaimsStay(k)
      BY <1>1, <3>2 DEF Inv, CancelIsRemembered, FinalKept, CancelKept, DeadClaimsStay, LiveClaim, Matches, RenewLease, MayRenew
    <3>3. ASSUME NEW w \in Workers, NEW v \in Version, ReleaseLease(j, w, v) PROVE FinalKept(k) /\ CancelKept(k) /\ DeadClaimsStay(k)
      BY <1>1, <3>3 DEF Inv, CancelIsRemembered, FinalKept, CancelKept, DeadClaimsStay, LiveClaim, Matches, ReleaseLease, ClearLease
    <3>4. ASSUME NEW w \in Workers, NEW v \in Version, ConfirmCancelled(j, w, v) PROVE FinalKept(k) /\ CancelKept(k) /\ DeadClaimsStay(k)
      BY <1>1, <3>4 DEF Inv, CancelIsRemembered, FinalKept, CancelKept, DeadClaimsStay, LiveClaim, Matches, ConfirmCancelled, MayConfirm, ClearLease, RunMovesTo
    <3>5. QED
      BY <2>2, <3>1, <3>2, <3>3, <3>4 DEF WorkerCalls
  <2>3. ASSUME NEW j \in Jobs, ClaimCalls(j) PROVE FinalKept(k) /\ CancelKept(k) /\ DeadClaimsStay(k)
    <3>1. ASSUME NEW w \in Caller, NEW v \in Version, 
                StartStep(j, w, v)
         PROVE  FinalKept(k) /\ CancelKept(k) /\ DeadClaimsStay(k)
      BY <1>1, <3>1 DEF Inv, CancelIsRemembered, FinalKept, CancelKept, DeadClaimsStay, LiveClaim, Matches, StartStep, LiveClaim, Matches
    <3>2. ASSUME NEW w \in Caller, NEW v \in Version, NEW a \in Attempt, 
                CompleteStep(j, a, w, v)
         PROVE  FinalKept(k) /\ CancelKept(k) /\ DeadClaimsStay(k)
      BY <1>1, <3>2 DEF Inv, CancelIsRemembered, FinalKept, CancelKept, DeadClaimsStay, LiveClaim, Matches, CompleteStep, MayClose, LiveClaim, Matches
    <3>3. ASSUME NEW w \in Caller, NEW v \in Version, NEW a \in Attempt, NEW r \in BOOLEAN, 
                FailStep(j, a, w, v, r)
         PROVE  FinalKept(k) /\ CancelKept(k) /\ DeadClaimsStay(k)
      BY <1>1, <3>3 DEF Inv, CancelIsRemembered, FinalKept, CancelKept, DeadClaimsStay, LiveClaim, Matches, FailStep, MayClose, LiveClaim, Matches, ClearLease, RunMovesTo
    <3>4. ASSUME NEW w \in Caller, NEW v \in Version, 
                Cancel(j, w, v)
         PROVE  FinalKept(k) /\ CancelKept(k) /\ DeadClaimsStay(k)
      BY <1>1, <3>4 DEF Inv, CancelIsRemembered, FinalKept, CancelKept, DeadClaimsStay, LiveClaim, Matches, Cancel, MayCancel, Matches, RunMovesTo
    <3>5. ASSUME NEW w \in Caller, NEW v \in Version, 
                Succeed(j, w, v)
         PROVE  FinalKept(k) /\ CancelKept(k) /\ DeadClaimsStay(k)
      BY <1>1, <3>5 DEF Inv, CancelIsRemembered, FinalKept, CancelKept, DeadClaimsStay, LiveClaim, Matches, Succeed, LiveClaim, Matches, ClearLease, RunMovesTo
    <3>6. QED
      BY <2>3, <3>1, <3>2, <3>3, <3>4, <3>5 DEF ClaimCalls
  <2>4. ASSUME NEW j \in Jobs, LinkRun(j) PROVE FinalKept(k) /\ CancelKept(k) /\ DeadClaimsStay(k)
    BY <1>1, <2>4 DEF Inv, CancelIsRemembered, FinalKept, CancelKept, DeadClaimsStay, LiveClaim, Matches, LinkRun
  <2>5. ASSUME NEW j \in Jobs, CancelRun(j) PROVE FinalKept(k) /\ CancelKept(k) /\ DeadClaimsStay(k)
    BY <1>1, <2>5 DEF Inv, CancelIsRemembered, RunFollowsJob, FinalKept, CancelKept, DeadClaimsStay, LiveClaim, Matches, CancelRun, ClearLease
  <2>6. ASSUME NEW j \in Jobs, LeaseLapses(j) PROVE FinalKept(k) /\ CancelKept(k) /\ DeadClaimsStay(k)
    BY <1>1, <2>6 DEF Inv, CancelIsRemembered, FinalKept, CancelKept, DeadClaimsStay, LiveClaim, Matches, LeaseLapses
  <2>7. ASSUME NEW j \in Jobs, BackoffElapses(j) PROVE FinalKept(k) /\ CancelKept(k) /\ DeadClaimsStay(k)
    BY <1>1, <2>7 DEF Inv, CancelIsRemembered, FinalKept, CancelKept, DeadClaimsStay, LiveClaim, Matches, BackoffElapses
  <2>8. ASSUME NEW w \in Workers, Heartbeat(w) PROVE FinalKept(k) /\ CancelKept(k) /\ DeadClaimsStay(k)
    BY <1>1, <2>8 DEF Inv, CancelIsRemembered, FinalKept, CancelKept, DeadClaimsStay, LiveClaim, Matches, Heartbeat, MayRenew
  <2>9. CASE ReleaseReadyRetries
    BY <1>1, <2>9 DEF Inv, CancelIsRemembered, FinalKept, CancelKept, DeadClaimsStay, LiveClaim, Matches, ReleaseReadyRetries, RetryReady
  <2>10. CASE ExpireStaleLeases
    BY <1>1, <2>10 DEF Inv, CancelIsRemembered, FinalKept, CancelKept, DeadClaimsStay, LiveClaim, Matches, ExpireStaleLeases, Stale, AfterExpiry
  <2>11. CASE UNCHANGED jobVars
    BY <1>1, <2>11 DEF Inv, CancelIsRemembered, FinalKept, CancelKept, DeadClaimsStay, LiveClaim, Matches, jobVars
  <2>12. QED
    BY <1>1, <2>1, <2>2, <2>3, <2>4, <2>5, <2>6, <2>7, <2>8, <2>9, <2>10, <2>11 DEF Next
<1>3. QED
  BY <1>2

\* A claim that lapsed, was cancelled, closed or superseded stays dead: no
\* late renewal, heartbeat or answer makes it live again.
THEOREM Fencing == Spec => ClaimNeverRevives
<1>1. TypeOK /\ TypeOK' /\ Inv /\ [Next]_jobVars => [\A j \in Jobs : DeadClaimsStay(j)]_jobVars
  BY RowStep
<1>2. QED
  BY <1>1, TypeCorrect, InvCorrect, PTL DEF Spec, ClaimNeverRevives

\* After cancel (or cancel_work) no step starts or closes and no attempt
\* begins; the job can only end cancelled.
THEOREM CancelIsHonoured == Spec => CancelStopsWork
<1>1. TypeOK /\ TypeOK' /\ Inv /\ [Next]_jobVars => [\A j \in Jobs : CancelKept(j)]_jobVars
  BY RowStep
<1>2. QED
  BY <1>1, TypeCorrect, InvCorrect, PTL DEF Spec, CancelStopsWork

\* A late answer of any worker leaves a finished job, its steps and its run
\* as they are.
THEOREM OutcomeIsFinal == Spec => TerminalIsFinal
<1>1. TypeOK /\ TypeOK' /\ Inv /\ [Next]_jobVars => [\A j \in Jobs : FinalKept(j)]_jobVars
  BY RowStep
<1>2. QED
  BY <1>1, TypeCorrect, InvCorrect, PTL DEF Spec, TerminalIsFinal

-----------------------------------------------------------------------------
(* The refinement: every transaction of the engine is one step of          *)
(* FencedJob, seen through Phase, the claim version and the lease owner,   *)
(* or changes none of the three.                                           *)

Promised == Promise!Next \/ UNCHANGED Promise!vars

\* submit is the acceptance of the promise.
LEMMA SubmitStep == ASSUME TypeOK, NEW j \in Jobs, Submit(j) PROVE Promise!Accept(j)
BY DEF TypeOK, Submit, Phase, Held, Promise!Accept, Promise!MoveTo

\* A successful claim is a grant whose token is the new attempt number.
LEMMA GrantStep ==
    ASSUME TypeOK, NEW j \in Jobs, NEW w \in Workers, Claim(j, w)
    PROVE  Promise!Grant(j, w)
BY DEF TypeOK, Claim, Claimable, Phase, Held, Promise!Grant, Promise!MoveTo

\* release_lease gives the job back.
LEMMA ReleaseStep ==
    ASSUME TypeOK, NEW j \in Jobs, NEW w, NEW v, ReleaseLease(j, w, v)
    PROVE  Promise!GiveBack(j)
BY DEF TypeOK, ReleaseLease, ClearLease, Phase, Held,
       Promise!GiveBack, Promise!MoveTo, Promise!Free

\* fail_step gives the job back for a retry or settles it as failed.
LEMMA FailStepStep ==
    ASSUME TypeOK, NEW j \in Jobs, NEW a, NEW w, NEW v, NEW r, FailStep(j, a, w, v, r)
    PROVE  Promise!GiveBack(j) \/ Promise!Settle(j, "failed")
<1>1. status[j] \in Held
  BY DEF FailStep, MayClose, LiveClaim
<1>2. CASE ~r \/ attempts[j] >= MaxAttempts
  <2>1. /\ status' = [status EXCEPT ![j] = "failed"]
        /\ owner' = [owner EXCEPT ![j] = NoWorker]
        /\ attempts' = attempts
    BY <1>2 DEF FailStep, ClearLease
  <2>2. QED
    BY <1>1, <2>1 DEF TypeOK, Phase, Held, Promise!Settle, Promise!MoveTo, Promise!Free
<1>3. CASE ~(~r \/ attempts[j] >= MaxAttempts)
  <2>1. /\ status' = [status EXCEPT ![j] = "retry_wait"]
        /\ owner' = [owner EXCEPT ![j] = NoWorker]
        /\ attempts' = attempts
    BY <1>3 DEF FailStep, ClearLease
  <2>2. QED
    BY <1>1, <2>1 DEF TypeOK, Phase, Held, Promise!GiveBack, Promise!MoveTo, Promise!Free
<1>4. QED
  BY <1>2, <1>3

\* succeed settles the grant.
LEMMA SucceedStep ==
    ASSUME TypeOK, NEW j \in Jobs, NEW w, NEW v, Succeed(j, w, v)
    PROVE  Promise!Settle(j, "succeeded")
BY DEF TypeOK, Succeed, LiveClaim, ClearLease, Phase, Held,
       Promise!Settle, Promise!MoveTo, Promise!Free

\* cancel asks the holder to stop, or stops a job without a worker at once.
LEMMA CancelStep ==
    ASSUME TypeOK, NEW j \in Jobs, NEW w, NEW v, Cancel(j, w, v)
    PROVE  Promise!AskToStop(j) \/ Promise!Stop(j)
<1>1. status[j] \notin Terminal \cup {"absent"}
  BY DEF Cancel, MayCancel
<1>2. CASE status[j] \in Held
  BY <1>2 DEF TypeOK, Cancel, Phase, Held, Promise!AskToStop, Promise!MoveTo
<1>3. CASE status[j] \notin Held
  <2>1. /\ status' = [status EXCEPT ![j] = "cancelled"]
        /\ UNCHANGED <<owner, attempts>>
    BY <1>3 DEF Cancel
  <2>2. Phase(j) \in {"waiting", "stopping"}
    BY <1>1, <1>3 DEF TypeOK, JobStatus, Terminal, Phase, Held
  <2>3. QED
    BY <2>1, <2>2 DEF TypeOK, Phase, Held, Promise!Stop, Promise!MoveTo
<1>4. QED
  BY <1>2, <1>3

\* confirm_cancelled stops a job whose holder agreed.
LEMMA ConfirmStep ==
    ASSUME TypeOK, NEW j \in Jobs, NEW w, NEW v, ConfirmCancelled(j, w, v)
    PROVE  Promise!Stop(j)
BY DEF TypeOK, ConfirmCancelled, MayConfirm, ClearLease, Phase, Held,
       Promise!Stop, Promise!MoveTo, Promise!Free

\* Cancelling the run does to its job what cancel does, or nothing more.
LEMMA CancelRunStep ==
    ASSUME TypeOK, NEW j \in Jobs, CancelRun(j)
    PROVE  Promise!AskToStop(j) \/ Promise!Stop(j) \/ UNCHANGED Promise!vars
<1>1. CASE status[j] \in {"queued", "retry_wait", "waiting_user"}
  <2>1. /\ status' = [status EXCEPT ![j] = "cancelled"]
        /\ owner' = [owner EXCEPT ![j] = NoWorker]
        /\ attempts' = attempts
    BY <1>1 DEF CancelRun, ClearLease, Held, Terminal
  <2>2. QED
    BY <1>1, <2>1 DEF TypeOK, Phase, Held, Promise!Stop, Promise!MoveTo, Promise!Free
<1>2. CASE status[j] \in Held
  <2>1. /\ status' = [status EXCEPT ![j] = "cancelling"]
        /\ UNCHANGED <<owner, attempts>>
    BY <1>2 DEF CancelRun, Held, Terminal
  <2>2. QED
    BY <1>2, <2>1 DEF TypeOK, Phase, Held, Promise!AskToStop, Promise!MoveTo
<1>3. CASE status[j] \in Terminal \cup {"cancelling"}
  BY <1>3 DEF TypeOK, CancelRun, Phase, Held, Terminal, Promise!vars
<1>4. QED
  BY <1>1, <1>2, <1>3 DEF CancelRun

\* Moving due retries to queued is invisible: both are waiting, without holder.
LEMMA RetryStep ==
    ASSUME TypeOK, Inv, ReleaseReadyRetries PROVE UNCHANGED Promise!vars
BY DEF TypeOK, Inv, LeaseMatchesStatus, ReleaseReadyRetries, RetryReady, Phase, Held, Promise!vars

\* A batch of expired leases is one housekeeping pass of the promise.
LEMMA ExpireStep ==
    ASSUME TypeOK, ExpireStaleLeases
    PROVE  \E lost \in SUBSET Jobs : lost # {} /\ Promise!Reap(lost)
<1>1. PICK batch \in SUBSET {i \in Jobs : Stale(i)} :
         /\ batch # {}
         /\ status' = [j \in Jobs |-> IF j \in batch THEN AfterExpiry(j) ELSE status[j]]
         /\ owner' = [j \in Jobs |-> IF j \in batch THEN NoWorker ELSE owner[j]]
         /\ UNCHANGED attempts
  BY DEF ExpireStaleLeases
<1> DEFINE outcome(j) == IF AfterExpiry(j) = "queued" THEN "waiting" ELSE AfterExpiry(j)
           result == [j \in batch |-> outcome(j)]
<1>2. batch \in SUBSET Jobs /\ \A j \in batch : status[j] \in Held \cup {"cancelling"}
  BY <1>1 DEF Stale
<1>3. result \in [batch -> {"waiting", "failed", "cancelled"}]
  BY DEF AfterExpiry
<1>4. \A j \in batch : Phase(j) \in {"held", "stopping"}
  BY <1>2 DEF Phase, Held
<1>5. ASSUME NEW j \in batch
      PROVE  /\ (Phase(j) = "stopping") <=> (result[j] = "cancelled")
             /\ result[j] = "failed" <=> Phase(j) = "held" /\ attempts[j] = MaxAttempts
  <2>1. attempts[j] \in Nat /\ MaxAttempts \in Nat /\ attempts[j] <= MaxAttempts
    BY <1>2, EngineAssumption DEF TypeOK
  <2>2. CASE status[j] = "cancelling"
    BY <2>2 DEF Phase, Held, AfterExpiry
  <2>3. CASE status[j] \in Held /\ attempts[j] = MaxAttempts
    BY <2>1, <2>3 DEF Phase, Held, AfterExpiry
  <2>4. CASE status[j] \in Held /\ attempts[j] # MaxAttempts
    BY <2>1, <2>4 DEF Phase, Held, AfterExpiry
  <2>5. QED
    BY <1>2, <2>2, <2>3, <2>4
<1>6. [j \in Jobs |-> Phase(j)]' = [j \in Jobs |-> IF j \in batch THEN result[j] ELSE Phase(j)]
  BY <1>1, <1>2 DEF Phase, Held, AfterExpiry, TypeOK
<1>7. Promise!Reap(batch)
  BY <1>1, <1>2, <1>3, <1>4, <1>5, <1>6 DEF Promise!Reap
<1>8. QED
  BY <1>1, <1>2, <1>7

\* One step of the engine is one step of the promise.
LEMMA PromiseStep == ASSUME TypeOK, Inv, [Next]_jobVars PROVE [Promise!Next]_Promise!vars
<1>1. ASSUME NEW j \in Jobs, WorkerCalls(j) PROVE Promised
  <2>1. ASSUME NEW w \in Workers, Claim(j, w) PROVE Promised
    BY <2>1, GrantStep DEF Promised, Promise!Next
  <2>2. ASSUME NEW w \in Workers, NEW v \in Version, ReleaseLease(j, w, v) PROVE Promised
    BY <2>2, ReleaseStep DEF Promised, Promise!Next
  <2>3. ASSUME NEW w \in Workers, NEW v \in Version, ConfirmCancelled(j, w, v) PROVE Promised
    BY <2>3, ConfirmStep DEF Promised, Promise!Next
  <2>4. ASSUME NEW w \in Workers, NEW v \in Version, RenewLease(j, w, v) PROVE Promised
    BY <2>4 DEF RenewLease, Phase, Promised, Promise!vars
  <2>5. QED
    BY <1>1, <2>1, <2>2, <2>3, <2>4 DEF WorkerCalls
<1>2. ASSUME NEW j \in Jobs, ClaimCalls(j) PROVE Promised
  <2>1. ASSUME NEW w, NEW v, StartStep(j, w, v) PROVE Promised
    BY <2>1 DEF StartStep, Phase, Promised, Promise!vars
  <2>2. ASSUME NEW a, NEW w, NEW v, CompleteStep(j, a, w, v) PROVE Promised
    BY <2>2 DEF CompleteStep, Phase, Promised, Promise!vars
  <2>3. ASSUME NEW a, NEW w, NEW v, NEW r, FailStep(j, a, w, v, r) PROVE Promised
    BY <2>3, FailStepStep DEF Promised, Promise!Next
  <2>4. ASSUME NEW w, NEW v, Cancel(j, w, v) PROVE Promised
    BY <2>4, CancelStep DEF Promised, Promise!Next
  <2>5. ASSUME NEW w, NEW v, Succeed(j, w, v) PROVE Promised
    BY <2>5, SucceedStep DEF Promised, Promise!Next
  <2>6. QED
    BY <1>2, <2>1, <2>2, <2>3, <2>4, <2>5 DEF ClaimCalls
<1>3. ASSUME NEW j \in Jobs, Submit(j) PROVE Promised
  BY <1>3, SubmitStep DEF Promised, Promise!Next
<1>4. ASSUME NEW j \in Jobs, CancelRun(j) PROVE Promised
  BY <1>4, CancelRunStep DEF Promised, Promise!Next
<1>5. ASSUME NEW j \in Jobs, LinkRun(j) \/ LeaseLapses(j) \/ BackoffElapses(j) PROVE Promised
  BY <1>5 DEF LinkRun, LeaseLapses, BackoffElapses, Phase, Promised, Promise!vars
<1>6. ASSUME NEW w \in Workers, Heartbeat(w) PROVE Promised
  BY <1>6 DEF Heartbeat, Phase, Promised, Promise!vars
<1>7. CASE ReleaseReadyRetries
  BY <1>7, RetryStep DEF Promised
<1>8. CASE ExpireStaleLeases
  BY <1>8, ExpireStep DEF Promised, Promise!Next
<1>9. CASE UNCHANGED jobVars
  BY <1>9 DEF jobVars, Phase, Promised, Promise!vars
<1>10. QED
  BY <1>1, <1>2, <1>3, <1>4, <1>5, <1>6, <1>7, <1>8, <1>9 DEF Next, Promised

\* The job engine keeps its promise to the rest of the hub: a job is granted
\* to one holder at a time, at most max_attempts times, it is settled only
\* while it is held, a stop request is honoured and an outcome is final.
THEOREM EngineKeepsPromise == Spec => FencedJobSpec
<1>1. Init => Promise!Init
  BY DEF Init, Phase, Held, Promise!Init
<1>2. TypeOK /\ Inv /\ [Next]_jobVars => [Promise!Next]_Promise!vars
  BY PromiseStep
<1>3. QED
  BY <1>1, <1>2, TypeCorrect, InvCorrect, PTL DEF Spec, FencedJobSpec, Promise!Spec

-----------------------------------------------------------------------------
(* What a worker keeps while others act: the lemmas its composition with   *)
(* the engine needs.                                                       *)

\* No claim of w begins, and the step of a live one is as it was.
OnlyLoses(w) ==
    \A j \in Jobs, v \in Attempt :
        LiveClaim(j, w, v)' => LiveClaim(j, w, v) /\ step'[j] = step[j]

\* A call of another worker cannot touch a job whose live claim is w's.
LEMMA OthersCall ==
    ASSUME TypeOK, NEW w \in Workers, NEW x \in Workers \ {w}, NEW k \in Jobs,
           NEW u, NEW a, NEW r,
           \/ Claim(k, x)
           \/ StartStep(k, x, u)
           \/ CompleteStep(k, a, x, u)
           \/ FailStep(k, a, x, u, r)
           \/ Succeed(k, x, u)
           \/ ConfirmCancelled(k, x, u)
    PROVE  OnlyLoses(w)
<1> USE EngineAssumption DEF TypeOK, OnlyLoses, LiveClaim, Matches, Held
<1>1. CASE Claim(k, x)
  BY <1>1 DEF Claim
<1>2. CASE StartStep(k, x, u)
  BY <1>2 DEF StartStep
<1>3. CASE CompleteStep(k, a, x, u)
  BY <1>3 DEF CompleteStep, MayClose
<1>4. CASE FailStep(k, a, x, u, r)
  BY <1>4 DEF FailStep, MayClose, ClearLease
<1>5. CASE Succeed(k, x, u)
  BY <1>5 DEF Succeed, ClearLease
<1>6. CASE ConfirmCancelled(k, x, u)
  BY <1>6 DEF ConfirmCancelled, MayConfirm, ClearLease
<1>7. QED
  BY <1>1, <1>2, <1>3, <1>4, <1>5, <1>6

\* Nor do the user, the sweeps, the clock, or the call that ends w's own
\* claim, begin one.
LEMMA PlainCall ==
    ASSUME TypeOK, NEW w \in Workers, NEW k \in Jobs, NEW c, NEW u,
           \/ Submit(k)
           \/ Cancel(k, c, u)
           \/ ConfirmCancelled(k, c, u)
           \/ CancelRun(k)
           \/ LinkRun(k)
           \/ LeaseLapses(k)
           \/ BackoffElapses(k)
    PROVE  OnlyLoses(w)
<1> USE EngineAssumption DEF TypeOK, OnlyLoses, LiveClaim, Matches, Held
<1>1. CASE Submit(k)
  BY <1>1 DEF Submit
<1>2. CASE Cancel(k, c, u)
  BY <1>2 DEF Cancel, MayCancel
<1>3. CASE ConfirmCancelled(k, c, u)
  BY <1>3 DEF ConfirmCancelled, MayConfirm, ClearLease
<1>4. CASE CancelRun(k)
  BY <1>4 DEF CancelRun, ClearLease, Terminal
<1>5. CASE LinkRun(k) \/ BackoffElapses(k)
  BY <1>5 DEF LinkRun, BackoffElapses
<1>6. CASE LeaseLapses(k)
  BY <1>6 DEF LeaseLapses
<1>7. QED
  BY <1>1, <1>2, <1>3, <1>4, <1>5, <1>6

LEMMA SweepCall ==
    ASSUME TypeOK, NEW w \in Workers,
           ReleaseReadyRetries \/ ExpireStaleLeases \/ UNCHANGED jobVars
    PROVE  OnlyLoses(w)
<1> USE EngineAssumption DEF TypeOK, OnlyLoses, LiveClaim, Matches, Held
<1>1. CASE ReleaseReadyRetries
  BY <1>1 DEF ReleaseReadyRetries
<1>2. CASE ExpireStaleLeases
  BY <1>2 DEF ExpireStaleLeases, AfterExpiry
<1>3. CASE UNCHANGED jobVars
  BY <1>3 DEF jobVars
<1>4. QED
  BY <1>1, <1>2, <1>3
=============================================================================
