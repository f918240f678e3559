-------------------------- MODULE MaintenanceProofs --------------------------
(***************************************************************************)
(* Proofs about MaintenanceWorker over the job engine, for any jobs,       *)
(* process incarnations and number of attempts.                            *)
(***************************************************************************)
EXTENDS MaintenanceWorker, JobEngineProofs

\* A worker in its cycle knows its job and the version of its claim.
Working(w) == pc[w] \in AtWork => cur[w] \in Jobs /\ ver[w] \in Attempt

\* How far the step of the claimed attempt is, by the place in the cycle.
Progress(w, j, v) ==
    /\ pc[w] \in {"check", "handle", "complete", "error", "fail"} => step[j][v] = "running"
    /\ pc[w] = "succeed" => step[j][v] = "completed"

\* A live claim of a live process is the one its cycle is about, and the
\* cycle has not passed the call that ends it.
HoldsOwn(w) ==
    \A j \in Jobs, v \in Attempt :
        LiveClaim(j, w, v) /\ pc[w] # "dead" =>
            /\ pc[w] \in AtWork \ {"confirm"}
            /\ cur[w] = j /\ ver[w] = v
            /\ Progress(w, j, v)

\* What the user asked for, some handler has recorded in the row.
AskedIsRecorded == \A j \in Jobs : asked[j] => status[j] \in {"cancelling", "cancelled"}

Typed == WorkerTypeOK /\ \A w \in Workers : Working(w)

\* The inductive invariant of the composition.
CycleInv ==
    /\ Typed
    /\ Inv
    /\ \A w \in Workers : HoldsOwn(w)
    /\ AskedIsRecorded
    /\ SucceededCompletedItsStep

\* Whatever the hub does, the engine sees one of its own transactions.
LEMMA EngineStep == ASSUME Typed, [WorkerNext]_allVars PROVE [Next]_jobVars
<1> USE DEF Typed, WorkerTypeOK, Working, AtWork, Goto, Skip, Version, Caller
<1>1. ASSUME NEW w \in Workers, WorkerStep(w) PROVE [Next]_jobVars
  <2>1. CASE Start(w) \/ CheckBeforeHandler(w) \/ CommitDerived(w) \/ LoseClaim(w)
             \/ HandlerReturns(w) \/ HandlerRaises(w) \/ CheckAfterError(w)
    BY <2>1 DEF Start, CheckBeforeHandler, CommitDerived, LoseClaim, HandlerReturns,
                HandlerRaises, CheckAfterError
  <2>2. CASE SweepRetries(w) \/ SweepLeases(w)
    BY <2>2 DEF SweepRetries, SweepLeases, Next
  <2>3. CASE ClaimNext(w)
    BY <2>3 DEF ClaimNext, Next, WorkerCalls
  <2>4. CASE BeginStep(w)
    BY <2>4 DEF BeginStep, Next, ClaimCalls
  <2>5. CASE OpenBudget(w)
    BY <2>5 DEF OpenBudget, Next
  <2>6. CASE FinishStep(w)
    BY <2>6 DEF FinishStep, Next, ClaimCalls
  <2>7. CASE FinishJob(w)
    BY <2>7 DEF FinishJob, Next, ClaimCalls
  <2>8. CASE CancelOwn(w)
    BY <2>8 DEF CancelOwn, Next, ClaimCalls
  <2>9. CASE Confirm(w)
    BY <2>9 DEF Confirm, Next, WorkerCalls
  <2>10. CASE FailOwnStep(w)
    BY <2>10 DEF FailOwnStep, Next, ClaimCalls
  <2>11. QED
    BY <1>1, <2>1, <2>2, <2>3, <2>4, <2>5, <2>6, <2>7, <2>8, <2>9, <2>10 DEF WorkerStep
<1>2. ASSUME NEW w \in Workers, Kill(w) PROVE [Next]_jobVars
  BY <1>2 DEF Kill
<1>3. ASSUME NEW j \in Jobs,
             Enqueue(j) \/ UserCancels(j) \/ SourceDeleted(j) \/ Lapse(j) \/ Elapse(j)
      PROVE  [Next]_jobVars
  BY <1>3 DEF Enqueue, UserCancels, SourceDeleted, Lapse, Elapse, Next, ClaimCalls
<1>4. CASE UNCHANGED allVars
  BY <1>4 DEF allVars
<1>5. QED
  BY <1>1, <1>2, <1>3, <1>4 DEF WorkerNext

\* The worker's own variables stay in their domains.
LEMMA TypedStep == ASSUME Typed, [WorkerNext]_allVars PROVE Typed'
<1>1. TypeOK'
  BY EngineStep, TypeStep DEF Typed, WorkerTypeOK
<1>2. ASSUME NEW w \in Workers, WorkerStep(w) PROVE Typed'
  <2>1. ASSUME NEW p \in PC, pc' = [pc EXCEPT ![w] = p], UNCHANGED <<cur, ver, derived, asked, gone>>,
               p \in AtWork => pc[w] \in AtWork, retryable' \in [Workers -> BOOLEAN]
        PROVE  Typed'
    BY <1>1, <2>1 DEF Typed, WorkerTypeOK, Working
  <2>2. CASE Start(w) \/ SweepRetries(w) \/ SweepLeases(w)
    BY <2>1, <2>2 DEF Typed, WorkerTypeOK, Start, SweepRetries, SweepLeases, Goto, KeepClaim, sourceVars,
                      PC, AtWork
  <2>3. CASE ClaimNext(w)
    <3>1. ASSUME NEW k \in Jobs, Claim(k, w), Goto(w, "claim", "start"),
                 cur' = [cur EXCEPT ![w] = k], ver' = [ver EXCEPT ![w] = attempts[k] + 1],
                 UNCHANGED <<retryable, sourceVars>>
          PROVE  Typed'
      <4>1. attempts[k] + 1 \in Attempt
        BY <3>1, EngineAssumption DEF Typed, WorkerTypeOK, TypeOK, Attempt, Claim, Claimable
      <4>2. Attempt \subseteq 0..MaxAttempts
        BY DEF Attempt
      <4>3. QED
        BY <1>1, <3>1, <4>1, <4>2 DEF Typed, WorkerTypeOK, Working, Goto, sourceVars, PC, AtWork
    <3>2. CASE Goto(w, "claim", "retries") /\ KeepClaim /\ UNCHANGED sourceVars
      BY <2>1, <3>2 DEF Typed, WorkerTypeOK, Goto, KeepClaim, sourceVars, PC, AtWork
    <3>3. QED
      BY <2>3, <3>1, <3>2 DEF ClaimNext
  <2>4. CASE BeginStep(w) \/ FinishStep(w) \/ FinishJob(w)
    BY <2>1, <2>4 DEF Typed, WorkerTypeOK, BeginStep, FinishStep, FinishJob, Goto, KeepClaim, sourceVars,
                      PC, AtWork
  <2>5. CASE CheckBeforeHandler(w) \/ LoseClaim(w) \/ HandlerReturns(w) \/ HandlerRaises(w)
             \/ CheckAfterError(w)
    BY <2>1, <2>5 DEF Typed, WorkerTypeOK, CheckBeforeHandler, LoseClaim, HandlerReturns, HandlerRaises,
                      CheckAfterError, Goto, KeepClaim, sourceVars, PC, AtWork
  <2>6. CASE CommitDerived(w)
    BY <1>1, <2>6 DEF Typed, WorkerTypeOK, Working, CommitDerived, workerVars, AtWork
  <2>7. CASE OpenBudget(w)
    BY <1>1, <2>7 DEF Typed, WorkerTypeOK, Working, OpenBudget, workerVars, sourceVars
  <2>8. CASE CancelOwn(w) \/ Confirm(w) \/ FailOwnStep(w)
    BY <2>1, <2>8 DEF Typed, WorkerTypeOK, CancelOwn, Confirm, FailOwnStep, Goto, KeepClaim, sourceVars,
                      PC, AtWork
  <2>9. QED
    BY <1>2, <2>2, <2>3, <2>4, <2>5, <2>6, <2>7, <2>8 DEF WorkerStep
<1>3. ASSUME NEW w \in Workers, Kill(w) PROVE Typed'
  BY <1>1, <1>3 DEF Kill, Typed, WorkerTypeOK, PC, AtWork, Working, KeepClaim, sourceVars
<1>4. ASSUME NEW j \in Jobs,
             Enqueue(j) \/ UserCancels(j) \/ SourceDeleted(j) \/ Lapse(j) \/ Elapse(j)
      PROVE  Typed'
  BY <1>1, <1>4 DEF Enqueue, UserCancels, SourceDeleted, Lapse, Elapse, Typed, WorkerTypeOK,
                    Working, workerVars, sourceVars
<1>5. CASE UNCHANGED allVars
  BY <1>1, <1>5 DEF Typed, WorkerTypeOK, Working, allVars, workerVars, sourceVars
<1>6. QED
  BY <1>2, <1>3, <1>4, <1>5 DEF WorkerNext

-----------------------------------------------------------------------------
(* Who holds a live claim.                                                 *)

\* The place of w in its cycle and the claim it was given stay as they are.
Undisturbed(w) == pc'[w] = pc[w] /\ cur'[w] = cur[w] /\ ver'[w] = ver[w]

LEMMA Bystander ==
    ASSUME Typed, NEW w \in Workers, HoldsOwn(w), OnlyLoses(w), Undisturbed(w)
    PROVE  HoldsOwn(w)'
BY DEF HoldsOwn, Progress, OnlyLoses, Undisturbed

\* The cycle of another process.
LEMMA OtherCycle ==
    ASSUME Typed, NEW w \in Workers, HoldsOwn(w), NEW x \in Workers \ {w}, WorkerStep(x) \/ Kill(x)
    PROVE  HoldsOwn(w)'
<1> USE DEF Goto, Skip, KeepClaim, Working, AtWork
<1>1. TypeOK /\ Working(x)
  BY DEF Typed, WorkerTypeOK
<1>2. Undisturbed(w)
  BY DEF Typed, WorkerTypeOK, Undisturbed, WorkerStep, Kill, Start, SweepRetries, SweepLeases, ClaimNext,
         BeginStep, CheckBeforeHandler, CommitDerived, OpenBudget, LoseClaim, HandlerReturns,
         HandlerRaises, FinishStep, FinishJob, CancelOwn, Confirm, CheckAfterError, FailOwnStep,
         workerVars
<1>3. OnlyLoses(w)
  <2>1. CASE Start(x) \/ CheckBeforeHandler(x) \/ CommitDerived(x) \/ LoseClaim(x)
             \/ HandlerReturns(x) \/ HandlerRaises(x) \/ CheckAfterError(x) \/ Kill(x)
             \/ SweepRetries(x) \/ SweepLeases(x)
    BY <1>1, <2>1, SweepCall DEF Start, CheckBeforeHandler, CommitDerived, LoseClaim,
           HandlerReturns, HandlerRaises, CheckAfterError, Kill, SweepRetries, SweepLeases
  <2>2. CASE ClaimNext(x)
    BY <1>1, <2>2, OthersCall, SweepCall DEF ClaimNext
  <2>3. CASE BeginStep(x)
    BY <1>1, <2>3, OthersCall, SweepCall DEF BeginStep
  <2>4. CASE OpenBudget(x)
    BY <1>1, <2>4, PlainCall DEF OpenBudget
  <2>5. CASE FinishStep(x)
    BY <1>1, <2>5, OthersCall, SweepCall DEF FinishStep
  <2>6. CASE FinishJob(x)
    BY <1>1, <2>6, OthersCall, SweepCall DEF FinishJob
  <2>7. CASE CancelOwn(x)
    BY <1>1, <2>7, PlainCall, SweepCall DEF CancelOwn
  <2>8. CASE Confirm(x)
    BY <1>1, <2>8, PlainCall, SweepCall DEF Confirm
  <2>9. CASE FailOwnStep(x)
    BY <1>1, <2>9, OthersCall, SweepCall DEF FailOwnStep
  <2>10. QED
    BY <2>1, <2>2, <2>3, <2>4, <2>5, <2>6, <2>7, <2>8, <2>9 DEF WorkerStep
<1>4. QED
  BY <1>2, <1>3, Bystander

\* The cycle of the process itself.
LEMMA OwnCycle ==
    ASSUME Typed, NEW w \in Workers, HoldsOwn(w), WorkerStep(w) \/ Kill(w)
    PROVE  HoldsOwn(w)'
<1> USE DEF Typed, WorkerTypeOK, Working, AtWork, Goto, Skip, KeepClaim
<1> DEFINE j == cur[w]
           v == ver[w]
<1>1. CASE Start(w) \/ SweepRetries(w) \/ SweepLeases(w) \/ CheckBeforeHandler(w)
           \/ HandlerReturns(w) \/ HandlerRaises(w) \/ CheckAfterError(w) \/ LoseClaim(w) \/ Kill(w)
  <2>1. OnlyLoses(w)
    BY <1>1, SweepCall DEF Start, SweepRetries, SweepLeases, CheckBeforeHandler,
           HandlerReturns, HandlerRaises, CheckAfterError, LoseClaim, Kill
  <2>2. cur'[w] = cur[w] /\ ver'[w] = ver[w]
    BY <1>1 DEF Start, SweepRetries, SweepLeases, CheckBeforeHandler,
           HandlerReturns, HandlerRaises, CheckAfterError, LoseClaim, Kill
  <2>3. CASE Start(w) \/ SweepRetries(w) \/ SweepLeases(w)
    BY <2>1, <2>2, <2>3 DEF Start, SweepRetries, SweepLeases, HoldsOwn, OnlyLoses
  <2>4. CASE CheckBeforeHandler(w) \/ HandlerReturns(w) \/ HandlerRaises(w) \/ LoseClaim(w)
    BY <2>1, <2>2, <2>4 DEF CheckBeforeHandler, HandlerReturns, HandlerRaises, LoseClaim,
                            HoldsOwn, OnlyLoses, Progress
  <2>5. CASE CheckAfterError(w)
    BY <2>1, <2>2, <2>5 DEF CheckAfterError, CancelRequested, HoldsOwn, OnlyLoses, Progress,
                            LiveClaim
  <2>6. CASE Kill(w)
    BY <2>6 DEF Kill, HoldsOwn
  <2>7. QED
    BY <1>1, <2>3, <2>4, <2>5, <2>6
<1>2. CASE ClaimNext(w)
  <2>1. ASSUME NEW k \in Jobs, Goto(w, "claim", "start"), Claim(k, w),
               cur' = [cur EXCEPT ![w] = k], ver' = [ver EXCEPT ![w] = attempts[k] + 1]
        PROVE  HoldsOwn(w)'
    BY <2>1 DEF HoldsOwn, Progress, Claim, Claimable, LiveClaim, Matches, TypeOK, Attempt
  <2>2. CASE Goto(w, "claim", "retries") /\ Skip(\E k \in Jobs : Claimable(k))
    BY <2>2, SweepCall DEF HoldsOwn, OnlyLoses
  <2>3. QED
    BY <1>2, <2>1, <2>2 DEF ClaimNext
<1>3. CASE BeginStep(w)
  <2>1. CASE Goto(w, "start", "check") /\ StartStep(j, w, v)
    <3>1. /\ j \in Jobs /\ v \in Attempt /\ attempts[j] = v
          /\ step' = [step EXCEPT ![j][v] = "running"]
          /\ UNCHANGED <<status, owner, lease, attempts, cancelReq>>
      <4>1. j \in Jobs /\ v \in Attempt
        BY <2>1
      <4>2. attempts[j] = v
        BY <2>1, <4>1 DEF StartStep, LiveClaim, Matches, Attempt
      <4>3. QED
        BY <2>1, <4>1, <4>2 DEF StartStep
    <3>2. step'[j][v] = "running"
      BY <3>1 DEF TypeOK
    <3>3. ASSUME NEW i \in Jobs, NEW u \in Attempt, LiveClaim(i, w, u)'
          PROVE  i = j /\ u = v
      BY <2>1, <3>1, <3>3 DEF HoldsOwn, LiveClaim, Matches
    <3>4. pc'[w] = "check" /\ cur'[w] = j /\ ver'[w] = v
      BY <1>3, <2>1 DEF BeginStep
    <3>5. QED
      BY <3>2, <3>3, <3>4 DEF HoldsOwn, Progress
  <2>2. CASE Goto(w, "start", "retries") /\ Skip(LiveClaim(j, w, v))
    BY <1>3, <2>2, SweepCall DEF HoldsOwn, OnlyLoses
  <2>3. QED
    BY <1>3, <2>1, <2>2 DEF BeginStep
<1>4. CASE CommitDerived(w) \/ OpenBudget(w)
  <2>1. OnlyLoses(w) /\ Undisturbed(w)
    BY <1>4, SweepCall, PlainCall DEF CommitDerived, OpenBudget, Undisturbed, workerVars
  <2>2. QED
    BY <2>1, Bystander
<1>5. CASE FinishStep(w)
  <2>1. CASE CompleteStep(j, v, w, v)
    BY <1>5, <2>1 DEF FinishStep, CompleteStep, MayClose, HoldsOwn, Progress, LiveClaim, Matches, TypeOK
  <2>2. CASE Skip(MayClose(j, v, w, v))
    <3>1. ~LiveClaim(j, w, v)
      BY <1>5, <2>2 DEF FinishStep, MayClose, HoldsOwn, Progress, LiveClaim, Matches, Attempt
    <3>2. QED
      BY <1>5, <2>2, <3>1, SweepCall DEF FinishStep, HoldsOwn, OnlyLoses
  <2>3. QED
    BY <1>5, <2>1, <2>2 DEF FinishStep
<1>6. CASE FinishJob(w)
  <2>1. CASE Goto(w, "succeed", "claim") /\ Succeed(j, w, v)
    BY <1>6, <2>1 DEF Succeed, ClearLease, HoldsOwn, LiveClaim, Matches, TypeOK, Held
  <2>2. CASE Goto(w, "succeed", "confirm") /\ Skip(LiveClaim(j, w, v))
    BY <1>6, <2>2, SweepCall DEF HoldsOwn, OnlyLoses
  <2>3. QED
    BY <1>6, <2>1, <2>2 DEF FinishJob
<1>7. CASE CancelOwn(w)
  <2>1. OnlyLoses(w) /\ ~LiveClaim(j, w, v)'
    <3>1. CASE Cancel(j, w, v)
      BY <1>7, <3>1, PlainCall DEF CancelOwn, Cancel, MayCancel, LiveClaim, TypeOK, Held
    <3>2. CASE Skip(MayCancel(j, w, v))
      BY <1>7, <3>2, SweepCall DEF CancelOwn, OnlyLoses, MayCancel, LiveClaim, Held, Terminal
    <3>3. QED
      BY <1>7, <3>1, <3>2 DEF CancelOwn
  <2>2. QED
    BY <1>7, <2>1 DEF CancelOwn, HoldsOwn, OnlyLoses
<1>8. CASE Confirm(w)
  <2>1. OnlyLoses(w)
    BY <1>8, PlainCall, SweepCall DEF Confirm
  <2>2. QED
    BY <1>8, <2>1 DEF Confirm, HoldsOwn, OnlyLoses
<1>9. CASE FailOwnStep(w)
  <2>1. OnlyLoses(w) /\ ~LiveClaim(j, w, v)'
    <3>1. CASE FailStep(j, v, w, v, retryable[w])
      BY <1>9, <3>1 DEF FailOwnStep, FailStep, MayClose, ClearLease, LiveClaim, Matches, OnlyLoses,
                        TypeOK
    <3>2. CASE Skip(MayClose(j, v, w, v))
      <4>1. ~LiveClaim(j, w, v)
        BY <1>9, <3>2 DEF FailOwnStep, MayClose, HoldsOwn, Progress, LiveClaim, Matches, Attempt
      <4>2. QED
        BY <1>9, <3>2, <4>1, SweepCall DEF FailOwnStep, OnlyLoses
    <3>3. QED
      BY <1>9, <3>1, <3>2 DEF FailOwnStep
  <2>2. QED
    BY <1>9, <2>1 DEF FailOwnStep, HoldsOwn, OnlyLoses
<1>10. QED
  BY <1>1, <1>2, <1>3, <1>4, <1>5, <1>6, <1>7, <1>8, <1>9 DEF WorkerStep

\* A live claim stays with the cycle it was given to, whoever acts.
LEMMA HoldsOwnStep ==
    ASSUME Typed, NEW w \in Workers, HoldsOwn(w), [WorkerNext]_allVars
    PROVE  HoldsOwn(w)'
<1>1. ASSUME NEW x \in Workers, WorkerStep(x) \/ Kill(x) PROVE HoldsOwn(w)'
  BY <1>1, OwnCycle, OtherCycle
<1>2. ASSUME NEW j \in Jobs,
             Enqueue(j) \/ UserCancels(j) \/ SourceDeleted(j) \/ Lapse(j) \/ Elapse(j)
      PROVE  HoldsOwn(w)'
  <2>1. TypeOK
    BY DEF Typed, WorkerTypeOK
  <2>2. OnlyLoses(w)
    BY <1>2, <2>1, PlainCall, SweepCall DEF Enqueue, UserCancels, SourceDeleted, Lapse, Elapse
  <2>3. Undisturbed(w)
    BY <1>2 DEF Enqueue, UserCancels, SourceDeleted, Lapse, Elapse, workerVars, Undisturbed
  <2>4. QED
    BY <2>2, <2>3, Bystander
<1>3. CASE UNCHANGED allVars
  <2>1. OnlyLoses(w) /\ Undisturbed(w)
    BY <1>3, SweepCall DEF Typed, WorkerTypeOK, allVars, workerVars, Undisturbed
  <2>2. QED
    BY <2>1, Bystander
<1>4. QED
  BY <1>1, <1>2, <1>3 DEF WorkerNext

-----------------------------------------------------------------------------
(* What the user asked for, and what a success is worth.                   *)

\* A cancellation the user asked for is in the row before anyone can act on
\* it, and no later transaction takes it out.
LEMMA AskedStep ==
    ASSUME Typed, Typed', Inv, AskedIsRecorded, [WorkerNext]_allVars
    PROVE  AskedIsRecorded'
<1> SUFFICES ASSUME NEW j \in Jobs, asked'[j]
             PROVE  status'[j] \in {"cancelling", "cancelled"}
  BY DEF AskedIsRecorded
<1> USE DEF Typed, WorkerTypeOK
<1>1. CASE asked[j]
  <2>1. cancelReq[j]
    BY <1>1 DEF AskedIsRecorded, Inv, CancelIsRemembered
  <2>2. QED
    BY <2>1, EngineStep, RowStep DEF CancelKept
<1>2. CASE ~asked[j]
  <2>1. UserCancels(j)
    BY <1>2 DEF WorkerNext, WorkerStep, Start, SweepRetries, SweepLeases, ClaimNext, BeginStep,
          CheckBeforeHandler, CommitDerived, OpenBudget, LoseClaim, HandlerReturns,
          HandlerRaises, FinishStep, FinishJob, CancelOwn, Confirm, CheckAfterError, FailOwnStep,
          Kill, Enqueue, UserCancels, SourceDeleted, Lapse, Elapse, sourceVars, allVars
  <2>2. CASE Cancel(j, NoWorker, 0)
    BY <2>2 DEF Cancel, MayCancel, TypeOK, Held, Terminal
  <2>3. CASE CancelRun(j)
    BY <2>3 DEF CancelRun, TypeOK, Held, Terminal, Inv, RunFollowsJob
  <2>4. QED
    BY <2>1, <2>2, <2>3 DEF UserCancels
<1>3. QED
  BY <1>1, <1>2

\* Only succeed, called at its place in the cycle, makes a job succeeded.
LEMMA SuccessIsOwn ==
    ASSUME Typed, [WorkerNext]_allVars, NEW j \in Jobs,
           status[j] # "succeeded", status'[j] = "succeeded"
    PROVE  \E w \in Workers : pc[w] = "succeed" /\ cur[w] = j /\ Succeed(j, w, ver[w])
<1> USE DEF Typed, WorkerTypeOK, TypeOK, Working, AtWork, Goto, Skip
<1>1. ASSUME NEW w \in Workers, WorkerStep(w)
      PROVE  pc[w] = "succeed" /\ cur[w] = j /\ Succeed(j, w, ver[w])
  <2>1. CASE Start(w) \/ CheckBeforeHandler(w) \/ CommitDerived(w) \/ LoseClaim(w)
             \/ HandlerReturns(w) \/ HandlerRaises(w) \/ CheckAfterError(w)
    BY <2>1 DEF Start, CheckBeforeHandler, CommitDerived, LoseClaim, HandlerReturns,
                HandlerRaises, CheckAfterError, jobVars
  <2>2. CASE SweepRetries(w) \/ SweepLeases(w)
    <3>1. CASE ReleaseReadyRetries
      BY <3>1 DEF ReleaseReadyRetries
    <3>2. CASE ExpireStaleLeases
      BY <3>2 DEF ExpireStaleLeases, AfterExpiry
    <3>3. QED
      BY <2>2, <3>1, <3>2 DEF SweepRetries, SweepLeases, jobVars
  <2>3. CASE ClaimNext(w)
    BY <2>3 DEF ClaimNext, Claim, jobVars
  <2>4. CASE BeginStep(w) \/ OpenBudget(w) \/ FinishStep(w)
    BY <2>4 DEF BeginStep, OpenBudget, FinishStep, StartStep, LinkRun, CompleteStep, jobVars
  <2>5. CASE FinishJob(w)
    BY <2>5 DEF FinishJob, Succeed, jobVars
  <2>6. CASE CancelOwn(w) \/ Confirm(w)
    BY <2>6 DEF CancelOwn, Cancel, Confirm, ConfirmCancelled, jobVars
  <2>7. CASE FailOwnStep(w)
    BY <2>7 DEF FailOwnStep, FailStep, jobVars
  <2>8. QED
    BY <1>1, <2>1, <2>2, <2>3, <2>4, <2>5, <2>6, <2>7 DEF WorkerStep
<1>2. ASSUME NEW w \in Workers, Kill(w) PROVE FALSE
  BY <1>2 DEF Kill, jobVars
<1>3. ASSUME NEW i \in Jobs,
             Enqueue(i) \/ UserCancels(i) \/ SourceDeleted(i) \/ Lapse(i) \/ Elapse(i)
      PROVE  FALSE
  BY <1>3 DEF Enqueue, UserCancels, SourceDeleted, Lapse, Elapse, Submit, Cancel, CancelRun,
              LeaseLapses, BackoffElapses, jobVars
<1>4. CASE UNCHANGED allVars
  BY <1>4 DEF allVars, jobVars
<1>5. QED
  BY <1>1, <1>2, <1>3, <1>4 DEF WorkerNext

\* The step of the attempt that succeeds was completed, and stays so.
LEMMA SucceededStep ==
    ASSUME CycleInv, Typed', [WorkerNext]_allVars
    PROVE  SucceededCompletedItsStep'
<1> SUFFICES ASSUME NEW j \in Jobs, status'[j] = "succeeded"
             PROVE  step'[j][attempts'[j]] = "completed"
  BY DEF SucceededCompletedItsStep
<1>1. CASE status[j] = "succeeded"
  BY <1>1, EngineStep, RowStep DEF CycleInv, Typed, WorkerTypeOK, FinalKept, Terminal,
                                   SucceededCompletedItsStep
<1>2. CASE status[j] # "succeeded"
  <2>1. PICK w \in Workers : pc[w] = "succeed" /\ cur[w] = j /\ Succeed(j, w, ver[w])
    BY <1>2, SuccessIsOwn DEF CycleInv
  <2>2. LiveClaim(j, w, ver[w]) /\ ver[w] \in Attempt /\ UNCHANGED <<step, attempts>>
    BY <2>1 DEF Succeed, CycleInv, Typed, Working, AtWork
  <2>3. attempts[j] = ver[w] /\ step[j][ver[w]] = "completed"
    BY <2>1, <2>2 DEF LiveClaim, Matches, Attempt, CycleInv, HoldsOwn, Progress
  <2>4. QED
    BY <2>2, <2>3
<1>3. QED
  BY <1>1, <1>2

-----------------------------------------------------------------------------
(* The theorems.                                                           *)

LEMMA CycleInit == WorkerInit => CycleInv
BY EngineAssumption, MaintenanceAssumption
   DEF WorkerInit, Init, CycleInv, Typed, WorkerTypeOK, TypeOK, Working, PC, AtWork, Inv,
       LeaseMatchesStatus, CancelIsRemembered, RunFollowsJob, RetryAccounting, HoldsOwn,
       LiveClaim, AskedIsRecorded, SucceededCompletedItsStep, Held, Terminal, Attempt

LEMMA CycleStep == ASSUME CycleInv, [WorkerNext]_allVars PROVE CycleInv'
<1>1. Typed'
  BY TypedStep DEF CycleInv
<1>2. [Next]_jobVars
  BY EngineStep DEF CycleInv
<1>3. Inv'
  BY <1>1, <1>2, InvStep DEF CycleInv, Typed, WorkerTypeOK
<1>4. \A w \in Workers : HoldsOwn(w)'
  BY HoldsOwnStep DEF CycleInv
<1>5. AskedIsRecorded'
  BY <1>1, AskedStep DEF CycleInv
<1>6. SucceededCompletedItsStep'
  BY <1>1, SucceededStep
<1>7. QED
  BY <1>1, <1>3, <1>4, <1>5, <1>6 DEF CycleInv

\* The inductive invariant of the cycle and the engine together.
THEOREM CycleInvCorrect == WorkerSpec => []CycleInv
<1>1. CycleInv /\ [WorkerNext]_allVars => CycleInv'
  BY CycleStep
<1>2. QED
  BY <1>1, CycleInit, PTL DEF WorkerSpec

\* A worker never enters its cycle without a job and a claim version, and
\* every other variable keeps its domain.
THEOREM MaintenanceTypeCorrect == WorkerSpec => []WorkerTypeOK
<1>1. CycleInv => WorkerTypeOK
  BY DEF CycleInv, Typed
<1>2. QED
  BY <1>1, CycleInvCorrect, PTL

\* The worker, the user and the clock together are callers of the engine:
\* every step of the composition is one transaction of JobEngine or leaves
\* its tables alone, so each theorem about Spec holds of the composition.
THEOREM MaintenanceUsesEngine == WorkerSpec => Spec
<1>1. WorkerInit => Init
  BY DEF WorkerInit
<1>2. CycleInv /\ [WorkerNext]_allVars => [Next]_jobVars
  BY EngineStep DEF CycleInv
<1>3. QED
  BY <1>1, <1>2, CycleInvCorrect, PTL DEF WorkerSpec, Spec

\* What the engine promises holds of the rows the workers drive: one holder
\* at a time, a stop is honoured, an outcome is final.
THEOREM MaintenanceKeepsPromise == WorkerSpec => FencedJobSpec
<1>1. QED
  BY MaintenanceUsesEngine, EngineKeepsPromise, PTL

\* Only a killed process leaves a live lease behind: no path out of
\* process_ready walks away from a claim that still holds.
THEOREM NoLeak == WorkerSpec => []NoLiveClaimLeaks
<1>1. CycleInv => NoLiveClaimLeaks
  BY DEF CycleInv, HoldsOwn, NoLiveClaimLeaks
<1>2. QED
  BY <1>1, CycleInvCorrect, PTL

\* Although the answer of complete_step is ignored, a job that succeeded
\* completed the step of the attempt that succeeded.
THEOREM SuccessIsEarned == WorkerSpec => []SucceededCompletedItsStep
<1>1. CycleInv => SucceededCompletedItsStep
  BY DEF CycleInv
<1>2. QED
  BY <1>1, CycleInvCorrect, PTL

\* The fence in the transaction of every derived write: once the user has
\* asked for cancellation, nothing more is derived.
THEOREM CancelStopsDerived == WorkerSpec => CancelStopsDerivation
<1>1. CycleInv /\ [WorkerNext]_allVars => [\A j \in Jobs : asked[j] => derived'[j] = derived[j]]_allVars
  <2> SUFFICES ASSUME CycleInv, [WorkerNext]_allVars, NEW j \in Jobs, asked[j]
               PROVE  derived'[j] = derived[j]
    OBVIOUS
  <2>1. derived \in [Jobs -> SUBSET Attempt]
    BY DEF CycleInv, Typed, WorkerTypeOK
  <2>2. ASSUME NEW w \in Workers, CommitDerived(w) PROVE derived'[j] = derived[j]
    <3>1. LiveClaim(cur[w], w, ver[w])
      BY <2>2 DEF CommitDerived
    <3>2. cur[w] # j
      BY <3>1 DEF LiveClaim, Held, CycleInv, AskedIsRecorded
    <3>3. QED
      BY <2>1, <2>2, <3>2 DEF CommitDerived
  <2>3. CASE ~\E w \in Workers : CommitDerived(w)
    BY <2>3 DEF WorkerNext, WorkerStep, Start, SweepRetries, SweepLeases, ClaimNext, BeginStep,
          CheckBeforeHandler, OpenBudget, LoseClaim, HandlerReturns,
          HandlerRaises, FinishStep, FinishJob, CancelOwn, Confirm, CheckAfterError, FailOwnStep,
          Kill, Enqueue, UserCancels, SourceDeleted, Lapse, Elapse, sourceVars, allVars
  <2>4. QED
    BY <2>2, <2>3
<1>2. QED
  BY <1>1, CycleInvCorrect, PTL DEF WorkerSpec, CancelStopsDerivation
=============================================================================
