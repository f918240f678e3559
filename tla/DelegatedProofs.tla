--------------------------- MODULE DelegatedProofs ---------------------------
(***************************************************************************)
(* Proofs about DelegatedWorker over the job engine, for any jobs, process *)
(* incarnations and number of attempts.                                    *)
(***************************************************************************)
EXTENDS DelegatedWorker, JobEngineProofs

\* A worker in its cycle knows its job and the version of its claim.
Working(w) == pc[w] \in AtWork => cur[w] \in Jobs /\ ver[w] \in Attempt

\* How far the step of the claimed attempt is, by the place in the cycle.
Progress(w, j, v) ==
    /\ pc[w] \in {"handle", "complete", "error", "fail"} => step[j][v] = "running"
    /\ pc[w] = "succeed" => step[j][v] = "completed"

\* A live claim of a live process is the one its cycle is about, and the
\* cycle has not passed the call that ends it.
HoldsOwn(w) ==
    \A j \in Jobs, v \in Attempt :
        LiveClaim(j, w, v) /\ pc[w] # "dead" =>
            /\ pc[w] \in AtWork \ {"confirm", "report"}
            /\ cur[w] = j /\ ver[w] = v
            /\ Progress(w, j, v)

\* What the user asked for, some handler has recorded in the row.
AskedIsRecorded == \A j \in Jobs : asked[j] => status[j] \in {"cancelling", "cancelled"}

\* A worker about to report is the only one, of a job that did succeed and
\* was not reported before.
OwesReport(w) ==
    pc[w] = "report" =>
        /\ status[cur[w]] = "succeeded" /\ reports[cur[w]] = 0
        /\ \A x \in Workers \ {w} : pc[x] = "report" => cur[x] # cur[w]

Reported ==
    \A j \in Jobs : reports[j] > 0 => reports[j] = 1 /\ status[j] = "succeeded"

\* A job that succeeded completed the step of the attempt that succeeded.
SucceededCompletedItsStep ==
    \A j \in Jobs : status[j] = "succeeded" => step[j][attempts[j]] = "completed"

\* Only a killed process leaves a live lease behind.
NoLiveClaimLeaks ==
    \A j \in Jobs, w \in Workers, v \in Attempt :
        LiveClaim(j, w, v) =>
            pc[w] = "dead" \/ (pc[w] \in AtWork /\ cur[w] = j /\ ver[w] = v)

Typed == WorkerTypeOK /\ \A w \in Workers : Working(w)

\* The inductive invariant of the composition.
CycleInv ==
    /\ Typed
    /\ Inv
    /\ \A w \in Workers : HoldsOwn(w) /\ OwesReport(w)
    /\ AskedIsRecorded
    /\ SucceededCompletedItsStep
    /\ Reported

\* Whatever the hub does, the engine sees one of its own transactions.
LEMMA EngineStep == ASSUME Typed, [WorkerNext]_allVars PROVE [Next]_jobVars
<1> USE DEF Typed, WorkerTypeOK, Working, AtWork, Goto, Skip, Version, Caller, ClaimActive
<1>1. ASSUME NEW w \in Workers, WorkerStep(w) PROVE [Next]_jobVars
  <2>1. CASE Start(w) \/ CheckActive(w) \/ HandlerGivesUp(w) \/ HandlerReturns(w)
             \/ HandlerRaises(w) \/ CheckAfterError(w) \/ Report(w)
    BY <2>1 DEF Start, CheckActive, HandlerGivesUp, HandlerReturns, HandlerRaises,
                CheckAfterError, Report
  <2>2. CASE SweepRetries(w) \/ SweepLeases(w)
    BY <2>2 DEF SweepRetries, SweepLeases, Next
  <2>3. CASE ClaimNext(w)
    BY <2>3 DEF ClaimNext, Next, WorkerCalls
  <2>4. CASE BeginStep(w)
    BY <2>4 DEF BeginStep, Next, ClaimCalls
  <2>5. CASE OpenBudget(w)
    BY <2>5 DEF OpenBudget, Next
  <2>6. CASE FinishStep(w)
    BY <2>6 DEF FinishStep, Next, ClaimCalls
  <2>7. CASE FinishJob(w)
    BY <2>7 DEF FinishJob, Next, ClaimCalls
  <2>8. CASE Confirm(w)
    BY <2>8 DEF Confirm, Next, WorkerCalls
  <2>9. CASE FailOwnStep(w)
    BY <2>9 DEF FailOwnStep, Next, ClaimCalls
  <2>10. QED
    BY <1>1, <2>1, <2>2, <2>3, <2>4, <2>5, <2>6, <2>7, <2>8, <2>9 DEF WorkerStep
<1>2. ASSUME NEW w \in Workers, Kill(w) PROVE [Next]_jobVars
  BY <1>2 DEF Kill
<1>3. ASSUME NEW j \in Jobs, Delegate(j) \/ UserCancels(j) \/ Lapse(j) \/ Elapse(j)
      PROVE  [Next]_jobVars
  BY <1>3 DEF Delegate, UserCancels, Lapse, Elapse, Next, ClaimCalls
<1>4. CASE UNCHANGED allVars
  BY <1>4 DEF allVars
<1>5. QED
  BY <1>1, <1>2, <1>3, <1>4 DEF WorkerNext

\* The worker's own variables stay in their domains.
LEMMA TypedStep == ASSUME Typed, [WorkerNext]_allVars PROVE Typed'
<1>1. TypeOK'
  BY EngineStep, TypeStep DEF Typed, WorkerTypeOK
<1>2. ASSUME NEW w \in Workers, WorkerStep(w) PROVE Typed'
  <2>1. ASSUME NEW p \in PC, pc' = [pc EXCEPT ![w] = p], UNCHANGED <<cur, ver, reports, asked, unservable>>,
               p \in AtWork => pc[w] \in AtWork, retryable' \in [Workers -> BOOLEAN]
        PROVE  Typed'
    BY <1>1, <2>1 DEF Typed, WorkerTypeOK, Working
  <2>2. CASE Start(w) \/ SweepRetries(w) \/ SweepLeases(w)
    BY <2>1, <2>2 DEF Typed, WorkerTypeOK, Start, SweepRetries, SweepLeases, Goto, KeepClaim, userVars,
                      PC, AtWork
  <2>3. CASE ClaimNext(w)
    <3>1. ASSUME NEW k \in Jobs, Claim(k, w), Goto(w, "claim", "active"),
                 cur' = [cur EXCEPT ![w] = k], ver' = [ver EXCEPT ![w] = attempts[k] + 1],
                 UNCHANGED <<retryable, userVars>>
          PROVE  Typed'
      <4>1. attempts[k] + 1 \in Attempt
        BY <3>1, EngineAssumption DEF Typed, WorkerTypeOK, TypeOK, Attempt, Claim, Claimable
      <4>2. Attempt \subseteq 0..MaxAttempts
        BY DEF Attempt
      <4>3. QED
        BY <1>1, <3>1, <4>1, <4>2 DEF Typed, WorkerTypeOK, Working, Goto, userVars, PC, AtWork
    <3>2. CASE Goto(w, "claim", "expire") /\ KeepClaim /\ UNCHANGED userVars
      BY <2>1, <3>2 DEF Typed, WorkerTypeOK, Goto, KeepClaim, userVars, PC, AtWork
    <3>3. QED
      BY <2>3, <3>1, <3>2 DEF ClaimNext
  <2>4. CASE BeginStep(w)
    BY <2>1, <2>4 DEF Typed, WorkerTypeOK, BeginStep, Goto, KeepClaim, userVars, PC, AtWork
  <2>5. CASE FinishStep(w) \/ FinishJob(w) \/ Confirm(w) \/ FailOwnStep(w)
    BY <2>1, <2>5 DEF Typed, WorkerTypeOK, FinishStep, FinishJob, Confirm, FailOwnStep, Goto,
                      KeepClaim, userVars, PC, AtWork
  <2>6. CASE CheckActive(w) \/ HandlerGivesUp(w) \/ HandlerReturns(w) \/ HandlerRaises(w)
             \/ CheckAfterError(w)
    BY <2>1, <2>6 DEF Typed, WorkerTypeOK, CheckActive, HandlerGivesUp, HandlerReturns, HandlerRaises,
                      CheckAfterError, Goto, KeepClaim, userVars, PC, AtWork
  <2>7. CASE OpenBudget(w)
    BY <1>1, <2>7 DEF Typed, WorkerTypeOK, Working, OpenBudget, workerVars, userVars
  <2>8. CASE Report(w)
    <3>1. reports' \in [Jobs -> Nat]
      BY <2>8 DEF Typed, WorkerTypeOK, Report
    <3>2. QED
      BY <1>1, <2>8, <3>1 DEF Typed, WorkerTypeOK, Working, Report, Goto, KeepClaim, PC, AtWork
  <2>9. QED
    BY <1>2, <2>2, <2>3, <2>4, <2>5, <2>6, <2>7, <2>8 DEF WorkerStep
<1>3. ASSUME NEW w \in Workers, Kill(w) PROVE Typed'
  BY <1>1, <1>3 DEF Kill, Typed, WorkerTypeOK, PC, AtWork, Working, KeepClaim, userVars
<1>4. ASSUME NEW j \in Jobs, Delegate(j) \/ UserCancels(j) \/ Lapse(j) \/ Elapse(j)
      PROVE  Typed'
  BY <1>1, <1>4 DEF Delegate, UserCancels, Lapse, Elapse, Typed, WorkerTypeOK,
                    Working, workerVars, userVars
<1>5. CASE UNCHANGED allVars
  BY <1>1, <1>5 DEF Typed, WorkerTypeOK, Working, allVars, workerVars, userVars
<1>6. QED
  BY <1>2, <1>3, <1>4, <1>5 DEF WorkerNext

-----------------------------------------------------------------------------
(* Who holds a live claim.                                                 *)

\* The place of w in its cycle and the claim it was given stay as they are.
Undisturbed(w) == pc'[w] = pc[w] /\ cur'[w] = cur[w] /\ ver'[w] = ver[w]

LEMMA Bystander ==
    ASSUME Typed, NEW w \in Workers, HoldsOwn(w), OnlyLoses(w), Undisturbed(w)
    PROVE  HoldsOwn(w)'
BY DEF HoldsOwn, Progress, OnlyLoses, Undisturbed

\* The cycle of another process leaves w where it is.
LEMMA OthersPlace ==
    ASSUME Typed, NEW w \in Workers, NEW x \in Workers \ {w}, WorkerStep(x) \/ Kill(x)
    PROVE  Undisturbed(w)
BY DEF Typed, WorkerTypeOK, Undisturbed, Goto, KeepClaim, workerVars, WorkerStep, Kill, Start,
       SweepRetries, SweepLeases, ClaimNext, CheckActive, BeginStep, OpenBudget, HandlerGivesUp,
       HandlerReturns, HandlerRaises, CheckAfterError, FailOwnStep, FinishStep, FinishJob,
       Confirm, Report

\* ... and its claim.
LEMMA OtherCycle ==
    ASSUME Typed, NEW w \in Workers, HoldsOwn(w), NEW x \in Workers \ {w}, WorkerStep(x) \/ Kill(x)
    PROVE  HoldsOwn(w)'
<1> USE DEF Goto, Skip, KeepClaim, Working, AtWork, ClaimActive
<1>1. TypeOK /\ Working(x)
  BY DEF Typed, WorkerTypeOK
<1>2. Undisturbed(w)
  BY OthersPlace
<1>3. OnlyLoses(w)
  <2>1. CASE Start(x) \/ CheckActive(x) \/ HandlerGivesUp(x) \/ HandlerReturns(x)
             \/ HandlerRaises(x) \/ CheckAfterError(x) \/ Report(x) \/ Kill(x)
             \/ SweepRetries(x) \/ SweepLeases(x)
    BY <1>1, <2>1, SweepCall DEF Start, CheckActive, HandlerGivesUp, HandlerReturns,
           HandlerRaises, CheckAfterError, Report, Kill, SweepRetries, SweepLeases
  <2>2. CASE ClaimNext(x)
    BY <1>1, <2>2, OthersCall, SweepCall DEF ClaimNext
  <2>3. CASE BeginStep(x)
    BY <1>1, <2>3, OthersCall, SweepCall DEF BeginStep
  <2>4. CASE OpenBudget(x)
    BY <1>1, <2>4, PlainCall DEF OpenBudget
  <2>5. CASE FinishStep(x)
    BY <1>1, <2>5, OthersCall, SweepCall DEF FinishStep
  <2>6. CASE FinishJob(x)
    BY <1>1, <2>6, OthersCall, SweepCall DEF FinishJob
  <2>7. CASE Confirm(x)
    BY <1>1, <2>7, PlainCall, SweepCall DEF Confirm
  <2>8. CASE FailOwnStep(x)
    BY <1>1, <2>8, OthersCall, SweepCall DEF FailOwnStep
  <2>9. QED
    BY <2>1, <2>2, <2>3, <2>4, <2>5, <2>6, <2>7, <2>8 DEF WorkerStep
<1>4. QED
  BY <1>2, <1>3, Bystander

\* The cycle of the process itself.
LEMMA OwnCycle ==
    ASSUME Typed, NEW w \in Workers, HoldsOwn(w), WorkerStep(w) \/ Kill(w)
    PROVE  HoldsOwn(w)'
<1> USE DEF Typed, WorkerTypeOK, Working, AtWork, Goto, Skip, KeepClaim, ClaimActive
<1> DEFINE j == cur[w]
           v == ver[w]
<1>1. CASE Start(w) \/ SweepRetries(w) \/ SweepLeases(w) \/ CheckActive(w) \/ HandlerGivesUp(w)
           \/ HandlerReturns(w) \/ HandlerRaises(w) \/ CheckAfterError(w) \/ Report(w) \/ Kill(w)
  <2>1. OnlyLoses(w)
    BY <1>1, SweepCall DEF Start, SweepRetries, SweepLeases, CheckActive, HandlerGivesUp,
           HandlerReturns, HandlerRaises, CheckAfterError, Report, Kill
  <2>2. cur'[w] = cur[w] /\ ver'[w] = ver[w]
    BY <1>1 DEF Start, SweepRetries, SweepLeases, CheckActive, HandlerGivesUp,
           HandlerReturns, HandlerRaises, CheckAfterError, Report, Kill
  <2>3. CASE Start(w) \/ SweepRetries(w) \/ SweepLeases(w) \/ Report(w)
    BY <2>1, <2>2, <2>3 DEF Start, SweepRetries, SweepLeases, Report, HoldsOwn, OnlyLoses
  <2>4. CASE CheckActive(w)
    BY <2>1, <2>2, <2>4 DEF CheckActive, HoldsOwn, OnlyLoses, Progress
  <2>5. CASE HandlerReturns(w) \/ HandlerRaises(w) \/ HandlerGivesUp(w)
    BY <2>1, <2>2, <2>5 DEF HandlerReturns, HandlerRaises, HandlerGivesUp,
                            HoldsOwn, OnlyLoses, Progress
  <2>6. CASE CheckAfterError(w)
    BY <2>1, <2>2, <2>6 DEF CheckAfterError, HoldsOwn, OnlyLoses, Progress
  <2>7. CASE Kill(w)
    BY <2>7 DEF Kill, HoldsOwn
  <2>8. QED
    BY <1>1, <2>3, <2>4, <2>5, <2>6, <2>7
<1>2. CASE ClaimNext(w)
  <2>1. ASSUME NEW k \in Jobs, Goto(w, "claim", "active"), Claim(k, w),
               cur' = [cur EXCEPT ![w] = k], ver' = [ver EXCEPT ![w] = attempts[k] + 1]
        PROVE  HoldsOwn(w)'
    BY <2>1 DEF HoldsOwn, Progress, Claim, Claimable, LiveClaim, Matches, TypeOK, Attempt
  <2>2. CASE Goto(w, "claim", "expire") /\ Skip(\E k \in Jobs : Claimable(k))
    BY <2>2, SweepCall DEF HoldsOwn, OnlyLoses
  <2>3. QED
    BY <1>2, <2>1, <2>2 DEF ClaimNext
<1>3. CASE BeginStep(w)
  <2>1. CASE Goto(w, "start", IF j \in unservable THEN "fail" ELSE "handle") /\ StartStep(j, w, v)
    <3>1. /\ j \in Jobs /\ v \in Attempt /\ attempts[j] = v
          /\ step' = [step EXCEPT ![j][v] = "running"]
          /\ UNCHANGED <<status, owner, lease, attempts, cancelReq>>
      <4>1. j \in Jobs /\ v \in Attempt
        BY <2>1
      <4>2. attempts[j] = v
        BY <2>1, <4>1 DEF StartStep, LiveClaim, Matches, Attempt
      <4>3. QED
        BY <2>1, <4>1, <4>2 DEF StartStep
    <3>2. step'[j][v] = "running"
      BY <3>1 DEF TypeOK
    <3>3. ASSUME NEW i \in Jobs, NEW u \in Attempt, LiveClaim(i, w, u)'
          PROVE  i = j /\ u = v
      BY <2>1, <3>1, <3>3 DEF HoldsOwn, LiveClaim, Matches
    <3>4. pc'[w] \in {"fail", "handle"} /\ cur'[w] = j /\ ver'[w] = v
      BY <1>3, <2>1 DEF BeginStep
    <3>5. QED
      BY <3>2, <3>3, <3>4 DEF HoldsOwn, Progress
  <2>2. CASE Goto(w, "start", "expire") /\ Skip(LiveClaim(j, w, v))
    BY <1>3, <2>2, SweepCall DEF HoldsOwn, OnlyLoses
  <2>3. QED
    BY <1>3, <2>1, <2>2 DEF BeginStep
<1>4. CASE OpenBudget(w)
  <2>1. OnlyLoses(w) /\ Undisturbed(w)
    BY <1>4, PlainCall DEF OpenBudget, Undisturbed, workerVars
  <2>2. QED
    BY <2>1, Bystander
<1>5. CASE FinishStep(w)
  <2>1. CASE CompleteStep(j, v, w, v)
    BY <1>5, <2>1 DEF FinishStep, CompleteStep, MayClose, HoldsOwn, Progress, LiveClaim, Matches, TypeOK
  <2>2. CASE Skip(MayClose(j, v, w, v))
    <3>1. ~LiveClaim(j, w, v)
      BY <1>5, <2>2 DEF FinishStep, MayClose, HoldsOwn, Progress, LiveClaim, Matches, Attempt
    <3>2. QED
      BY <1>5, <2>2, <3>1, SweepCall DEF FinishStep, HoldsOwn, OnlyLoses
  <2>3. QED
    BY <1>5, <2>1, <2>2 DEF FinishStep
<1>6. CASE FinishJob(w)
  <2>1. CASE Goto(w, "succeed", "report") /\ Succeed(j, w, v)
    BY <1>6, <2>1 DEF Succeed, ClearLease, HoldsOwn, LiveClaim, Matches, TypeOK, Held
  <2>2. CASE Goto(w, "succeed", "confirm") /\ Skip(LiveClaim(j, w, v))
    BY <1>6, <2>2, SweepCall DEF HoldsOwn, OnlyLoses
  <2>3. QED
    BY <1>6, <2>1, <2>2 DEF FinishJob
<1>7. CASE Confirm(w)
  <2>1. OnlyLoses(w)
    BY <1>7, PlainCall, SweepCall DEF Confirm
  <2>2. QED
    BY <1>7, <2>1 DEF Confirm, HoldsOwn, OnlyLoses
<1>8. CASE FailOwnStep(w)
  <2>1. OnlyLoses(w) /\ ~LiveClaim(j, w, v)'
    <3>1. CASE FailStep(j, v, w, v, retryable[w])
      BY <1>8, <3>1 DEF FailOwnStep, FailStep, MayClose, ClearLease, LiveClaim, Matches, OnlyLoses,
                        TypeOK
    <3>2. CASE Skip(MayClose(j, v, w, v))
      <4>1. ~LiveClaim(j, w, v)
        BY <1>8, <3>2 DEF FailOwnStep, MayClose, HoldsOwn, Progress, LiveClaim, Matches, Attempt
      <4>2. QED
        BY <1>8, <3>2, <4>1, SweepCall DEF FailOwnStep, OnlyLoses
    <3>3. QED
      BY <1>8, <3>1, <3>2 DEF FailOwnStep
  <2>2. QED
    BY <1>8, <2>1 DEF FailOwnStep, HoldsOwn, OnlyLoses
<1>9. QED
  BY <1>1, <1>2, <1>3, <1>4, <1>5, <1>6, <1>7, <1>8 DEF WorkerStep

\* A live claim stays with the cycle it was given to, whoever acts.
LEMMA HoldsOwnStep ==
    ASSUME Typed, NEW w \in Workers, HoldsOwn(w), [WorkerNext]_allVars
    PROVE  HoldsOwn(w)'
<1>1. ASSUME NEW x \in Workers, WorkerStep(x) \/ Kill(x) PROVE HoldsOwn(w)'
  BY <1>1, OwnCycle, OtherCycle
<1>2. ASSUME NEW j \in Jobs, Delegate(j) \/ UserCancels(j) \/ Lapse(j) \/ Elapse(j)
      PROVE  HoldsOwn(w)'
  <2>1. TypeOK
    BY DEF Typed, WorkerTypeOK
  <2>2. OnlyLoses(w)
    BY <1>2, <2>1, PlainCall, SweepCall DEF Delegate, UserCancels, Lapse, Elapse
  <2>3. Undisturbed(w)
    BY <1>2 DEF Delegate, UserCancels, Lapse, Elapse, workerVars, Undisturbed
  <2>4. QED
    BY <2>2, <2>3, Bystander
<1>3. CASE UNCHANGED allVars
  <2>1. OnlyLoses(w) /\ Undisturbed(w)
    BY <1>3, SweepCall DEF Typed, WorkerTypeOK, allVars, workerVars, Undisturbed
  <2>2. QED
    BY <2>1, Bystander
<1>4. QED
  BY <1>1, <1>2, <1>3 DEF WorkerNext

-----------------------------------------------------------------------------
(* What the user asked for, and what a success is worth.                   *)

\* A cancellation the user asked for is in the row before anyone can act on
\* it, and no later transaction takes it out.
LEMMA AskedStep ==
    ASSUME Typed, Typed', Inv, AskedIsRecorded, [WorkerNext]_allVars
    PROVE  AskedIsRecorded'
<1> SUFFICES ASSUME NEW j \in Jobs, asked'[j]
             PROVE  status'[j] \in {"cancelling", "cancelled"}
  BY DEF AskedIsRecorded
<1> USE DEF Typed, WorkerTypeOK
<1>1. CASE asked[j]
  <2>1. cancelReq[j]
    BY <1>1 DEF AskedIsRecorded, Inv, CancelIsRemembered
  <2>2. QED
    BY <2>1, EngineStep, RowStep DEF CancelKept
<1>2. CASE ~asked[j]
  <2>1. UserCancels(j)
    BY <1>2 DEF WorkerNext, WorkerStep, Start, SweepRetries, SweepLeases, ClaimNext, CheckActive,
          BeginStep, OpenBudget, HandlerGivesUp, HandlerReturns, HandlerRaises, CheckAfterError,
          FailOwnStep, FinishStep, FinishJob, Confirm, Report,
          Kill, Delegate, UserCancels, Lapse, Elapse, userVars, allVars
  <2>2. CASE Cancel(j, NoWorker, 0)
    BY <2>2 DEF Cancel, MayCancel, TypeOK, Held, Terminal
  <2>3. CASE CancelRun(j)
    <3>1. status[j] \notin Terminal
      BY <2>3 DEF CancelRun, Inv, RunFollowsJob, Terminal
    <3>2. QED
      BY <2>3, <3>1 DEF CancelRun, TypeOK
  <2>4. QED
    BY <2>1, <2>2, <2>3 DEF UserCancels
<1>3. QED
  BY <1>1, <1>2

\* Only succeed, called at its place in the cycle, makes a job succeeded.
LEMMA SuccessIsOwn ==
    ASSUME Typed, [WorkerNext]_allVars, NEW j \in Jobs,
           status[j] # "succeeded", status'[j] = "succeeded"
    PROVE  \E w \in Workers : pc[w] = "succeed" /\ cur[w] = j /\ Succeed(j, w, ver[w])
<1> USE DEF Typed, WorkerTypeOK, TypeOK, Working, AtWork, Goto, Skip
<1>1. ASSUME NEW w \in Workers, WorkerStep(w)
      PROVE  pc[w] = "succeed" /\ cur[w] = j /\ Succeed(j, w, ver[w])
  <2>1. CASE Start(w) \/ CheckActive(w) \/ HandlerGivesUp(w) \/ HandlerReturns(w)
             \/ HandlerRaises(w) \/ CheckAfterError(w) \/ Report(w)
    BY <2>1 DEF Start, CheckActive, HandlerGivesUp, HandlerReturns, HandlerRaises,
                CheckAfterError, Report, jobVars
  <2>2. CASE SweepRetries(w) \/ SweepLeases(w)
    <3>1. CASE ReleaseReadyRetries
      BY <3>1 DEF ReleaseReadyRetries
    <3>2. CASE ExpireStaleLeases
      BY <3>2 DEF ExpireStaleLeases, AfterExpiry
    <3>3. QED
      BY <2>2, <3>1, <3>2 DEF SweepRetries, SweepLeases, jobVars
  <2>3. CASE ClaimNext(w)
    BY <2>3 DEF ClaimNext, Claim, jobVars
  <2>4. CASE BeginStep(w) \/ OpenBudget(w) \/ FinishStep(w)
    BY <2>4 DEF BeginStep, OpenBudget, FinishStep, StartStep, LinkRun, CompleteStep, jobVars
  <2>5. CASE FinishJob(w)
    BY <2>5 DEF FinishJob, Succeed, jobVars
  <2>6. CASE Confirm(w)
    BY <2>6 DEF Confirm, ConfirmCancelled, jobVars
  <2>7. CASE FailOwnStep(w)
    BY <2>7 DEF FailOwnStep, FailStep, jobVars
  <2>8. QED
    BY <1>1, <2>1, <2>2, <2>3, <2>4, <2>5, <2>6, <2>7 DEF WorkerStep
<1>2. ASSUME NEW w \in Workers, Kill(w) PROVE FALSE
  BY <1>2 DEF Kill, jobVars
<1>3. ASSUME NEW i \in Jobs, Delegate(i) \/ UserCancels(i) \/ Lapse(i) \/ Elapse(i)
      PROVE  FALSE
  BY <1>3 DEF Delegate, UserCancels, Submit, Cancel, CancelRun, Lapse, Elapse,
              LeaseLapses, BackoffElapses, jobVars
<1>4. CASE UNCHANGED allVars
  BY <1>4 DEF allVars, jobVars
<1>5. QED
  BY <1>1, <1>2, <1>3, <1>4 DEF WorkerNext

\* The step of the attempt that succeeds was completed, and stays so.
LEMMA SucceededStep ==
    ASSUME CycleInv, Typed', [WorkerNext]_allVars
    PROVE  SucceededCompletedItsStep'
<1> SUFFICES ASSUME NEW j \in Jobs, status'[j] = "succeeded"
             PROVE  step'[j][attempts'[j]] = "completed"
  BY DEF SucceededCompletedItsStep
<1>1. CASE status[j] = "succeeded"
  BY <1>1, EngineStep, RowStep DEF CycleInv, Typed, WorkerTypeOK, FinalKept, Terminal,
                                   SucceededCompletedItsStep
<1>2. CASE status[j] # "succeeded"
  <2>1. PICK w \in Workers : pc[w] = "succeed" /\ cur[w] = j /\ Succeed(j, w, ver[w])
    BY <1>2, SuccessIsOwn DEF CycleInv
  <2>2. LiveClaim(j, w, ver[w]) /\ ver[w] \in Attempt /\ UNCHANGED <<step, attempts>>
    BY <2>1 DEF Succeed, CycleInv, Typed, Working, AtWork
  <2>3. attempts[j] = ver[w] /\ step[j][ver[w]] = "completed"
    BY <2>1, <2>2 DEF LiveClaim, Matches, Attempt, CycleInv, HoldsOwn, Progress
  <2>4. QED
    BY <2>2, <2>3
<1>3. QED
  BY <1>1, <1>2

-----------------------------------------------------------------------------
(* Reporting.                                                              *)

\* A worker that is not at its report either was not and did not succeed, or
\* has just been through it.
LEMMA ReportStep ==
    ASSUME CycleInv, Typed', [WorkerNext]_allVars
    PROVE  Reported' /\ \A w \in Workers : OwesReport(w)'
<1> USE DEF CycleInv, Typed, WorkerTypeOK
<1>1. \A j \in Jobs : status[j] = "succeeded" => status'[j] = "succeeded"
  BY EngineStep, RowStep DEF FinalKept, Terminal
<1>2. ASSUME NEW w \in Workers, Report(w) PROVE Reported' /\ \A x \in Workers : OwesReport(x)'
  <2>1. pc[w] = "report" /\ cur[w] \in Jobs /\ pc' = [pc EXCEPT ![w] = "expire"] /\ UNCHANGED cur
    BY <1>2 DEF Report, Goto, KeepClaim, Working, AtWork
  <2>2. status[cur[w]] = "succeeded" /\ reports[cur[w]] = 0
    BY <2>1 DEF OwesReport
  <2>3. \A i \in Jobs : reports'[i] = reports[i] \/ (i = cur[w] /\ reports'[i] = 1)
    BY <1>2, <2>2 DEF Report
  <2>4. Reported'
    BY <1>1, <2>2, <2>3 DEF Reported
  <2>5. ASSUME NEW x \in Workers PROVE OwesReport(x)'
    BY <1>1, <2>1, <2>3 DEF OwesReport, Working, AtWork
  <2>6. QED
    BY <2>4, <2>5
<1>3. ASSUME NEW w \in Workers, Goto(w, "succeed", "report"), Succeed(cur[w], w, ver[w]), KeepClaim,
             UNCHANGED userVars
      PROVE  Reported' /\ \A x \in Workers : OwesReport(x)'
  <2>1. cur[w] \in Jobs /\ status[cur[w]] # "succeeded" /\ status'[cur[w]] = "succeeded"
    BY <1>3 DEF Goto, Working, AtWork, Succeed, LiveClaim, Held, TypeOK
  <2>2. reports[cur[w]] = 0
    BY <2>1 DEF Reported
  <2>3. \A x \in Workers : pc[x] = "report" => cur[x] # cur[w]
    BY <2>1 DEF OwesReport
  <2>4. QED
    BY <1>1, <1>3, <2>1, <2>2, <2>3 DEF Goto, KeepClaim, userVars, Reported, OwesReport, Working, AtWork
<1>4. ASSUME UNCHANGED reports,
             \A w \in Workers : pc'[w] = "report" => pc[w] = "report" /\ cur'[w] = cur[w]
      PROVE  Reported' /\ \A x \in Workers : OwesReport(x)'
  BY <1>1, <1>4 DEF Reported, OwesReport, Working, AtWork
<1>5. ASSUME NEW w \in Workers, WorkerStep(w), ~Report(w),
             ~(/\ Goto(w, "succeed", "report") /\ Succeed(cur[w], w, ver[w])
               /\ KeepClaim /\ UNCHANGED userVars)
      PROVE  /\ UNCHANGED reports
             /\ \A x \in Workers : pc'[x] = "report" => pc[x] = "report" /\ cur'[x] = cur[x]
  BY <1>5 DEF WorkerStep, Start, SweepRetries, SweepLeases, ClaimNext, CheckActive,
          BeginStep, OpenBudget, HandlerGivesUp, HandlerReturns, HandlerRaises, CheckAfterError,
          FailOwnStep, FinishStep, FinishJob, Confirm, Goto, KeepClaim, userVars, workerVars
<1>6. ASSUME \/ \E w \in Workers : Kill(w)
             \/ \E j \in Jobs : Delegate(j) \/ UserCancels(j) \/ Lapse(j) \/ Elapse(j)
             \/ UNCHANGED allVars
      PROVE  /\ UNCHANGED reports
             /\ \A x \in Workers : pc'[x] = "report" => pc[x] = "report" /\ cur'[x] = cur[x]
  BY <1>6 DEF Kill, Delegate, UserCancels, Lapse, Elapse, KeepClaim, userVars, workerVars, allVars
<1>7. QED
  BY <1>2, <1>3, <1>4, <1>5, <1>6 DEF WorkerNext

-----------------------------------------------------------------------------
(* The theorems.                                                           *)

LEMMA CycleInit == WorkerInit => CycleInv
BY EngineAssumption, DelegationAssumption
   DEF WorkerInit, Init, CycleInv, Typed, WorkerTypeOK, TypeOK, Working, PC, AtWork, Inv,
       LeaseMatchesStatus, CancelIsRemembered, RunFollowsJob, RetryAccounting, HoldsOwn,
       LiveClaim, AskedIsRecorded, SucceededCompletedItsStep, OwesReport, Reported,
       Held, Terminal, Attempt

LEMMA CycleStep == ASSUME CycleInv, [WorkerNext]_allVars PROVE CycleInv'
<1>1. Typed'
  BY TypedStep DEF CycleInv
<1>2. [Next]_jobVars
  BY EngineStep DEF CycleInv
<1>3. Inv'
  BY <1>1, <1>2, InvStep DEF CycleInv, Typed, WorkerTypeOK
<1>4. \A w \in Workers : HoldsOwn(w)'
  BY HoldsOwnStep DEF CycleInv
<1>5. AskedIsRecorded'
  BY <1>1, AskedStep DEF CycleInv
<1>6. SucceededCompletedItsStep'
  BY <1>1, SucceededStep
<1>7. Reported' /\ \A w \in Workers : OwesReport(w)'
  BY <1>1, ReportStep
<1>8. QED
  BY <1>1, <1>3, <1>4, <1>5, <1>6, <1>7 DEF CycleInv

\* The inductive invariant of the cycle and the engine together.
THEOREM CycleInvCorrect == WorkerSpec => []CycleInv
<1>1. CycleInv /\ [WorkerNext]_allVars => CycleInv'
  BY CycleStep
<1>2. QED
  BY <1>1, CycleInit, PTL DEF WorkerSpec

\* Every variable of the delegated worker keeps its domain.
THEOREM DelegatedTypeCorrect == WorkerSpec => []WorkerTypeOK
<1>1. CycleInv => WorkerTypeOK
  BY DEF CycleInv, Typed
<1>2. QED
  BY <1>1, CycleInvCorrect, PTL

\* Every step of the composition is one transaction of JobEngine or leaves
\* its tables alone, so each theorem about Spec holds of the composition.
THEOREM DelegatedUsesEngine == WorkerSpec => Spec
<1>1. WorkerInit => Init
  BY DEF WorkerInit
<1>2. CycleInv /\ [WorkerNext]_allVars => [Next]_jobVars
  BY EngineStep DEF CycleInv
<1>3. QED
  BY <1>1, <1>2, CycleInvCorrect, PTL DEF WorkerSpec, Spec

\* What the engine promises holds of the rows the workers drive: one holder
\* at a time, a stop is honoured, an outcome is final.
THEOREM DelegatedKeepsPromise == WorkerSpec => FencedJobSpec
<1>1. QED
  BY DelegatedUsesEngine, EngineKeepsPromise, PTL

\* The user hears of a result at most once, only of a job that did succeed,
\* and never of a delegation that was withdrawn.
THEOREM ReportedOnce == WorkerSpec => []ReportedAtMostOnce
<1>1. CycleInv => ReportedAtMostOnce
  BY DEF CycleInv, Reported, AskedIsRecorded, ReportedAtMostOnce
<1>2. QED
  BY <1>1, CycleInvCorrect, PTL

\* No path out of _execute walks away from a claim that still holds, although
\* this worker skips its step when the claim is not active.
THEOREM NoLeak == WorkerSpec => []NoLiveClaimLeaks
<1>1. CycleInv => NoLiveClaimLeaks
  BY DEF CycleInv, HoldsOwn, NoLiveClaimLeaks
<1>2. QED
  BY <1>1, CycleInvCorrect, PTL

\* Although the answer of complete_step is ignored, a job that succeeded
\* completed the step of the attempt that succeeded.
THEOREM SuccessIsEarned == WorkerSpec => []SucceededCompletedItsStep
<1>1. CycleInv => SucceededCompletedItsStep
  BY DEF CycleInv
<1>2. QED
  BY <1>1, CycleInvCorrect, PTL
=============================================================================
