--------------------------- MODULE ReminderProofs ---------------------------
(***************************************************************************)
(* For any set of sources and processes: no occurrence is sent twice, what *)
(* the outcome of a run says of it is true, a source and its run tell one  *)
(* story, the delivery keeps the promise of OnceOnly, and a closed         *)
(* reminder stays closed.                                                  *)
(***************************************************************************)
EXTENDS Reminders, TLAPS

Unsent(k) == sent[k] = 0 /\ k \notin loose

\* What _finish is about to write is true.
EndingOK(e, k) ==
    /\ e.channels => e.state = "returned" /\ sent[k] = 1
    /\ (e.state = "not_started" \/ (e.state = "returned" /\ ~e.channels)) => Unsent(k)

\* A process in deliver_once and the occurrence it holds.
ProcOK(p) ==
    /\ pc[p] \in {"claiming", "admit"} \cup Delivering => cur[p] \in Key
    /\ pc[p] \in Delivering => runStatus[cur[p]] # "none"
    /\ pc[p] = "start" => dispatchState[cur[p]] = "not_started"
    /\ pc[p] \in Started => dispatchState[cur[p]] \in {"started", "unknown"}
    /\ pc[p] \in {"start", "call", "sending"} => Unsent(cur[p])
    /\ pc[p] = "sent" => sent[cur[p]] = 1
    /\ pc[p] \in {"sent", "returned"} => cur[p] \notin loose
    /\ pc[p] \in {"returned", "finish"} => EndingOK(ending[p], cur[p])
    /\ pc[p] = "finish" => dispatchState[cur[p]] # "returned"
    /\ pc[p] = "finish" /\ ending[p].state # "not_started" =>
           dispatchState[cur[p]] \in {"started", "unknown"}

\* An occurrence: its run, and how often it was sent.
KeyOK(k) ==
    /\ sent[k] <= 1
    /\ k \in loose => sent[k] = 0
    /\ runStatus[k] = "none" => dispatchState[k] = "not_started"
    /\ runStatus[k] = "succeeded" => dispatchState[k] = "returned"
    /\ runStatus[k] \in Live => dispatchState[k] \in {"not_started", "started"}
    /\ dispatchState[k] = "not_started" => Unsent(k)
    /\ dispatchState[k] = "returned" /\ reported[k] => sent[k] = 1
    /\ dispatchState[k] = "returned" /\ ~reported[k] => Unsent(k)

OneHolder ==
    \A p, q \in Processes :
        (p # q /\ pc[p] \in Delivering /\ pc[q] \in Delivering) => cur[p] # cur[q]

IInv ==
    /\ TypeOK
    /\ \A p \in Processes : ProcOK(p)
    /\ \A k \in Key : KeyOK(k)
    /\ OneHolder

-----------------------------------------------------------------------------
(* The invariant holds initially and of every action.                      *)

LEMMA InitInv == Init => IInv
<1> SUFFICES ASSUME Init PROVE IInv
  OBVIOUS
<1> USE DeliveryAssumption DEF Init
<1>1. TypeOK
  BY DEF TypeOK, RunStatus, Endings, NoEnding, PC
<1>2. \A p \in Processes : ProcOK(p)
  BY DEF ProcOK, Delivering, InTry, Started
<1>3. \A k \in Key : KeyOK(k)
  BY DEF KeyOK, Unsent, Live
<1>4. OneHolder
  BY DEF OneHolder, Delivering, InTry, Started
<1> QED
  BY <1>1, <1>2, <1>3, <1>4 DEF IInv

LEMMA StopWithType ==
    ASSUME NEW state \in {"not_started", "unknown", "returned"}
    PROVE  /\ StopWith(state) \in Endings
           /\ StopWith(state).state = state
           /\ ~StopWith(state).channels
  BY DEF StopWith, NoEnding, Endings

\* Rows and channels that do not change keep every occurrence as it is.
LEMMA KeysKept ==
    ASSUME \A k \in Key : KeyOK(k), UNCHANGED <<runVars, channelVars>>
    PROVE  \A k \in Key : KeyOK(k)'
  BY DEF KeyOK, Unsent, runVars, channelVars

-----------------------------------------------------------------------------
(* One lemma per action.                                                   *)

LEMMA SweepRunInv ==
    ASSUME IInv, NEW p \in Processes, SweepRun(p), UNCHANGED kind
    PROVE  IInv'
<1> USE DeliveryAssumption DEF IInv, SweepRun, RecoverRun, runVars, sourceVars, processVars, channelVars, claimVars, KeepProcess, Goto, Delivering, InTry, Started
<1>1. TypeOK'
  BY DEF TypeOK, RunStatus, Ended
<1>2. ASSUME NEW q \in Processes PROVE ProcOK(q)'
  BY DEF ProcOK, KeyOK, Unsent, EndingOK, Live
<1>3. ASSUME NEW j \in Key PROVE KeyOK(j)'
  BY DEF TypeOK, KeyOK, Unsent, Live
<1>4. OneHolder'
  BY DEF TypeOK, ProcOK, OneHolder
<1> QED
  BY <1>1, <1>2, <1>3, <1>4

LEMMA EndSweepRunsInv ==
    ASSUME IInv, NEW p \in Processes, EndSweepRuns(p), UNCHANGED kind
    PROVE  IInv'
<1> USE DeliveryAssumption DEF IInv, EndSweepRuns, runVars, sourceVars, processVars, channelVars, claimVars, KeepProcess, Goto, Delivering, InTry, Started
<1>1. TypeOK'
  BY DEF TypeOK, PC
<1>2. ASSUME NEW q \in Processes PROVE ProcOK(q)'
  BY DEF ProcOK, Unsent, EndingOK
<1>3. ASSUME NEW j \in Key PROVE KeyOK(j)'
  BY DEF KeyOK, Unsent
<1>4. OneHolder'
  BY DEF TypeOK, ProcOK, OneHolder
<1> QED
  BY <1>1, <1>2, <1>3, <1>4

LEMMA SweepTaskInv ==
    ASSUME IInv, NEW p \in Processes, SweepTask(p), UNCHANGED kind
    PROVE  IInv'
<1> USE DeliveryAssumption DEF IInv, SweepTask, RecoverInterrupted, runVars, sourceVars, processVars, channelVars, claimVars, KeepProcess, Goto, Delivering, InTry, Started
<1>1. TypeOK'
  BY DEF TypeOK
<1>2. ASSUME NEW q \in Processes PROVE ProcOK(q)'
  BY DEF ProcOK, Unsent, EndingOK
<1>3. ASSUME NEW j \in Key PROVE KeyOK(j)'
  BY DEF KeyOK, Unsent
<1>4. OneHolder'
  BY DEF TypeOK, ProcOK, OneHolder
<1> QED
  BY <1>1, <1>2, <1>3, <1>4

LEMMA EndSweepTasksInv ==
    ASSUME IInv, NEW p \in Processes, EndSweepTasks(p), UNCHANGED kind
    PROVE  IInv'
<1> USE DeliveryAssumption DEF IInv, EndSweepTasks, runVars, sourceVars, processVars, channelVars, claimVars, KeepProcess, Goto, Delivering, InTry, Started
<1>1. TypeOK'
  BY DEF TypeOK, PC
<1>2. ASSUME NEW q \in Processes PROVE ProcOK(q)'
  BY DEF ProcOK, Unsent, EndingOK
<1>3. ASSUME NEW j \in Key PROVE KeyOK(j)'
  BY DEF KeyOK, Unsent
<1>4. OneHolder'
  BY DEF TypeOK, ProcOK, OneHolder
<1> QED
  BY <1>1, <1>2, <1>3, <1>4

LEMMA SelectDueInv ==
    ASSUME IInv, NEW p \in Processes, SelectDue(p), UNCHANGED kind
    PROVE  IInv'
<1> USE DeliveryAssumption DEF IInv, SelectDue, runVars, sourceVars, processVars, channelVars, claimVars, KeepProcess, Goto, Delivering, InTry, Started
<1>1. TypeOK'
  <2>1. PICK s \in Sources : DueNow(s) /\ cur' = [cur EXCEPT ![p] = <<s, fireCount[s] + 1>>]
    OBVIOUS
  <2>2. <<s, fireCount[s] + 1>> \in Key
    BY <2>1 DEF DueNow, TypeOK, Key, Fires
  <2> QED
    BY <2>1, <2>2 DEF TypeOK, PC
<1>2. ASSUME NEW q \in Processes PROVE ProcOK(q)'
  <2>1. PICK s \in Sources : DueNow(s) /\ cur' = [cur EXCEPT ![p] = <<s, fireCount[s] + 1>>]
    OBVIOUS
  <2>2. <<s, fireCount[s] + 1>> \in Key
    BY <2>1 DEF DueNow, TypeOK, Key, Fires
  <2>3. pc[p] = "claim" /\ pc' = [pc EXCEPT ![p] = "claiming"] /\ UNCHANGED <<ending, runVars, channelVars>>
    OBVIOUS
  <2>4. ProcOK(q)
    OBVIOUS
  <2> QED
    BY <2>1, <2>2, <2>3, <2>4 DEF TypeOK, ProcOK, Unsent, EndingOK
<1>3. ASSUME NEW j \in Key PROVE KeyOK(j)'
  BY DEF KeyOK, Unsent
<1>4. OneHolder'
  BY DEF TypeOK, ProcOK, OneHolder
<1> QED
  BY <1>1, <1>2, <1>3, <1>4

LEMMA NothingDueInv ==
    ASSUME IInv, NEW p \in Processes, NothingDue(p), UNCHANGED kind
    PROVE  IInv'
<1> USE DeliveryAssumption DEF IInv, NothingDue, runVars, sourceVars, processVars, channelVars, claimVars, KeepProcess, Goto, Delivering, InTry, Started
<1>1. TypeOK'
  BY DEF TypeOK, PC
<1>2. ASSUME NEW q \in Processes PROVE ProcOK(q)'
  BY DEF ProcOK, Unsent, EndingOK
<1>3. ASSUME NEW j \in Key PROVE KeyOK(j)'
  BY DEF KeyOK, Unsent
<1>4. OneHolder'
  BY DEF TypeOK, ProcOK, OneHolder
<1> QED
  BY <1>1, <1>2, <1>3, <1>4

LEMMA ClaimInv ==
    ASSUME IInv, NEW p \in Processes, Claim(p), UNCHANGED kind
    PROVE  IInv'
<1> USE DeliveryAssumption DEF IInv, Claim, MayClaim, runVars, sourceVars, processVars, channelVars, claimVars, KeepProcess, Goto, Delivering, InTry, Started
<1>1. TypeOK'
  <2>1. cur[p] \in Sources \X Fires
    BY DEF ProcOK, Key
  <2>2. cur[p][1] \in Sources /\ cur[p][2] \in 0..MaxFires
    BY <2>1 DEF Fires
  <2> QED
    BY <2>2 DEF TypeOK, PC
<1>2. ASSUME NEW q \in Processes PROVE ProcOK(q)'
  BY DEF ProcOK, Unsent, EndingOK
<1>3. ASSUME NEW j \in Key PROVE KeyOK(j)'
  BY DEF KeyOK, Unsent
<1>4. OneHolder'
  BY DEF TypeOK, ProcOK, OneHolder
<1> QED
  BY <1>1, <1>2, <1>3, <1>4

LEMMA LoseClaimInv ==
    ASSUME IInv, NEW p \in Processes, LoseClaim(p), UNCHANGED kind
    PROVE  IInv'
<1> USE DeliveryAssumption DEF IInv, LoseClaim, runVars, sourceVars, processVars, channelVars, claimVars, KeepProcess, Goto, Delivering, InTry, Started
<1>1. TypeOK'
  BY DEF TypeOK, PC
<1>2. ASSUME NEW q \in Processes PROVE ProcOK(q)'
  BY DEF TypeOK, ProcOK, Unsent, EndingOK
<1>3. ASSUME NEW j \in Key PROVE KeyOK(j)'
  BY DEF KeyOK, Unsent
<1>4. OneHolder'
  BY DEF TypeOK, ProcOK, OneHolder
<1> QED
  BY <1>1, <1>2, <1>3, <1>4

LEMMA CallReportInv ==
    ASSUME IInv, NEW p \in Processes, CallReport(p), UNCHANGED kind
    PROVE  IInv'
<1> USE DeliveryAssumption DEF IInv, CallReport, runVars, sourceVars, processVars, channelVars, claimVars, KeepProcess, Goto, Delivering, InTry, Started
<1>1. TypeOK'
  BY DEF TypeOK, PC, Key, Fires
<1>2. ASSUME NEW q \in Processes PROVE ProcOK(q)'
  BY DEF TypeOK, ProcOK, Unsent, EndingOK, Key, Fires
<1>3. ASSUME NEW j \in Key PROVE KeyOK(j)'
  BY DEF KeyOK, Unsent
<1>4. OneHolder'
  BY DEF TypeOK, ProcOK, OneHolder
<1> QED
  BY <1>1, <1>2, <1>3, <1>4

LEMMA AdmitInv ==
    ASSUME IInv, NEW p \in Processes, Admit(p), UNCHANGED kind, UNCHANGED claimVars
    PROVE  IInv'
<1> USE DeliveryAssumption DEF IInv, Admit, MayAdmit, runVars, sourceVars, processVars, channelVars, claimVars, KeepProcess, Goto, Delivering, InTry, Started
<1>1. TypeOK'
  BY DEF TypeOK, RunStatus, Live, PC
<1>2. ASSUME NEW q \in Processes PROVE ProcOK(q)'
  BY DEF TypeOK, ProcOK, KeyOK, Unsent, EndingOK
<1>3. ASSUME NEW j \in Key PROVE KeyOK(j)'
  BY DEF KeyOK, Unsent
<1>4. OneHolder'
  BY DEF TypeOK, ProcOK, OneHolder
<1> QED
  BY <1>1, <1>2, <1>3, <1>4

LEMMA RefuseInv ==
    ASSUME IInv, NEW p \in Processes, Refuse(p), UNCHANGED kind, UNCHANGED claimVars
    PROVE  IInv'
<1> USE DeliveryAssumption DEF IInv, Refuse, Leave, runVars, sourceVars, processVars, channelVars, claimVars, KeepProcess, Goto, Delivering, InTry, Started
<1>1. TypeOK'
  BY DEF TypeOK, Endings, NoEnding, PC
<1>2. ASSUME NEW q \in Processes PROVE ProcOK(q)'
  BY DEF TypeOK, ProcOK, Unsent, EndingOK
<1>3. ASSUME NEW j \in Key PROVE KeyOK(j)'
  BY DEF KeyOK, Unsent
<1>4. OneHolder'
  BY DEF TypeOK, ProcOK, OneHolder
<1> QED
  BY <1>1, <1>2, <1>3, <1>4

LEMMA StartDispatchInv ==
    ASSUME IInv, NEW p \in Processes, StartDispatch(p), UNCHANGED kind, UNCHANGED claimVars
    PROVE  IInv'
<1> USE DeliveryAssumption DEF IInv, StartDispatch, MayStart, Valid, runVars, sourceVars, processVars, channelVars, claimVars, KeepProcess, Goto, Delivering, InTry, Started
<1>1. TypeOK'
  BY DEF TypeOK, PC
<1>2. ASSUME NEW q \in Processes PROVE ProcOK(q)'
  BY DEF TypeOK, ProcOK, OneHolder, Unsent, EndingOK
<1>3. ASSUME NEW j \in Key PROVE KeyOK(j)'
  BY DEF KeyOK, Unsent
<1>4. OneHolder'
  BY DEF TypeOK, ProcOK, OneHolder
<1> QED
  BY <1>1, <1>2, <1>3, <1>4

LEMMA DenyDispatchInv ==
    ASSUME IInv, NEW p \in Processes, DenyDispatch(p), UNCHANGED kind, UNCHANGED claimVars
    PROVE  IInv'
<1> USE DeliveryAssumption DEF IInv, DenyDispatch, Conclude, runVars, sourceVars, processVars, channelVars, claimVars, KeepProcess, Goto, Delivering, InTry, Started
<1>1. TypeOK'
  BY StopWithType DEF TypeOK, PC
<1>2. ASSUME NEW q \in Processes PROVE ProcOK(q)'
  BY StopWithType DEF TypeOK, ProcOK, Unsent, EndingOK
<1>3. ASSUME NEW j \in Key PROVE KeyOK(j)'
  BY DEF KeyOK, Unsent
<1>4. OneHolder'
  BY DEF TypeOK, ProcOK, OneHolder
<1> QED
  BY <1>1, <1>2, <1>3, <1>4

LEMMA BeginCallInv ==
    ASSUME IInv, NEW p \in Processes, BeginCall(p), UNCHANGED kind, UNCHANGED claimVars
    PROVE  IInv'
<1> USE DeliveryAssumption DEF IInv, BeginCall, Conclude, runVars, sourceVars, processVars, channelVars, claimVars, KeepProcess, Goto, Delivering, InTry, Started
<1>1. TypeOK'
  BY StopWithType DEF TypeOK, PC
<1>2. ASSUME NEW q \in Processes PROVE ProcOK(q)'
  BY StopWithType DEF TypeOK, ProcOK, Unsent, EndingOK
<1>3. ASSUME NEW j \in Key PROVE KeyOK(j)'
  BY DEF KeyOK, Unsent
<1>4. OneHolder'
  BY DEF TypeOK, ProcOK, OneHolder
<1> QED
  BY <1>1, <1>2, <1>3, <1>4

LEMMA TransmitInv ==
    ASSUME IInv, NEW p \in Processes, Transmit(p), UNCHANGED kind, UNCHANGED claimVars
    PROVE  IInv'
<1> USE DeliveryAssumption DEF IInv, Transmit, runVars, sourceVars, processVars, channelVars, claimVars, KeepProcess, Goto, Delivering, InTry, Started
<1>1. TypeOK'
  <2>1. cur[p] \in Key
    BY DEF ProcOK
  <2>2. sent' \in [Key -> Nat]
    BY <2>1 DEF TypeOK
  <2> QED
    BY <2>2 DEF TypeOK, PC
<1>2. ASSUME NEW q \in Processes PROVE ProcOK(q)'
  BY DEF TypeOK, ProcOK, OneHolder, Unsent, EndingOK
<1>3. ASSUME NEW j \in Key PROVE KeyOK(j)'
  BY DEF ProcOK, KeyOK, Unsent
<1>4. OneHolder'
  BY DEF TypeOK, ProcOK, OneHolder
<1> QED
  BY <1>1, <1>2, <1>3, <1>4

LEMMA CallReturnsInv ==
    ASSUME IInv, NEW p \in Processes, CallReturns(p), UNCHANGED kind, UNCHANGED claimVars
    PROVE  IInv'
<1> USE DeliveryAssumption DEF IInv, CallReturns, runVars, sourceVars, processVars, channelVars, claimVars, KeepProcess, Goto, Delivering, InTry, Started
<1>1. TypeOK'
  BY DEF TypeOK, Endings, PC
<1>2. ASSUME NEW q \in Processes PROVE ProcOK(q)'
  <2> DEFINE e == [state |-> "returned", channels |-> pc[p] = "sent", cancelled |-> FALSE]
  <2>1. ending' = [ending EXCEPT ![p] = e] /\ pc' = [pc EXCEPT ![p] = "returned"]
    OBVIOUS
  <2>2. e.state = "returned" /\ (e.channels <=> pc[p] = "sent")
    OBVIOUS
  <2>3. pc[p] \in {"sending", "sent"} /\ UNCHANGED <<cur, runStatus, dispatchState, sent, loose>>
    OBVIOUS
  <2>4. ProcOK(p) /\ ProcOK(q) /\ KeyOK(cur[p])
    BY DEF ProcOK
  <2> HIDE DEF e
  <2>5. CASE q = p
    BY <2>1, <2>2, <2>3, <2>4, <2>5 DEF TypeOK, ProcOK, KeyOK, Unsent, EndingOK
  <2>6. CASE q # p
    BY <2>1, <2>3, <2>4, <2>6 DEF TypeOK, ProcOK, Unsent, EndingOK
  <2> QED
    BY <2>5, <2>6
<1>3. ASSUME NEW j \in Key PROVE KeyOK(j)'
  BY DEF KeyOK, Unsent
<1>4. OneHolder'
  BY DEF TypeOK, ProcOK, OneHolder
<1> QED
  BY <1>1, <1>2, <1>3, <1>4

LEMMA CallFailsInv ==
    ASSUME IInv, NEW p \in Processes, CallFails(p), UNCHANGED kind, UNCHANGED claimVars
    PROVE  IInv'
<1> USE DeliveryAssumption DEF IInv, CallFails, Conclude, runVars, sourceVars, processVars, channelVars, claimVars, KeepProcess, Goto, Delivering, InTry, Started
<1>1. TypeOK'
  <2>1. cur[p] \in Key
    BY DEF ProcOK
  <2> QED
    BY <2>1, StopWithType DEF TypeOK, PC
<1>2. ASSUME NEW q \in Processes PROVE ProcOK(q)'
  BY StopWithType DEF TypeOK, ProcOK, KeyOK, OneHolder, Unsent, EndingOK
<1>3. ASSUME NEW j \in Key PROVE KeyOK(j)'
  BY DEF ProcOK, KeyOK, Unsent
<1>4. OneHolder'
  BY DEF TypeOK, ProcOK, OneHolder
<1> QED
  BY <1>1, <1>2, <1>3, <1>4

LEMMA AcceptResultInv ==
    ASSUME IInv, NEW p \in Processes, AcceptResult(p), UNCHANGED kind, UNCHANGED claimVars
    PROVE  IInv'
<1> USE DeliveryAssumption DEF IInv, AcceptResult, Conclude, runVars, sourceVars, processVars, channelVars, claimVars, KeepProcess, Goto, Delivering, InTry, Started
<1>1. TypeOK'
  BY StopWithType DEF TypeOK, PC
<1>2. ASSUME NEW q \in Processes PROVE ProcOK(q)'
  BY StopWithType DEF TypeOK, ProcOK, Unsent, EndingOK
<1>3. ASSUME NEW j \in Key PROVE KeyOK(j)'
  BY DEF KeyOK, Unsent
<1>4. OneHolder'
  BY DEF TypeOK, ProcOK, OneHolder
<1> QED
  BY <1>1, <1>2, <1>3, <1>4

LEMMA FinishInv ==
    ASSUME IInv, NEW p \in Processes, Finish(p), UNCHANGED kind, UNCHANGED claimVars
    PROVE  IInv'
<1> USE DeliveryAssumption DEF IInv, Finish, FinishSource, RunAfter, Leave, NoEnding, runVars, sourceVars, processVars, channelVars, claimVars, KeepProcess, Goto, Delivering, InTry, Started
<1>1. TypeOK'
  <2>1. cur[p] \in Sources \X Fires /\ ending[p] \in Endings
    BY DEF ProcOK, Key, TypeOK
  <2>2. cur[p][1] \in Sources /\ cur[p] \in Key /\ NoEnding \in Endings
    BY <2>1 DEF Key, Endings, NoEnding
  <2>3. ending[p].state \in {"not_started", "unknown", "returned"} /\ ending[p].channels \in BOOLEAN
    BY <2>1 DEF Endings
  <2>4. UNCHANGED <<kind, owner, stopping, sent, loose, fireCount, lapsed>>
    OBVIOUS
  <2>5. /\ runStatus' \in [Key -> RunStatus]
        /\ dispatchState' \in [Key -> {"not_started", "started", "unknown", "returned"}]
        /\ reported' \in [Key -> BOOLEAN]
    BY <2>2, <2>3 DEF TypeOK, RunStatus, Ended, Live
  <2>6. /\ pc' \in [Processes -> PC]
        /\ cur' \in [Processes -> Key \cup {NoKey}]
        /\ ending' \in [Processes -> Endings]
    BY <2>2 DEF TypeOK, PC
  <2>7. /\ srcStatus' \in [Sources -> {"active", "firing", "done", "cancelled",
                                       "pending", "delivered"}]
        /\ lastRun' \in [Sources -> 0..MaxFires]
        /\ lastOutcome' \in [Sources -> {"none", "claimed", "interrupted",
                                         "not_started", "unknown", "returned"}]
        /\ nextFire' \in [Sources -> {"never", "future", "due"}]
    BY <2>2, <2>3 DEF TypeOK
  <2> QED
    BY <2>4, <2>5, <2>6, <2>7 DEF TypeOK
<1>2. ASSUME NEW q \in Processes PROVE ProcOK(q)'
  BY DEF TypeOK, ProcOK, OneHolder, Unsent, EndingOK
<1>3. ASSUME NEW j \in Key PROVE KeyOK(j)'
  BY DEF TypeOK, ProcOK, KeyOK, Unsent, EndingOK, Live
<1>4. OneHolder'
  BY DEF TypeOK, ProcOK, OneHolder
<1> QED
  BY <1>1, <1>2, <1>3, <1>4

LEMMA StopInv ==
    ASSUME IInv, NEW p \in Processes, Stop(p), UNCHANGED kind
    PROVE  IInv'
<1> DEFINE e == ending'[p]
<1> USE DEF IInv, runVars, sourceVars, processVars, channelVars, claimVars, KeepProcess, Goto, Delivering, InTry, Started
<1>1. UNCHANGED <<kind, runStatus, dispatchState, reported, srcStatus, lastRun, lastOutcome,
                  nextFire, owner, sent, fireCount, lapsed>>
  BY DEF Stop
<1>2. /\ pc' = [pc EXCEPT ![p] = pc'[p]] /\ pc'[p] \in {"finish", "dead"}
      /\ cur' = [cur EXCEPT ![p] = cur'[p]]
      /\ pc'[p] = "finish" => pc[p] \in InTry /\ cur'[p] = cur[p]
      /\ pc'[p] = "dead" => cur'[p] = NoKey
      /\ stopping' = [stopping EXCEPT ![p] = TRUE]
  BY DEF Stop, TypeOK
<1>3. /\ ending' = [ending EXCEPT ![p] = e] /\ e \in Endings /\ ~e.channels
      /\ e.state # "returned"
      /\ pc'[p] = "finish" /\ e.state = "not_started" => pc[p] \in {"start", "call"}
      /\ pc'[p] = "finish" /\ e.state # "not_started" => pc[p] \in Started
  <2>1. CASE pc[p] \in InTry
    <3>1. PICK st \in IF pc[p] = "start" THEN {"not_started"}
                      ELSE IF pc[p] = "call" THEN {"unknown", "not_started"}
                      ELSE {"unknown"} :
             ending' = [ending EXCEPT ![p] = [StopWith(st) EXCEPT !.cancelled = TRUE]]
      BY <2>1 DEF Stop
    <3>2. e = [state |-> st, channels |-> FALSE, cancelled |-> TRUE]
      BY <3>1 DEF StopWith, NoEnding, TypeOK
    <3>3. e \in Endings /\ ~e.channels /\ e.state = st
      BY <3>2 DEF Endings
    <3>4. ending' = [ending EXCEPT ![p] = e]
      BY <3>1 DEF TypeOK
    <3>5. /\ st # "returned" /\ (st = "not_started" => pc[p] \in {"start", "call"})
          /\ st # "not_started" => pc[p] \in Started
      BY <2>1
    <3> QED
      BY <3>3, <3>4, <3>5
  <2>2. CASE pc[p] \notin InTry
    <3>1. ending' = [ending EXCEPT ![p] = NoEnding] /\ pc' = [pc EXCEPT ![p] = "dead"]
      BY <2>2 DEF Stop
    <3>2. e = NoEnding /\ pc'[p] = "dead"
      BY <3>1 DEF TypeOK
    <3>3. NoEnding \in Endings /\ ~NoEnding.channels /\ NoEnding.state = "not_started"
      BY DEF NoEnding, Endings
    <3> HIDE DEF e
    <3> QED
      BY <3>1, <3>2, <3>3
  <2> QED
    BY <2>1, <2>2
<1>4. loose' = loose \/ (pc[p] = "sending" /\ loose' = loose \cup {cur[p]} /\ e.state = "unknown")
  <2>1. CASE pc[p] = "sending"
    <3>1. \E st \in {"unknown"} : ending' = [ending EXCEPT ![p] = [StopWith(st) EXCEPT !.cancelled = TRUE]]
      BY <2>1 DEF Stop
    <3> QED
      BY <2>1, <3>1 DEF Stop, StopWith, NoEnding, TypeOK
  <2>2. CASE pc[p] # "sending"
    BY <2>2 DEF Stop
  <2> QED
    BY <2>1, <2>2
<1>5. pc[p] \in Delivering => cur[p] \in Key
  BY DEF ProcOK
<1> HIDE DEF e
<1>6. TypeOK'
  BY <1>1, <1>2, <1>3, <1>4, <1>5 DEF TypeOK, PC
<1>7. ASSUME NEW q \in Processes PROVE ProcOK(q)'
  <2>1. ProcOK(p) /\ ProcOK(q) /\ (pc[p] \in Delivering => KeyOK(cur[p]))
    BY <1>5
  <2>2. CASE q = p
    BY <1>1, <1>2, <1>3, <1>4, <1>5, <2>1, <2>2 DEF TypeOK, ProcOK, Unsent, EndingOK
  <2>3. CASE q # p
    BY <1>1, <1>2, <1>3, <1>4, <1>5, <2>1, <2>3 DEF TypeOK, ProcOK, OneHolder, KeyOK, Unsent, EndingOK
  <2> QED
    BY <2>2, <2>3
<1>8. ASSUME NEW j \in Key PROVE KeyOK(j)'
  BY <1>1, <1>4, <1>5 DEF TypeOK, ProcOK, KeyOK, Unsent
<1>9. OneHolder'
  BY <1>1, <1>2, <1>5 DEF TypeOK, OneHolder
<1> QED
  BY <1>6, <1>7, <1>8, <1>9

LEMMA KillInv ==
    ASSUME IInv, NEW p \in Processes, Kill(p), UNCHANGED kind
    PROVE  IInv'
<1> USE DeliveryAssumption DEF IInv, Kill, NoEnding, runVars, sourceVars, processVars, channelVars, claimVars, KeepProcess, Goto, Delivering, InTry, Started
<1>1. TypeOK'
  BY DEF TypeOK, Endings, PC
<1>2. ASSUME NEW q \in Processes PROVE ProcOK(q)'
  BY DEF TypeOK, ProcOK, Unsent, EndingOK
<1>3. ASSUME NEW j \in Key PROVE KeyOK(j)'
  BY DEF KeyOK, Unsent
<1>4. OneHolder'
  BY DEF TypeOK, ProcOK, OneHolder
<1> QED
  BY <1>1, <1>2, <1>3, <1>4

LEMMA LateTransmitInv ==
    ASSUME IInv, NEW k \in Key, LateTransmit(k), UNCHANGED kind, UNCHANGED claimVars
    PROVE  IInv'
<1> USE DeliveryAssumption DEF IInv, LateTransmit, runVars, sourceVars, processVars, channelVars, claimVars, KeepProcess, Goto, Delivering, InTry, Started
<1>1. TypeOK'
  BY DEF TypeOK
<1>2. ASSUME NEW q \in Processes PROVE ProcOK(q)'
  BY DEF ProcOK, KeyOK, Unsent, EndingOK
<1>3. ASSUME NEW j \in Key PROVE KeyOK(j)'
  BY DEF KeyOK, Unsent
<1>4. OneHolder'
  BY DEF TypeOK, ProcOK, OneHolder
<1> QED
  BY <1>1, <1>2, <1>3, <1>4

LEMMA CloseTaskInv ==
    ASSUME IInv, NEW s \in Sources, NEW st \in {"done", "cancelled"}, CloseTask(s, st), UNCHANGED kind
    PROVE  IInv'
<1> USE DeliveryAssumption DEF IInv, CloseTask, CancelCurrent, UserFrame, Open, runVars, sourceVars, processVars, channelVars, claimVars, KeepProcess, Goto, Delivering, InTry, Started
<1>1. TypeOK'
  BY DEF TypeOK, RunStatus, Ended
<1>2. ASSUME NEW q \in Processes PROVE ProcOK(q)'
  BY DEF ProcOK, Unsent, EndingOK
<1>3. ASSUME NEW j \in Key PROVE KeyOK(j)'
  BY DEF KeyOK, Unsent
<1>4. OneHolder'
  BY DEF TypeOK, ProcOK, OneHolder
<1> QED
  BY <1>1, <1>2, <1>3, <1>4

LEMMA SnoozeTaskInv ==
    ASSUME IInv, NEW s \in Sources, SnoozeTask(s), UNCHANGED kind
    PROVE  IInv'
<1> USE DeliveryAssumption DEF IInv, SnoozeTask, CancelCurrent, UserFrame, Open, runVars, sourceVars, processVars, channelVars, claimVars, KeepProcess, Goto, Delivering, InTry, Started
<1>1. TypeOK'
  BY DEF TypeOK, RunStatus, Ended
<1>2. ASSUME NEW q \in Processes PROVE ProcOK(q)'
  BY DEF ProcOK, Unsent, EndingOK
<1>3. ASSUME NEW j \in Key PROVE KeyOK(j)'
  BY DEF KeyOK, Unsent
<1>4. OneHolder'
  BY DEF TypeOK, ProcOK, OneHolder
<1> QED
  BY <1>1, <1>2, <1>3, <1>4

LEMMA CancelWorkInv ==
    ASSUME IInv, NEW k \in Key, CancelWork(k), UNCHANGED kind
    PROVE  IInv'
<1> USE DeliveryAssumption DEF IInv, CancelWork, runVars, sourceVars, processVars, channelVars, claimVars, KeepProcess, Goto, Delivering, InTry, Started
<1>1. TypeOK'
  BY DEF TypeOK, RunStatus, Ended
<1>2. ASSUME NEW q \in Processes PROVE ProcOK(q)'
  BY DEF ProcOK, Unsent, EndingOK
<1>3. ASSUME NEW j \in Key PROVE KeyOK(j)'
  BY DEF KeyOK, Unsent
<1>4. OneHolder'
  BY DEF TypeOK, ProcOK, OneHolder
<1> QED
  BY <1>1, <1>2, <1>3, <1>4

LEMMA DeactivateInv ==
    ASSUME IInv, Deactivate, UNCHANGED kind
    PROVE  IInv'
<1> USE DeliveryAssumption DEF IInv, Deactivate, runVars, sourceVars, processVars, channelVars, claimVars, KeepProcess, Goto, Delivering, InTry, Started
<1>1. TypeOK'
  BY DEF TypeOK
<1>2. ASSUME NEW q \in Processes PROVE ProcOK(q)'
  BY DEF ProcOK, Unsent, EndingOK
<1>3. ASSUME NEW j \in Key PROVE KeyOK(j)'
  BY DEF KeyOK, Unsent
<1>4. OneHolder'
  BY DEF TypeOK, ProcOK, OneHolder
<1> QED
  BY <1>1, <1>2, <1>3, <1>4

LEMMA FallsDueInv ==
    ASSUME IInv, NEW s \in Sources, FallsDue(s), UNCHANGED kind
    PROVE  IInv'
<1> USE DeliveryAssumption DEF IInv, FallsDue, runVars, sourceVars, processVars, channelVars, claimVars, KeepProcess, Goto, Delivering, InTry, Started
<1>1. TypeOK'
  BY DEF TypeOK
<1>2. ASSUME NEW q \in Processes PROVE ProcOK(q)'
  BY DEF ProcOK, Unsent, EndingOK
<1>3. ASSUME NEW j \in Key PROVE KeyOK(j)'
  BY DEF KeyOK, Unsent
<1>4. OneHolder'
  BY DEF TypeOK, ProcOK, OneHolder
<1> QED
  BY <1>1, <1>2, <1>3, <1>4

LEMMA DeadlinePassesInv ==
    ASSUME IInv, NEW k \in Key, DeadlinePasses(k), UNCHANGED kind
    PROVE  IInv'
<1> USE DeliveryAssumption DEF IInv, DeadlinePasses, runVars, sourceVars, processVars, channelVars, claimVars, KeepProcess, Goto, Delivering, InTry, Started
<1>1. TypeOK'
  BY DEF TypeOK, RunStatus, Live
<1>2. ASSUME NEW q \in Processes PROVE ProcOK(q)'
  BY DEF ProcOK, Unsent, EndingOK
<1>3. ASSUME NEW j \in Key PROVE KeyOK(j)'
  BY DEF KeyOK, Unsent, Live
<1>4. OneHolder'
  BY DEF TypeOK, ProcOK, OneHolder
<1> QED
  BY <1>1, <1>2, <1>3, <1>4

LEMMA GraceLapsesInv ==
    ASSUME IInv, NEW s \in Sources, GraceLapses(s), UNCHANGED kind
    PROVE  IInv'
<1> USE DeliveryAssumption DEF IInv, GraceLapses, runVars, sourceVars, processVars, channelVars, claimVars, KeepProcess, Goto, Delivering, InTry, Started
<1>1. TypeOK'
  BY DEF TypeOK
<1>2. ASSUME NEW q \in Processes PROVE ProcOK(q)'
  BY DEF ProcOK, Unsent, EndingOK
<1>3. ASSUME NEW j \in Key PROVE KeyOK(j)'
  BY DEF KeyOK, Unsent
<1>4. OneHolder'
  BY DEF TypeOK, ProcOK, OneHolder
<1> QED
  BY <1>1, <1>2, <1>3, <1>4

-----------------------------------------------------------------------------
(* Every step keeps the invariant.                                         *)

LEMMA StutterInv ==
    ASSUME IInv, UNCHANGED vars
    PROVE  IInv'
<1> USE DEF IInv, vars, runVars, sourceVars, processVars, channelVars, claimVars
<1>1. TypeOK'
  BY DEF TypeOK
<1>2. \A p \in Processes : ProcOK(p)'
  BY DEF ProcOK, Unsent, EndingOK
<1>3. \A k \in Key : KeyOK(k)'
  BY DEF KeyOK, Unsent
<1>4. OneHolder'
  BY DEF OneHolder
<1> QED
  BY <1>1, <1>2, <1>3, <1>4

LEMMA NextInv ==
    ASSUME IInv, [Next]_vars
    PROVE  IInv'
<1>1. ASSUME NEW p \in Processes, ProcessStep(p), UNCHANGED kind PROVE IInv'
  <2>1. CASE Sweep(p)
    BY <1>1, <2>1, SweepRunInv, EndSweepRunsInv, SweepTaskInv, EndSweepTasksInv DEF Sweep
  <2>2. CASE ClaimStep(p)
    BY <1>1, <2>2, SelectDueInv, NothingDueInv, ClaimInv, LoseClaimInv DEF ClaimStep
  <2>3. CASE DeliverStep(p)
    BY <1>1, <2>3, AdmitInv, RefuseInv, StartDispatchInv, DenyDispatchInv, BeginCallInv,
       TransmitInv, CallReturnsInv, CallFailsInv, AcceptResultInv, FinishInv DEF DeliverStep
  <2> QED
    BY <1>1, <2>1, <2>2, <2>3 DEF ProcessStep
<1>2. ASSUME NEW p \in Processes, CallReport(p) \/ Stop(p) \/ Kill(p), UNCHANGED kind
      PROVE  IInv'
  BY <1>2, CallReportInv, StopInv, KillInv
<1>3. ASSUME NEW k \in Key, LateTransmit(k), UNCHANGED claimVars, UNCHANGED kind PROVE IInv'
  BY <1>3, LateTransmitInv
<1>4. ASSUME User, UNCHANGED kind PROVE IInv'
  BY <1>4, CloseTaskInv, SnoozeTaskInv, CancelWorkInv, DeactivateInv DEF User
<1>5. ASSUME Time, UNCHANGED kind PROVE IInv'
  BY <1>5, FallsDueInv, GraceLapsesInv, DeadlinePassesInv DEF Time
<1> QED
  BY <1>1, <1>2, <1>3, <1>4, <1>5, StutterInv DEF Next

LEMMA SpecInv == Spec => []IInv
<1>1. Init => IInv
  BY InitInv
<1>2. IInv /\ [Next]_vars => IInv'
  BY NextInv
<1> QED
  BY <1>1, <1>2, PTL DEF Spec

-----------------------------------------------------------------------------
(* What follows from it.                                                   *)

\* Every state is well typed.
THEOREM TypeCorrect == Spec => []TypeOK
<1>1. IInv => TypeOK
  BY DEF IInv
<1> QED
  BY <1>1, SpecInv, PTL

\* No caller, restart, retry or late operation sends an occurrence twice.
THEOREM AtMostOnce == Spec => []SentAtMostOnce
<1>1. IInv => SentAtMostOnce
  BY DEF IInv, KeyOK, SentAtMostOnce
<1> QED
  BY <1>1, SpecInv, PTL

\* What a run's outcome says of the past is true.
THEOREM Honest == Spec => []HonestOutcome
<1>1. IInv => HonestOutcome
  <2> SUFFICES ASSUME IInv, NEW k \in Key
               PROVE  /\ Outcome(k) = "returned" => sent[k] > 0
                      /\ Outcome(k) \in {"not_delivered", "cancelled"} => sent[k] = 0
    BY DEF HonestOutcome
  <2>1. KeyOK(k) /\ dispatchState[k] \in {"not_started", "started", "unknown", "returned"}
        /\ reported[k] \in BOOLEAN
    BY DEF IInv, TypeOK
  <2>2. CASE dispatchState[k] = "returned"
    BY <2>1, <2>2 DEF KeyOK, Unsent, Outcome
  <2>3. CASE dispatchState[k] = "not_started"
    BY <2>1, <2>3 DEF KeyOK, Unsent, Outcome, Live
  <2>4. CASE dispatchState[k] \in {"started", "unknown"}
    BY <2>1, <2>4 DEF Outcome, Live
  <2> QED
    BY <2>1, <2>2, <2>3, <2>4
<1> QED
  BY <1>1, SpecInv, PTL

\* A report is never in a status of a reminder.
Rows == \A s \in Sources : ~Reminder(s) => srcStatus[s] \in {"pending", "delivered"}

LEMMA RowsInv == Spec => []Rows
<1>1. Init => Rows
  BY DEF Init, Rows, Reminder
<1>2. IInv /\ Rows /\ [Next]_vars => Rows'
  <2> SUFFICES ASSUME IInv, Rows, [Next]_vars PROVE Rows'
    OBVIOUS
  <2>1. UNCHANGED kind
    BY DEF Next, vars
  <2>2. ASSUME NEW p \in Processes, ProcessStep(p) PROVE Rows'
    <3>1. CASE SweepTask(p)
      BY <2>1, <2>2, <3>1 DEF Rows, Reminder, SweepTask, RecoverInterrupted, Interrupted
    <3>2. CASE Claim(p)
      BY <2>1, <2>2, <3>2 DEF IInv, TypeOK, Rows, Reminder, Claim, MayClaim
    <3>3. CASE Finish(p)
      BY <2>1, <2>2, <3>3 DEF IInv, TypeOK, Rows, Reminder, Finish, FinishSource, sourceVars
    <3> QED
      BY <2>1, <2>2, <3>1, <3>2, <3>3 DEF Rows, Reminder, sourceVars, ProcessStep, Sweep, ClaimStep,
         DeliverStep, SweepRun, EndSweepRuns, EndSweepTasks, SelectDue, NothingDue, LoseClaim,
         Admit, Refuse, StartDispatch, DenyDispatch, BeginCall, Transmit, CallReturns,
         CallFails, AcceptResult
  <2>3. ASSUME User \/ Time PROVE Rows'
    BY <2>1, <2>3 DEF IInv, TypeOK, Rows, Reminder, sourceVars, User, Time, CloseTask, SnoozeTask,
       Open, CancelWork, Deactivate, UserFrame, FallsDue, GraceLapses, DeadlinePasses
  <2> QED
    BY <2>1, <2>2, <2>3 DEF Next, vars, Rows, Reminder, sourceVars, CallReport, Stop, Kill, LateTransmit
<1> QED
  BY <1>1, <1>2, SpecInv, PTL DEF Spec

\* No step revives a reminder that is done or cancelled.
THEOREM ClosedForGood == Spec => ClosedStaysClosed
<1> DEFINE Kept == \A s \in Sources :
                      srcStatus[s] \in {"done", "cancelled"} => srcStatus'[s] = srcStatus[s]
<1> USE DEF sourceVars
<1>1. ASSUME IInv, NEW p \in Processes, Sweep(p) \/ ClaimStep(p) PROVE Kept
  <2>1. CASE SweepTask(p)
    BY <1>1, <2>1 DEF IInv, TypeOK, SweepTask, RecoverInterrupted, Interrupted
  <2>2. CASE Claim(p)
    BY <1>1, <2>2 DEF IInv, TypeOK, Claim, MayClaim
  <2> QED
    BY <1>1, <2>1, <2>2 DEF Sweep, ClaimStep, SweepRun, EndSweepRuns, EndSweepTasks,
       SelectDue, NothingDue, LoseClaim
<1>2. ASSUME IInv, Rows, NEW p \in Processes, DeliverStep(p) PROVE Kept
  <2>1. CASE Finish(p)
    <3>1. cur[p] \in Key /\ pc[p] = "finish"
      BY <1>2, <2>1 DEF IInv, ProcOK, Finish, Delivering
    <3>2. cur[p][1] \in Sources
      BY <3>1 DEF Key
    <3>3. CASE Reminder(cur[p][1])
      BY <1>2, <2>1, <3>2, <3>3 DEF IInv, TypeOK, Finish, FinishSource
    <3>4. CASE ~Reminder(cur[p][1])
      BY <1>2, <2>1, <3>2, <3>4 DEF IInv, TypeOK, Rows, Finish, FinishSource
    <3> QED
      BY <3>3, <3>4
  <2> QED
    BY <1>2, <2>1 DEF DeliverStep, Admit, Refuse, StartDispatch, DenyDispatch, BeginCall,
       Transmit, CallReturns, CallFails, AcceptResult
<1>3. ASSUME IInv, User \/ Time PROVE Kept
  BY <1>3 DEF IInv, TypeOK, User, Time, CloseTask, SnoozeTask, Open, CancelWork, Deactivate,
     UserFrame, FallsDue, GraceLapses, DeadlinePasses
<1>4. ASSUME IInv, Rows, [Next]_vars PROVE Kept
  BY <1>1, <1>2, <1>3, <1>4 DEF Next, vars, ProcessStep, CallReport, Stop, Kill, LateTransmit
<1>5. IInv /\ Rows /\ [Next]_vars => [Kept]_vars
  BY <1>4
<1> QED
  BY <1>5, SpecInv, RowsInv, PTL DEF Spec, ClosedStaysClosed

-----------------------------------------------------------------------------
(* A reminder and the run it names tell the same story.                    *)

\* What StoriesAgree says of one source.
Tells(s) ==
    /\ lastOutcome[s] = "claimed" =>
           dispatchState[<<s, lastRun[s]>>] \in {"not_started", "started", "unknown"}
    /\ lastOutcome[s] = "unknown" => dispatchState[<<s, lastRun[s]>>] \in {"started", "unknown"}
    /\ lastOutcome[s] \in {"not_started", "returned"} =>
           dispatchState[<<s, lastRun[s]>>] = lastOutcome[s]

\* A reminder names its latest firing, or none when it was never claimed or the
\* claim was swept before it had a run; a firing that was not claimed yet and a
\* swept one have no run, and an outcome is only written of a run that is over
\* or overdue, so that nothing dispatches it later.
Story(s) ==
    /\ ~Reminder(s) => lastOutcome[s] = "none" /\ srcStatus[s] \notin {"active", "firing"}
    /\ lastRun[s] = IF lastOutcome[s] \in {"none", "interrupted"} THEN 0 ELSE fireCount[s]
    /\ lastOutcome[s] # "none" => fireCount[s] # 0
    /\ srcStatus[s] = "firing" => lastOutcome[s] = "claimed"
    /\ lastOutcome[s] \in {"not_started", "unknown", "returned"} =>
           runStatus[<<s, lastRun[s]>>] \notin {"none", "running"}
    /\ Reminder(s) =>
           \A g \in Fires :
               g > fireCount[s] \/ (g = fireCount[s] /\ lastOutcome[s] = "interrupted") =>
                   runStatus[<<s, g>>] = "none"

StoryInv == \A s \in Sources : Story(s) /\ Tells(s)

\* The occurrence a reminder names is one of the model's, and its state is typed.
LEMMA NamedKey ==
    ASSUME IInv, NEW s \in Sources, Story(s), lastOutcome[s] \notin {"none", "interrupted"}
    PROVE  /\ <<s, lastRun[s]>> \in Key
           /\ lastRun[s] = fireCount[s]
  BY DeliveryAssumption DEF IInv, TypeOK, Story, Key, Fires

\* A step that leaves the row alone and moves no run the row speaks of.
LEMMA StoryKept ==
    ASSUME IInv, NEW s \in Sources, Story(s), Tells(s),
           kind' = kind, fireCount' = fireCount, lastRun' = lastRun, lastOutcome' = lastOutcome,
           srcStatus'[s] = "firing" => srcStatus[s] = "firing",
           ~Reminder(s) => srcStatus'[s] \notin {"active", "firing"},
           \A k \in Key : runStatus[k] = "none" <=> runStatus'[k] = "none",
           \A k \in Key : runStatus'[k] = "running" => runStatus[k] = "running",
           \A k \in Key : \/ dispatchState'[k] = dispatchState[k]
                          \/ dispatchState[k] = "started" /\ dispatchState'[k] = "unknown"
    PROVE  Story(s)' /\ Tells(s)'
<1>1. \A g \in Fires : <<s, g>> \in Key
  BY DEF Key
<1>2. Reminder(s)' = Reminder(s)
  BY DEF Reminder
<1>3. Story(s)'
  BY <1>1, <1>2, NamedKey DEF Story
<1>4. Tells(s)'
  <2>1. CASE lastOutcome[s] \in {"none", "interrupted"}
    BY <2>1 DEF Tells
  <2>2. CASE lastOutcome[s] \notin {"none", "interrupted"}
    BY <2>2, NamedKey DEF Tells
  <2> QED
    BY <2>1, <2>2
<1> QED
  BY <1>3, <1>4

LEMMA StoryRecoverRun ==
    ASSUME IInv, NEW s \in Sources, Story(s), Tells(s), NEW k \in Key, RecoverRun(k),
           UNCHANGED <<kind, sourceVars, claimVars>>
    PROVE  Story(s)' /\ Tells(s)'
<1>1. \A j \in Key : /\ runStatus[j] = "none" <=> runStatus'[j] = "none"
                     /\ runStatus'[j] = "running" => runStatus[j] = "running"
  BY DEF IInv, TypeOK, RecoverRun
<1>2. dispatchState[k] \in {"not_started", "started"}
  BY DEF IInv, KeyOK, RecoverRun, Live
<1>3. \A j \in Key : \/ dispatchState'[j] = dispatchState[j]
                     \/ dispatchState[j] = "started" /\ dispatchState'[j] = "unknown"
  BY <1>2 DEF IInv, TypeOK, RecoverRun
<1> QED
  BY <1>1, <1>3, StoryKept DEF sourceVars, claimVars, Story

LEMMA StoryRecoverInterrupted ==
    ASSUME IInv, NEW s \in Sources, Story(s), Tells(s), NEW t \in Sources, RecoverInterrupted(t),
           UNCHANGED <<kind, runVars, claimVars>>
    PROVE  Story(s)' /\ Tells(s)'
<1>1. CASE s # t
  BY <1>1 DEF RecoverInterrupted, IInv, TypeOK, Story, Tells, Reminder, runVars, claimVars
<1>2. CASE s = t
  <2>1. /\ srcStatus[s] = "firing" /\ lastOutcome[s] = "claimed"
        /\ <<s, lastRun[s]>> \in Key /\ lastRun[s] = fireCount[s] /\ lastRun[s] # 0
        /\ Reminder(s) /\ Reminder(s)'
        /\ \A g \in Fires : g > fireCount[s] => runStatus[<<s, g>>] = "none"
    BY <1>2, NamedKey DEF RecoverInterrupted, Interrupted, Story, Reminder
  <2>2. /\ srcStatus'[s] = "done"
        /\ lastRun'[s] = IF runStatus[<<s, lastRun[s]>>] # "none" THEN lastRun[s] ELSE 0
        /\ lastOutcome'[s] = IF runStatus[<<s, lastRun[s]>>] = "none" THEN "interrupted"
                             ELSE IF dispatchState[<<s, lastRun[s]>>] \in {"started", "unknown"}
                                  THEN "unknown" ELSE "not_started"
        /\ runStatus' = runStatus /\ dispatchState' = dispatchState /\ fireCount' = fireCount
    BY <1>2, <2>1 DEF RecoverInterrupted, IInv, TypeOK, runVars, claimVars
  <2>3. runStatus[<<s, lastRun[s]>>] # "running"
    BY <1>2, <2>1 DEF RecoverInterrupted, Interrupted
  <2>4. CASE runStatus[<<s, lastRun[s]>>] = "none"
    BY <2>1, <2>2, <2>4 DEF Story, Tells
  <2>5. CASE runStatus[<<s, lastRun[s]>>] # "none"
    <3>1. lastRun'[s] = lastRun[s] /\ lastOutcome'[s] \in {"unknown", "not_started"}
      BY <2>2, <2>5
    <3>2. Story(s)'
      BY <2>1, <2>2, <2>3, <2>5, <3>1 DEF Story
    <3>3. Tells(s)'
      BY <2>1, <2>2, <2>5, <3>1 DEF Tells
    <3> QED
      BY <3>2, <3>3
  <2> QED
    BY <2>4, <2>5
<1> QED
  BY <1>1, <1>2

LEMMA StoryClaim ==
    ASSUME IInv, NEW s \in Sources, Story(s), Tells(s), NEW p \in Processes, Claim(p),
           UNCHANGED kind
    PROVE  Story(s)' /\ Tells(s)'
<1>1. PICK t \in Sources, g \in Fires : cur[p] = <<t, g>>
  BY DEF IInv, ProcOK, Claim, Goto, Key
<1>2. /\ MayClaim(t, g)
      /\ srcStatus' = [srcStatus EXCEPT ![t] = IF kind[t] = "periodic" THEN "active" ELSE "firing"]
      /\ fireCount' = [fireCount EXCEPT ![t] = g]
      /\ lastRun' = [lastRun EXCEPT ![t] = g]
      /\ lastOutcome' = [lastOutcome EXCEPT ![t] = "claimed"]
      /\ runStatus' = runStatus /\ dispatchState' = dispatchState
  BY <1>1 DEF Claim, runVars
<1>3. CASE s # t
  BY <1>2, <1>3 DEF IInv, TypeOK, Story, Tells, Reminder
<1>4. CASE s = t
  <2>1. fireCount[s] = g - 1 /\ srcStatus[s] = "active" /\ g \in Int /\ g > 0
    BY <1>2, <1>4, DeliveryAssumption DEF MayClaim, Fires
  <2>2. Reminder(s) /\ Reminder(s)'
    BY <2>1 DEF Story, Reminder
  <2>3. \A h \in Fires : h > g - 1 => runStatus[<<s, h>>] = "none"
    BY <2>1, <2>2 DEF Story
  <2>4. <<s, g>> \in Key /\ runStatus[<<s, g>>] = "none"
    BY <2>1, <2>3 DEF Key
  <2>5. dispatchState[<<s, g>>] = "not_started"
    BY <2>4 DEF IInv, KeyOK
  <2>6. fireCount'[s] = g /\ lastRun'[s] = g /\ lastOutcome'[s] = "claimed"
    BY <1>2, <1>4 DEF IInv, TypeOK
  <2>7. Story(s)'
    BY <1>2, <2>1, <2>2, <2>3, <2>6, DeliveryAssumption DEF Story, Fires
  <2>8. Tells(s)'
    BY <1>2, <2>5, <2>6 DEF Tells
  <2> QED
    BY <2>7, <2>8
<1> QED
  BY <1>3, <1>4

LEMMA StoryAdmit ==
    ASSUME IInv, NEW s \in Sources, Story(s), Tells(s), NEW p \in Processes, Admit(p),
           UNCHANGED <<kind, claimVars>>
    PROVE  Story(s)' /\ Tells(s)'
<1>1. PICK t \in Sources, g \in Fires : cur[p] = <<t, g>>
  BY DEF IInv, ProcOK, Admit, Goto, Key
<1>2. /\ Reminder(t) => lastRun[t] = g
      /\ runStatus[<<t, g>>] = "none"
      /\ runStatus' = [runStatus EXCEPT ![<<t, g>>] = "running"]
      /\ UNCHANGED <<dispatchState, srcStatus, lastRun, lastOutcome, fireCount>>
  BY <1>1 DEF Admit, MayAdmit, Matches, SourceOf, sourceVars, claimVars
<1>3. Tells(s)'
  BY <1>2 DEF Tells
<1>4. \A h \in Fires : <<s, h>> # <<t, g>> => runStatus'[<<s, h>>] = runStatus[<<s, h>>]
  BY <1>2 DEF IInv, TypeOK, Key
<1>5. CASE ~Reminder(s)
  BY <1>2, <1>3, <1>5 DEF Story, Reminder
<1>6. CASE s # t
  <2>1. \A h \in Fires : runStatus'[<<s, h>>] = runStatus[<<s, h>>]
    BY <1>4, <1>6
  <2>2. lastOutcome[s] \notin {"none", "interrupted"} => lastRun[s] \in Fires
    BY NamedKey DEF Key
  <2> QED
    BY <1>2, <1>3, <2>1, <2>2 DEF Story, Reminder
<1>7. CASE s = t /\ Reminder(s)
  <2>1. lastRun[s] = g /\ g # 0 /\ g \in Int
    BY <1>2, <1>7, DeliveryAssumption DEF Fires
  <2>2. lastOutcome[s] \notin {"none", "interrupted"} /\ fireCount[s] = g
    BY <2>1 DEF Story
  <2>3. lastOutcome[s] \notin {"not_started", "unknown", "returned"}
    BY <1>2, <1>7, <2>1 DEF Story
  <2>4. \A h \in Fires : h > g => runStatus'[<<s, h>>] = "none"
    BY <1>4, <1>7, <2>2 DEF Story, Fires
  <2> QED
    BY <1>2, <1>3, <1>7, <2>1, <2>2, <2>3, <2>4 DEF Story, Reminder
<1> QED
  BY <1>5, <1>6, <1>7

LEMMA StoryStartDispatch ==
    ASSUME IInv, NEW s \in Sources, Story(s), Tells(s), NEW p \in Processes, StartDispatch(p),
           UNCHANGED <<kind, claimVars>>
    PROVE  Story(s)' /\ Tells(s)'
<1>1. PICK k \in Key : k = cur[p]
  BY DEF IInv, ProcOK, StartDispatch, Goto, Delivering, InTry
<1>2. /\ runStatus[k] = "running"
      /\ dispatchState' = [dispatchState EXCEPT ![k] = "started"]
      /\ UNCHANGED <<runStatus, srcStatus, lastRun, lastOutcome, fireCount>>
  BY <1>1 DEF StartDispatch, MayStart, Valid, sourceVars, claimVars
<1>3. Story(s)'
  BY <1>2 DEF Story, Reminder
<1>4. CASE lastOutcome[s] \in {"none", "interrupted"}
  BY <1>2, <1>3, <1>4 DEF Tells
<1>5. CASE lastOutcome[s] \notin {"none", "interrupted"}
  <2>1. <<s, lastRun[s]>> \in Key
    BY <1>5, NamedKey
  <2>2. lastOutcome[s] # "claimed" => <<s, lastRun[s]>> # k
    BY <1>2, <1>5 DEF IInv, TypeOK, Story
  <2> QED
    BY <1>2, <1>3, <1>5, <2>1, <2>2 DEF IInv, TypeOK, Tells
<1> QED
  BY <1>4, <1>5

LEMMA StoryFinish ==
    ASSUME IInv, NEW s \in Sources, Story(s), Tells(s), NEW p \in Processes, Finish(p),
           UNCHANGED <<kind, claimVars>>
    PROVE  Story(s)' /\ Tells(s)'
<1>1. PICK t \in Sources, g \in Fires : cur[p] = <<t, g>>
  BY DEF IInv, ProcOK, Finish, Delivering, Key
<1> DEFINE k == <<t, g>>
<1>2. k \in Key
  BY DEF Key
<1>3. PICK e \in Endings : e = ending[p]
  BY DEF IInv, TypeOK
<1>4. /\ runStatus[k] # "none"
      /\ dispatchState[k] # "returned"
      /\ e.state \in {"not_started", "unknown", "returned"}
      /\ e.state # "not_started" => dispatchState[k] \in {"started", "unknown"}
  BY <1>1, <1>3 DEF IInv, ProcOK, Finish, Delivering, Endings
<1>5. /\ dispatchState' = [dispatchState EXCEPT ![k] = e.state]
      /\ FinishSource(t, g, e)
      /\ fireCount' = fireCount
  BY <1>1, <1>3 DEF Finish, claimVars
<1>6. /\ \A j \in Key : j # k => runStatus'[j] = runStatus[j]
      /\ runStatus'[k] \in Ended
  BY <1>1, <1>2, <1>4 DEF IInv, TypeOK, Finish, RunAfter, RunStatus, Live, Ended
<1>7. \A j \in Key : /\ runStatus[j] = "none" <=> runStatus'[j] = "none"
                     /\ runStatus'[j] = "running" => runStatus[j] = "running"
  BY <1>4, <1>6 DEF Ended
<1>8. \A h \in Fires : <<s, h>> \in Key
  BY DEF Key
<1>9. Reminder(s)' = Reminder(s)
  BY DEF Reminder
<1>10. CASE s # t \/ ~Reminder(s) \/ lastRun[s] # g
  <2>1. lastRun'[s] = lastRun[s] /\ lastOutcome'[s] = lastOutcome[s]
    BY <1>5, <1>10 DEF IInv, TypeOK, FinishSource, sourceVars
  <2>2. /\ srcStatus'[s] = "firing" => srcStatus[s] = "firing"
        /\ ~Reminder(s) => srcStatus'[s] \notin {"active", "firing"}
    BY <1>5, <1>10 DEF IInv, TypeOK, FinishSource, sourceVars, Story
  <2>3. Story(s)'
    BY <1>5, <1>7, <1>8, <1>9, <2>1, <2>2, NamedKey DEF Story
  <2>4. lastOutcome[s] \notin {"none", "interrupted"} =>
            dispatchState'[<<s, lastRun[s]>>] = dispatchState[<<s, lastRun[s]>>]
    BY <1>2, <1>5, <1>10, NamedKey DEF IInv, TypeOK, Story
  <2>5. Tells(s)'
    BY <2>1, <2>4 DEF Tells
  <2> QED
    BY <2>3, <2>5
<1>11. CASE s = t /\ Reminder(s) /\ lastRun[s] = g
  <2>1. /\ lastRun'[s] = g /\ lastOutcome'[s] = e.state
        /\ srcStatus'[s] # "firing"
    BY <1>5, <1>11 DEF IInv, TypeOK, FinishSource
  <2>2. g # 0 /\ lastOutcome[s] \notin {"none", "interrupted"} /\ fireCount[s] = g
    BY <1>11, DeliveryAssumption DEF Story, Fires
  <2>3. dispatchState'[k] = e.state
    BY <1>2, <1>5 DEF IInv, TypeOK
  <2>4. Story(s)'
    BY <1>4, <1>5, <1>6, <1>7, <1>8, <1>9, <1>11, <2>1, <2>2 DEF Story, Ended
  <2>5. Tells(s)'
    BY <1>4, <1>11, <2>1, <2>3 DEF Tells
  <2> QED
    BY <2>4, <2>5
<1> QED
  BY <1>10, <1>11

\* Every step keeps the stories.
LEMMA StoryStep ==
    ASSUME IInv, StoryInv, [Next]_vars
    PROVE  StoryInv'
<1> SUFFICES ASSUME NEW s \in Sources PROVE Story(s)' /\ Tells(s)'
  BY DEF StoryInv
<1>0. Story(s) /\ Tells(s) /\ kind' = kind
  BY DEF StoryInv, Next, vars
<1> USE <1>0
<1>1. ASSUME runStatus' = runStatus, dispatchState' = dispatchState, lastRun' = lastRun,
             lastOutcome' = lastOutcome, srcStatus' = srcStatus, fireCount' = fireCount
      PROVE  Story(s)' /\ Tells(s)'
  BY <1>1 DEF Story, Tells, Reminder
<1>2. ASSUME NEW p \in Processes, Sweep(p) \/ ClaimStep(p) PROVE Story(s)' /\ Tells(s)'
  BY <1>1, <1>2, StoryRecoverRun, StoryRecoverInterrupted, StoryClaim
     DEF Sweep, ClaimStep, SweepRun, EndSweepRuns, SweepTask, EndSweepTasks, SelectDue,
         NothingDue, LoseClaim, runVars, sourceVars, claimVars
<1>3. ASSUME NEW p \in Processes, DeliverStep(p) PROVE Story(s)' /\ Tells(s)'
  BY <1>1, <1>3, StoryAdmit, StoryStartDispatch, StoryFinish
     DEF DeliverStep, Refuse, DenyDispatch, BeginCall, Transmit, CallReturns, CallFails,
         AcceptResult, runVars, sourceVars, claimVars
<1>4. ASSUME NEW k \in Key, CancelWork(k) \/ DeadlinePasses(k) PROVE Story(s)' /\ Tells(s)'
  <2>1. \A j \in Key : /\ runStatus[j] = "none" <=> runStatus'[j] = "none"
                       /\ runStatus'[j] = "running" => runStatus[j] = "running"
    BY <1>4 DEF IInv, TypeOK, CancelWork, DeadlinePasses, Live
  <2> QED
    BY <1>4, <2>1, StoryKept DEF CancelWork, DeadlinePasses, sourceVars, claimVars, Story
<1>5. ASSUME NEW t \in Sources, CancelCurrent(t), UserFrame, Open(t),
             NEW status \in {"done", "cancelled", "active"},
             srcStatus' = [srcStatus EXCEPT ![t] = status]
      PROVE  Story(s)' /\ Tells(s)'
  <2>1. \A j \in Key : /\ runStatus[j] = "none" <=> runStatus'[j] = "none"
                       /\ runStatus'[j] = "running" => runStatus[j] = "running"
    BY <1>5 DEF IInv, TypeOK, CancelCurrent, Live
  <2>2. /\ srcStatus'[s] = "firing" => srcStatus[s] = "firing"
        /\ ~Reminder(s) => srcStatus'[s] \notin {"active", "firing"}
    BY <1>5 DEF IInv, TypeOK, Open, Story
  <2> QED
    BY <1>5, <2>1, <2>2, StoryKept DEF UserFrame, claimVars
<1>6. ASSUME User \/ Time PROVE Story(s)' /\ Tells(s)'
  BY <1>1, <1>4, <1>5, <1>6 DEF User, Time, CloseTask, SnoozeTask, Deactivate, FallsDue,
     GraceLapses, runVars, sourceVars, claimVars
<1> QED
  BY <1>1, <1>2, <1>3, <1>6 DEF Next, vars, ProcessStep, CallReport, Stop, Kill, LateTransmit,
     runVars, sourceVars, claimVars

\* What a reminder says of its last delivery is what the run it names says, for
\* every order of claims, sweeps, snoozes and late results.
THEOREM StoriesAlwaysAgree == Spec => []StoriesAgree
<1>1. Init => StoryInv
  BY DEF Init, StoryInv, Story, Tells, Reminder, Key
<1>2. IInv /\ StoryInv /\ [Next]_vars => StoryInv'
  BY StoryStep
<1>3. IInv /\ StoryInv => StoriesAgree
  <2> SUFFICES ASSUME IInv, StoryInv, NEW s \in Sources
               PROVE  LET states == CASE lastOutcome[s] = "claimed" -> {"not_started", "started", "unknown"}
                                      [] lastOutcome[s] = "unknown" -> {"started", "unknown"}
                                      [] OTHER -> {lastOutcome[s]}
                      IN
                      /\ lastOutcome[s] \notin {"none", "interrupted"} =>
                             lastRun[s] # 0 /\ dispatchState[<<s, lastRun[s]>>] \in states
                      /\ lastOutcome[s] = "interrupted" => runStatus[<<s, fireCount[s]>>] = "none"
    BY DEF StoriesAgree
  <2>1. Story(s) /\ Tells(s) /\ lastOutcome[s] \in {"none", "claimed", "interrupted",
                                                    "not_started", "unknown", "returned"}
    BY DEF StoryInv, IInv, TypeOK
  <2>2. lastOutcome[s] = "interrupted" => fireCount[s] \in Fires /\ Reminder(s)
    BY <2>1, DeliveryAssumption DEF Story, IInv, TypeOK, Fires
  <2>3. lastOutcome[s] \notin {"none", "interrupted"} => lastRun[s] # 0
    BY <2>1 DEF Story
  <2> QED
    BY <2>1, <2>2, <2>3 DEF Story, Tells
<1> QED
  BY <1>1, <1>2, <1>3, SpecInv, PTL DEF Spec

-----------------------------------------------------------------------------
(* deliver_once implements OnceOnly.                                       *)

\* What the outcome says, from the state of the run.
ToldFacts ==
    \A k \in Key :
        (TypeOK /\ KeyOK(k)) =>
            /\ Told(k) \in {"open", "maybe", "yes", "no"}
            /\ runStatus[k] \in {"none"} \cup Live => Told(k) = "open"
            /\ Told(k) = "yes" => sent[k] = 1
            /\ Told(k) = "no" => Unsent(k) /\ dispatchState[k] \in {"not_started", "returned"}
            /\ runStatus[k] \in Ended /\ dispatchState[k] = "unknown" => Told(k) = "maybe"
            /\ runStatus[k] \in {"failed", "cancelled"} /\ dispatchState[k] = "started"
                   => Told(k) = "maybe"
            /\ runStatus[k] \in Ended /\ dispatchState[k] = "not_started" => Told(k) = "no"
            /\ runStatus[k] \in Ended /\ dispatchState[k] = "returned"
                   => Told(k) = IF reported[k] THEN "yes" ELSE "no"

LEMMA ToldFactsHold == ToldFacts
<1> SUFFICES ASSUME NEW k \in Key, TypeOK, KeyOK(k)
             PROVE  /\ Told(k) \in {"open", "maybe", "yes", "no"}
                    /\ runStatus[k] \in {"none"} \cup Live => Told(k) = "open"
                    /\ Told(k) = "yes" => sent[k] = 1
                    /\ Told(k) = "no" => Unsent(k) /\ dispatchState[k] \in {"not_started", "returned"}
                    /\ runStatus[k] \in Ended /\ dispatchState[k] = "unknown" => Told(k) = "maybe"
                    /\ runStatus[k] \in {"failed", "cancelled"} /\ dispatchState[k] = "started"
                           => Told(k) = "maybe"
                    /\ runStatus[k] \in Ended /\ dispatchState[k] = "not_started" => Told(k) = "no"
                    /\ runStatus[k] \in Ended /\ dispatchState[k] = "returned"
                           => Told(k) = IF reported[k] THEN "yes" ELSE "no"
  BY DEF ToldFacts
<1>1. /\ Outcome(k) = "unknown" => Told(k) = "maybe"
      /\ Outcome(k) = "returned" => Told(k) = "yes"
      /\ Outcome(k) \in {"not_delivered", "cancelled"} => Told(k) = "no"
      /\ Outcome(k) \in {"none", "running", "not_started"} => Told(k) = "open"
  BY DEF Told
<1>2. /\ dispatchState[k] \in {"not_started", "started", "unknown", "returned"}
      /\ runStatus[k] \in RunStatus
      /\ reported[k] \in BOOLEAN
  BY DEF TypeOK
<1>3. CASE dispatchState[k] = "not_started"
  BY <1>1, <1>2, <1>3 DEF KeyOK, Outcome, RunStatus, Live, Ended
<1>4. CASE dispatchState[k] = "started"
  BY <1>1, <1>2, <1>4 DEF KeyOK, Outcome, RunStatus, Live, Ended
<1>5. CASE dispatchState[k] = "unknown"
  BY <1>1, <1>2, <1>5 DEF KeyOK, Outcome, RunStatus, Live, Ended
<1>6. CASE dispatchState[k] = "returned"
  BY <1>1, <1>2, <1>6 DEF KeyOK, Outcome, RunStatus, Live, Ended, Unsent
<1> QED
  BY <1>2, <1>3, <1>4, <1>5, <1>6

\* A step that changes what is said of one occurrence, as Tell allows.
LEMMA TellStep ==
    ASSUME NEW k \in Key, TypeOK,
           UNCHANGED sent,
           \A j \in Key \ {k} : Told(j)' = Told(j),
           \/ Told(k)' = Told(k)
           \/ Told(k)' = "no" /\ Told(k) \in {"open", "maybe"} /\ sent[k] = 0
           \/ Told(k)' = "maybe" /\ Told(k) = "open"
           \/ Told(k)' = "yes" /\ Told(k) \in {"open", "maybe"} /\ sent[k] > 0
    PROVE  [Once!Next]_(Once!onceVars)
<1> DEFINE said == [j \in Key |-> Told(j)]
           out == {j \in Key : sent[j] > 0}
<1>1. out' = out
  OBVIOUS
<1>2. \A j \in Key : Told(j)' \in Once!Answers
  BY DEF Told, Once!Answers
<1>3. said' \in [Key -> Once!Answers]
  BY <1>2
<1>4. \A j \in Key : said'[j] # said[j] => Once!MayTell(j, said'[j])
  BY DEF Once!MayTell
<1>5. Once!Tell
  BY <1>1, <1>3, <1>4 DEF Once!Tell
<1> QED
  BY <1>5 DEF Once!Next

\* A step that sends an occurrence nobody was told anything final of.
LEMMA SendStep ==
    ASSUME NEW k \in Key, TypeOK,
           UNCHANGED runVars,
           sent' = [sent EXCEPT ![k] = @ + 1],
           sent[k] = 0,
           Told(k) \in {"open", "maybe"}
    PROVE  [Once!Next]_(Once!onceVars)
<1> DEFINE said == [j \in Key |-> Told(j)]
           out == {j \in Key : sent[j] > 0}
<1>1. said' = said
  BY DEF Told, Outcome, runVars
<1>2. out' = out \cup {k}
  BY DEF TypeOK
<1>3. Once!Send(k)
  BY <1>1, <1>2 DEF Once!Send
<1> QED
  BY <1>3 DEF Once!Next

\* A step that leaves runs and channels alone is a stutter.
LEMMA SilentStep ==
    ASSUME UNCHANGED <<runVars, sent>>
    PROVE  [Once!Next]_(Once!onceVars)
<1>1. [j \in Key |-> Told(j)]' = [j \in Key |-> Told(j)]
  BY DEF Told, Outcome, runVars
<1>2. {j \in Key : sent[j] > 0}' = {j \in Key : sent[j] > 0}
  OBVIOUS
<1> QED
  BY <1>1, <1>2 DEF Once!onceVars

\* Only the run of k changes, in its status only.
LEMMA StatusStep ==
    ASSUME IInv, IInv', NEW k \in Key, NEW to \in RunStatus,
           runStatus' = [runStatus EXCEPT ![k] = to],
           UNCHANGED <<dispatchState, reported, sent>>,
           \/ runStatus[k] = "none" /\ to = "running"
           \/ runStatus[k] \in Live /\ to \in {"overdue", "cancelled"}
    PROVE  [Once!Next]_(Once!onceVars)
<1>1. TypeOK /\ KeyOK(k) /\ TypeOK' /\ KeyOK(k)'
  BY DEF IInv
<1>2. ToldFacts /\ ToldFacts'
  BY ToldFactsHold, PTL
<1>3. \A j \in Key \ {k} : Told(j)' = Told(j)
  BY <1>1 DEF TypeOK, Told, Outcome
<1>4. Told(k) = "open"
  BY <1>1, <1>2 DEF ToldFacts, Live
<1>5. runStatus'[k] = to
  BY <1>1 DEF TypeOK
<1>6. CASE to \in Live
  <2>1. Told(k)' = "open"
    BY <1>1, <1>2, <1>5, <1>6 DEF ToldFacts
  <2> QED
    BY <1>1, <1>3, <1>4, <2>1, TellStep
<1>7. CASE to = "cancelled" /\ dispatchState[k] = "not_started"
  <2>1. Told(k)' = "no" /\ sent[k] = 0
    BY <1>1, <1>2, <1>5, <1>7 DEF ToldFacts, Ended, KeyOK, Unsent
  <2> QED
    BY <1>1, <1>3, <1>4, <2>1, TellStep
<1>8. CASE to = "cancelled" /\ dispatchState[k] = "started"
  <2>1. Told(k)' = "maybe"
    BY <1>1, <1>2, <1>5, <1>8 DEF ToldFacts, Ended
  <2> QED
    BY <1>1, <1>3, <1>4, <2>1, TellStep
<1> QED
  BY <1>1, <1>6, <1>7, <1>8 DEF KeyOK, Live

LEMMA RecoverRunStep ==
    ASSUME IInv, IInv', NEW k \in Key, RecoverRun(k), UNCHANGED sent
    PROVE  [Once!Next]_(Once!onceVars)
<1>1. TypeOK /\ KeyOK(k) /\ TypeOK' /\ KeyOK(k)'
  BY DEF IInv
<1>2. ToldFacts /\ ToldFacts'
  BY ToldFactsHold, PTL
<1>3. \A j \in Key \ {k} : Told(j)' = Told(j)
  BY <1>1 DEF TypeOK, Told, Outcome, RecoverRun
<1>4. Told(k) = "open"
  BY <1>1, <1>2 DEF ToldFacts, Live, RecoverRun
<1>5. /\ runStatus'[k] = "failed"
      /\ dispatchState'[k] = IF dispatchState[k] = "started" THEN "unknown" ELSE "not_started"
  BY <1>1 DEF TypeOK, RecoverRun
<1>6. CASE dispatchState[k] = "started"
  <2>1. Told(k)' = "maybe"
    BY <1>1, <1>2, <1>5, <1>6 DEF ToldFacts, Ended
  <2> QED
    BY <1>1, <1>3, <1>4, <2>1, TellStep
<1>7. CASE dispatchState[k] # "started"
  <2>1. Told(k)' = "no" /\ sent[k] = 0
    BY <1>1, <1>2, <1>5, <1>7 DEF ToldFacts, Ended, KeyOK, Unsent
  <2> QED
    BY <1>1, <1>3, <1>4, <2>1, TellStep
<1> QED
  BY <1>6, <1>7

LEMMA FinishStep ==
    ASSUME IInv, IInv', NEW p \in Processes, Finish(p)
    PROVE  [Once!Next]_(Once!onceVars)
<1>0. cur[p] \in Key /\ ProcOK(p) /\ pc[p] = "finish" /\ sent' = sent
  BY DEF IInv, ProcOK, Finish, Delivering, channelVars
<1>1. PICK k \in Key : k = cur[p]
  BY <1>0
<1>a. PICK e \in Endings : e = ending[p]
  BY DEF IInv, TypeOK
<1> USE <1>0, <1>a
<1>2. TypeOK /\ KeyOK(k) /\ TypeOK' /\ KeyOK(k)'
  BY DEF IInv
<1>3. ToldFacts /\ ToldFacts'
  BY ToldFactsHold, PTL
<1>4. /\ EndingOK(e, k)
      /\ dispatchState[k] # "returned"
      /\ e.state # "not_started" => dispatchState[k] \in {"started", "unknown"}
      /\ runStatus[k] # "none"
      /\ e.state \in {"not_started", "unknown", "returned"} /\ e.channels \in BOOLEAN
  BY <1>1, <1>2 DEF ProcOK, TypeOK, Endings, Delivering
<1>5. \A j \in Key \ {k} : Told(j)' = Told(j)
  BY <1>1, <1>2 DEF TypeOK, Told, Outcome, Finish
<1>6. dispatchState'[k] = e.state /\ reported'[k] = e.channels /\ runStatus'[k] \in Ended
  BY <1>1, <1>2, <1>4 DEF TypeOK, Finish, RunAfter, RunStatus, Live, Ended
<1>7. Told(k) \in {"open", "maybe", "no"}
  BY <1>1, <1>2, <1>3, <1>4 DEF ToldFacts, Told, Outcome
<1>8. CASE e.state = "unknown"
  <2>1. Told(k)' = "maybe" /\ Told(k) # "no"
    BY <1>1, <1>2, <1>3, <1>4, <1>6, <1>8 DEF ToldFacts
  <2> QED
    BY <1>1, <1>2, <1>5, <1>7, <2>1, TellStep
<1>9. CASE e.state = "not_started" \/ (e.state = "returned" /\ ~e.channels)
  <2>1. Told(k)' = "no" /\ sent[k] = 0
    BY <1>1, <1>2, <1>3, <1>4, <1>6, <1>9 DEF ToldFacts, EndingOK, Unsent
  <2> QED
    BY <1>1, <1>2, <1>5, <1>7, <2>1, TellStep
<1>10. CASE e.state = "returned" /\ e.channels
  <2>1. Told(k)' = "yes" /\ sent[k] = 1 /\ Told(k) # "no"
    BY <1>1, <1>2, <1>3, <1>4, <1>6, <1>10 DEF ToldFacts, EndingOK, Unsent
  <2> QED
    BY <1>1, <1>2, <1>5, <1>7, <2>1, TellStep
<1> QED
  BY <1>4, <1>8, <1>9, <1>10

LEMMA CancelCurrentStep ==
    ASSUME IInv, IInv', NEW s \in Sources, CancelCurrent(s), UserFrame
    PROVE  [Once!Next]_(Once!onceVars)
<1> DEFINE k == <<s, lastRun[s]>>
<1>1. CASE lastRun[s] # 0 /\ runStatus[k] \in Live
  <2>1. k \in Key
    BY <1>1, DeliveryAssumption DEF IInv, TypeOK, Key, Fires
  <2>2. runStatus' = [runStatus EXCEPT ![k] = "cancelled"] /\ "cancelled" \in RunStatus
    BY <1>1 DEF CancelCurrent, RunStatus, Ended
  <2> QED
    BY <1>1, <2>1, <2>2, StatusStep DEF UserFrame, channelVars
<1>2. CASE ~(lastRun[s] # 0 /\ runStatus[k] \in Live)
  BY <1>2, SilentStep DEF CancelCurrent, UserFrame, runVars, channelVars
<1> QED
  BY <1>1, <1>2

LEMMA OnceStep ==
    ASSUME IInv, IInv', [Next]_vars
    PROVE  [Once!Next]_(Once!onceVars)
<1> USE DEF channelVars
<1>1. ASSUME NEW p \in Processes, Sweep(p) \/ ClaimStep(p) \/ CallReport(p) \/ Stop(p) \/ Kill(p)
      PROVE  [Once!Next]_(Once!onceVars)
  <2>1. CASE SweepRun(p)
    BY <2>1, RecoverRunStep DEF SweepRun
  <2> QED
    BY <1>1, <2>1, SilentStep DEF Sweep, ClaimStep, EndSweepRuns, SweepTask, EndSweepTasks,
       SelectDue, NothingDue, Claim, LoseClaim, CallReport, Stop, Kill, runVars
<1>2. ASSUME NEW p \in Processes, DeliverStep(p)
      PROVE  [Once!Next]_(Once!onceVars)
  <2>1. CASE Admit(p)
    <3>1. cur[p] \in Key /\ runStatus[cur[p]] = "none" /\ "running" \in RunStatus
      BY <2>1 DEF IInv, ProcOK, Admit, MayAdmit, Goto, RunStatus, Live
    <3> QED
      BY <2>1, <3>1, StatusStep DEF Admit
  <2>2. CASE StartDispatch(p)
    <3>0. cur[p] \in Key
      BY <2>2 DEF IInv, ProcOK, StartDispatch, Goto, Delivering, InTry
    <3>a. PICK k \in Key : k = cur[p]
      BY <3>0
    <3>1. runStatus[k] = "running" /\ sent' = sent /\ runStatus' = runStatus
          /\ reported' = reported /\ dispatchState' = [dispatchState EXCEPT ![k] = "started"]
      BY <2>2, <3>a DEF StartDispatch, MayStart, Valid
    <3>b. ToldFacts /\ ToldFacts'
      BY ToldFactsHold, PTL
    <3>2. TypeOK /\ KeyOK(k) /\ TypeOK' /\ KeyOK(k)'
      BY DEF IInv
    <3>3. Told(k) = "open" /\ Told(k)' = "open"
      BY <3>1, <3>2, <3>b DEF ToldFacts, Live
    <3>4. \A j \in Key \ {k} : Told(j)' = Told(j)
      BY <3>1, <3>2 DEF TypeOK, Told, Outcome
    <3> QED
      BY <3>1, <3>2, <3>3, <3>4, TellStep
  <2>3. CASE Transmit(p)
    <3>1. cur[p] \in Key /\ sent[cur[p]] = 0 /\ dispatchState[cur[p]] \in {"started", "unknown"}
      BY <2>3 DEF IInv, ProcOK, Transmit, Goto, Delivering, InTry, Started, Unsent
    <3>2. Told(cur[p]) \in {"open", "maybe"}
      BY <3>1, ToldFactsHold DEF IInv, ToldFacts
    <3> QED
      BY <2>3, <3>1, <3>2, SendStep DEF IInv, Transmit
  <2>4. CASE Finish(p)
    BY <2>4, FinishStep
  <2> QED
    BY <1>2, <2>1, <2>2, <2>3, <2>4, SilentStep DEF DeliverStep, Refuse, DenyDispatch, BeginCall,
       CallReturns, CallFails, AcceptResult
<1>3. ASSUME NEW k \in Key, LateTransmit(k) PROVE [Once!Next]_(Once!onceVars)
  <2>1. sent[k] = 0 /\ Told(k) \in {"open", "maybe"}
    BY <1>3, ToldFactsHold DEF IInv, KeyOK, Unsent, ToldFacts, LateTransmit
  <2> QED
    BY <1>3, <2>1, SendStep DEF IInv, LateTransmit
<1>4. ASSUME User PROVE [Once!Next]_(Once!onceVars)
  <2>1. ASSUME NEW k \in Key, CancelWork(k) PROVE [Once!Next]_(Once!onceVars)
    BY <2>1, StatusStep DEF CancelWork, RunStatus, Ended
  <2>2. CASE Deactivate
    BY <2>2, SilentStep DEF Deactivate
  <2> QED
    BY <1>4, <2>1, <2>2, CancelCurrentStep DEF User, CloseTask, SnoozeTask
<1>5. ASSUME Time PROVE [Once!Next]_(Once!onceVars)
  <2>1. ASSUME NEW k \in Key, DeadlinePasses(k) PROVE [Once!Next]_(Once!onceVars)
    BY <2>1, StatusStep DEF DeadlinePasses, RunStatus, Live
  <2> QED
    BY <1>5, <2>1, SilentStep DEF Time, FallsDue, GraceLapses
<1>6. CASE UNCHANGED vars
  BY <1>6, SilentStep DEF vars
<1> QED
  BY <1>1, <1>2, <1>3, <1>4, <1>5, <1>6 DEF Next, ProcessStep

\* Delivery over every interleaving of callers, sweeps, users, crashes and late
\* operations keeps the promise of OnceOnly.
THEOREM ImplementsOnceOnly == Spec => OnceOnlySpec
<1>1. Init => Once!Init
  <2> SUFFICES ASSUME Init PROVE Once!Init
    OBVIOUS
  <2>1. \A k \in Key : sent[k] = 0 /\ Told(k) = "open"
    BY DEF Init, Told, Outcome
  <2> QED
    BY <2>1 DEF Once!Init
<1>2. IInv /\ IInv' /\ [Next]_vars => [Once!Next]_(Once!onceVars)
  BY OnceStep
<1> QED
  BY <1>1, <1>2, SpecInv, PTL DEF Spec, OnceOnlySpec, Once!Spec
=============================================================================
