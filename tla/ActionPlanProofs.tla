--------------------------- MODULE ActionPlanProofs ---------------------------
(***************************************************************************)
(* For any number of steps, executors and callers of undo: what the user   *)
(* is told of a step is true, a completed plan is whole, no tool is called *)
(* twice or out of order, a stop is obeyed, an ended plan stays as it is,  *)
(* and what is undone was done, the last of it first.                      *)
(***************************************************************************)
EXTENDS ActionPlan, TLAPS, FiniteSetTheorems, WellFoundedInduction

PlanStatus == Active \cup Ended \cup {"absent"}
StepValue == StepStatus \cup {"none"}
Place == {"idle", "claim", "run", "tool", "finish", "check", "ask", "complete", "cancel_rest",
          "unknown", "fail_rest", "dead"}

\* TypeOK, its sets of strings by name.
Typed ==
    /\ status \in [Plans -> PlanStatus]
    /\ stop \in [Plans -> BOOLEAN]
    /\ step \in [Plans -> [Positions -> StepValue]]
    /\ begun \in [Plans -> SUBSET Positions]
    /\ refused \in [Plans -> SUBSET Positions]
    /\ undoes \in [Positions -> 0..N]
    /\ linked \in BOOLEAN
    /\ overdue \in SUBSET Plans
    /\ pc \in [Executors -> Place]
    /\ on \in [Executors -> Plans]
    /\ at \in [Executors -> 0..N]
    /\ count \in [Executors -> Nat]
    /\ outcome \in [Executors -> Outcomes]
    /\ upc \in [Undoers -> {"idle", "find", "insert", "link"}]
    /\ calls \in [Plans -> [Positions -> Nat]]
    /\ world \in [Plans -> [Positions -> {"none", "may", "done"}]]

Inside(e) == pc[e] \notin {"idle", "dead"}
Holding(e) == pc[e] \in {"run", "tool", "finish", "unknown"}
Walking(e) == pc[e] \in {"claim", "run", "tool", "finish", "check", "ask"}

\* A plan in execution has one executor at most.
Exclusive ==
    /\ \A e \in Executors : Inside(e) => status[on[e]] = "executing"
    /\ \A e, f \in Executors : Inside(e) /\ Inside(f) /\ on[e] = on[f] => e = f

\* What the status of a plan says of its steps.
RowOK(p, i) ==
    /\ status[p] = "absent" => step[p][i] = "none"
    /\ status[p] \in Ended => step[p][i] \notin Unstarted
    /\ status[p] \in {"ready", "executing"} => step[p][i] # "awaiting_confirmation"
    /\ status[p] \in Unstarted => step[p][i] \in Unstarted \cup {"none"}
    /\ status[p] = "completed" => step[p][i] \in {"completed", "none"}
    /\ p = "plan" => step[p][i] # "none"

\* What a step says of the call of its tool and of the effect.
EffectOK(p, i) ==
    /\ step[p][i] \in Unstarted \cup {"none"} => i \notin begun[p]
    /\ i \notin begun[p] => calls[p][i] = 0
    /\ calls[p][i] \in {0, 1}
    /\ calls[p][i] = 0 => world[p][i] = "none"
    /\ i \in refused[p] => calls[p][i] = 0 /\ step[p][i] = "failed"
    /\ step[p][i] = "completed" => world[p][i] = "done"

\* The step an executor is at.
HeldOK(e) ==
    Holding(e) =>
        /\ at[e] \in Positions
        /\ step[on[e]][at[e]] = "executing"
        /\ at[e] \in begun[on[e]]
        /\ pc[e] = "run" => calls[on[e]][at[e]] = 0
        /\ pc[e] = "finish" /\ outcome[e] = "ok" => world[on[e]][at[e]] = "done"
        /\ pc[e] = "finish" /\ outcome[e] = "refused" => calls[on[e]][at[e]] = 0

\* The other steps of its plan: nothing failed on the way here.
WalkOK(e) ==
    /\ Walking(e) => \A i \in Positions : \/ Holding(e) /\ i = at[e]
                                          \/ step[on[e]][i] \in {"ready", "completed", "none"}
                                          \/ step[on[e]][i] = "cancelled" /\ stop[on[e]]
    /\ pc[e] = "ask" => stop[on[e]] \/ Ready(on[e]) = {}
    /\ pc[e] = "complete" => \A i \in Positions : step[on[e]][i] \in {"completed", "none"}

InOrder(p) == \A i \in begun[p] : \A j \in 1..(i - 1) : step[p][j] = "completed"

\* An undo plan is only made of a plan that has ended.
UndoAfterEnd ==
    /\ status["plan"] # "absent"
    /\ status["undo"] # "absent" => status["plan"] \in Ended
    /\ \A u \in Undoers : upc[u] # "idle" => status["plan"] \in Ended

\* It compensates each completed step that can be, the last one first.
UndoStepOK(i) ==
    /\ undoes[i] = 0 <=> step["undo"][i] = "none"
    /\ undoes[i] # 0 => undoes[i] \in ToUndo
    /\ undoes[i] # 0 => \A j \in 1..(i - 1) : undoes[j] > undoes[i]
UndoCovers == status["undo"] # "absent" => \A k \in ToUndo : \E i \in Positions : undoes[i] = k

ExecutorOK(e) == HeldOK(e) /\ WalkOK(e)

UndoOK ==
    /\ UndoAfterEnd
    /\ \A i \in Positions : UndoStepOK(i)
    /\ UndoCovers

IInv ==
    /\ Typed
    /\ Exclusive
    /\ \A p \in Plans, i \in Positions : RowOK(p, i) /\ EffectOK(p, i)
    /\ \A e \in Executors : ExecutorOK(e)
    /\ \A p \in Plans : InOrder(p)
    /\ UndoOK

-----------------------------------------------------------------------------
(* The invariant holds initially.                                          *)

LEMMA InitInv == Init => IInv
<1> SUFFICES ASSUME Init PROVE IInv
  OBVIOUS
<1> USE PlanAssumption DEF Init, Positions, Plans, NewSteps, NewStatus
<1>1. Typed
  <2>1. NewSteps([i \in Positions |-> i], NeedsConfirm) \in [Positions -> StepValue]
    BY DEF StepValue, StepStatus, Active, Unstarted
  <2>2. NewStatus(NewSteps([i \in Positions |-> i], NeedsConfirm)) \in PlanStatus
    BY DEF PlanStatus, Active, Unstarted
  <2>3. "none" \in StepValue /\ "absent" \in PlanStatus /\ "idle" \in Place /\ "ok" \in Outcomes
    BY DEF StepValue, PlanStatus, Place, Outcomes
  <2> HIDE DEF NewSteps, NewStatus
  <2>4. status \in [Plans -> PlanStatus]
    BY <2>2, <2>3
  <2>5. step \in [Plans -> [Positions -> StepValue]]
    BY <2>1, <2>3
  <2>6. pc \in [Executors -> Place] /\ on \in [Executors -> Plans] /\ outcome \in [Executors -> Outcomes]
    BY <2>3
  <2>7. at \in [Executors -> 0..N] /\ count \in [Executors -> Nat] /\ undoes \in [Positions -> 0..N]
    OBVIOUS
  <2> QED
    BY <2>4, <2>5, <2>6, <2>7 DEF Typed
<1>2. Exclusive
  BY DEF Exclusive, Inside
<1>3. ASSUME NEW p \in Plans, NEW i \in Positions PROVE RowOK(p, i) /\ EffectOK(p, i)
  BY DEF RowOK, EffectOK, Unstarted, Ended
<1>4. ASSUME NEW e \in Executors PROVE ExecutorOK(e)
  BY DEF ExecutorOK, HeldOK, WalkOK, Holding, Walking
<1>5. \A p \in Plans : InOrder(p)
  BY DEF InOrder
<1>6. UndoOK
  BY DEF UndoOK, UndoAfterEnd, UndoStepOK, UndoCovers
<1> QED
  BY <1>1, <1>2, <1>3, <1>4, <1>5, <1>6 DEF IInv

-----------------------------------------------------------------------------
(* What an assignment to a row does, point by point.                       *)

LEMMA Values ==
    /\ Plans = {"plan", "undo"}
    /\ {"awaiting_confirmation", "ready", "executing", "completed", "failed", "cancelled",
        "skipped", "unknown_outcome", "expired", "none"} \subseteq StepValue
    /\ {"awaiting_confirmation", "ready", "executing", "completed", "partially_completed",
        "failed", "cancelled", "expired", "absent"} \subseteq PlanStatus
    /\ \A o \in Outcomes : StepStatusOf(o) \in StepValue
BY DEF Plans, StepValue, StepStatus, PlanStatus, Active, Ended, Unstarted, Outcomes, StepStatusOf

LEMMA SweepEffect ==
    ASSUME Typed, NEW p \in Plans, NEW from, NEW new \in StepValue, Sweep(p, from, new)
    PROVE  /\ step' \in [Plans -> [Positions -> StepValue]]
           /\ \A q \in Plans, i \in Positions :
                 step'[q][i] = IF q = p /\ step[q][i] \in from THEN new ELSE step[q][i]
BY DEF Typed, Sweep

LEMMA StepEffect ==
    ASSUME Typed, NEW p \in Plans, NEW k \in Positions, NEW new \in StepValue,
           step' = [step EXCEPT ![p][k] = new]
    PROVE  /\ step' \in [Plans -> [Positions -> StepValue]]
           /\ \A q \in Plans, i \in Positions :
                 step'[q][i] = IF q = p /\ i = k THEN new ELSE step[q][i]
BY DEF Typed

LEMMA StatusEffect ==
    ASSUME Typed, NEW p \in Plans, NEW new \in PlanStatus, SetStatus(p, new)
    PROVE  /\ status' \in [Plans -> PlanStatus]
           /\ \A q \in Plans : status'[q] = IF q = p THEN new ELSE status[q]
BY DEF Typed, SetStatus

-----------------------------------------------------------------------------
(* What keeps the order of the steps, and the undo plan in line with its    *)
(* plan.                                                                   *)

LEMMA OrderKept ==
    ASSUME IInv, begun' = begun,
           \A q \in Plans, i \in Positions :
               step[q][i] = "completed" => step'[q][i] = "completed"
    PROVE  \A q \in Plans : InOrder(q)'
<1> SUFFICES ASSUME NEW q \in Plans, NEW i \in begun[q], NEW j \in 1..(i - 1)
             PROVE  step'[q][j] = "completed"
  BY DEF InOrder
<1>1. j \in Positions
  BY PlanAssumption DEF IInv, Typed, Positions
<1> QED
  BY <1>1 DEF IInv, InOrder

\* The steps of a plan are its first positions.
LEMMA Whole ==
    ASSUME IInv, NEW q \in Plans, NEW i \in Positions, NEW j \in 1..(i - 1), step[q][i] # "none"
    PROVE  step[q][j] # "none"
<1>1. j \in Positions
  BY PlanAssumption DEF Positions
<1>2. CASE q = "plan"
  BY <1>1, <1>2 DEF IInv, RowOK, Plans
<1>3. CASE q = "undo"
  BY <1>1, <1>3, PlanAssumption DEF IInv, UndoOK, UndoStepOK, Typed
<1> QED
  BY <1>2, <1>3 DEF Plans

LEMMA UndoKept ==
    ASSUME IInv, undoes' = undoes, upc' = upc,
           status'["plan"] # "absent",
           status'["undo"] = "absent" <=> status["undo"] = "absent",
           status["plan"] \in Ended => /\ status'["plan"] \in Ended
                                      /\ \A i \in Positions : step'["plan"][i] = step["plan"][i],
           \A i \in Positions : step'["undo"][i] = "none" <=> step["undo"][i] = "none"
    PROVE  UndoOK'
<1> USE PlanAssumption DEF IInv, UndoOK
<1>1. UndoAfterEnd'
  BY DEF UndoAfterEnd
<1>2. status["undo"] # "absent" => ToUndo' = ToUndo
  BY DEF UndoAfterEnd, ToUndo
<1>3. ASSUME NEW i \in Positions PROVE UndoStepOK(i)'
  <2>1. undoes[i] # 0 => status["undo"] # "absent"
    BY Values DEF UndoStepOK, RowOK
  <2> QED
    BY <1>2, <2>1 DEF UndoStepOK
<1>4. UndoCovers'
  BY <1>2 DEF UndoCovers
<1> QED
  BY <1>1, <1>3, <1>4

-----------------------------------------------------------------------------
(* The places of an undo plan.                                             *)

LEMMA LeastNumber ==
    ASSUME NEW B \in SUBSET Nat, B # {}
    PROVE  \E d \in B : \A o \in B : d <= o
<1> DEFINE R == OpToRel(<, Nat)
<1>1. IsWellFoundedOn(R, Nat)
  BY NatLessThanWellFounded
<1>2. \A x, y \in Nat : <<y, x>> \in R <=> y < x
  BY DEF OpToRel
<1> HIDE DEF R
<1>3. \E x \in B : \A y \in B : ~(<<y, x>> \in R)
  BY <1>1, WFMin, Zenon
<1>4. PICK x \in B : \A y \in B : ~(<<y, x>> \in R)
  BY <1>3
<1>5. \A y \in B : ~(y < x)
  BY <1>2, <1>4, Zenon
<1> QED
  BY <1>5

LEMMA ToUndoFinite ==
    /\ IsFiniteSet(ToUndo) /\ ToUndo \subseteq 1..N /\ ToUndo \subseteq Nat
    /\ Cardinality(ToUndo) \in Nat /\ Cardinality(ToUndo) <= N
<1>1. IsFiniteSet(1..N) /\ Cardinality(1..N) = N
  BY PlanAssumption, FS_Interval
<1>2. ToUndo \in SUBSET (1..N)
  BY PlanAssumption DEF ToUndo, Positions
<1>3. IsFiniteSet(ToUndo) /\ Cardinality(ToUndo) <= N
  BY <1>1, <1>2, FS_Subset
<1>4. Cardinality(ToUndo) \in Nat
  BY <1>3, FS_CardinalityType
<1>5. \A k \in ToUndo : k \in 1..N /\ k \in Nat
  BY <1>2, PlanAssumption
<1> QED
  BY <1>3, <1>4, <1>5

LEMMA ToUndoNat == \A k \in ToUndo : k \in Nat /\ k # 0 /\ k \in 0..N
<1>1. \A k \in ToUndo : k \in 1..N
  BY ToUndoFinite
<1> QED
  BY <1>1, PlanAssumption

\* Step k of the plan and those after it that are undone.
Later(k) == {j \in ToUndo : j >= k}

LEMMA LaterFinite ==
    ASSUME NEW k
    PROVE  /\ IsFiniteSet(Later(k)) /\ Nth(k) = Cardinality(Later(k))
           /\ Nth(k) \in Nat /\ Nth(k) <= N
<1>1. Later(k) \in SUBSET ToUndo
  BY DEF Later
<1>2. IsFiniteSet(Later(k)) /\ Cardinality(Later(k)) <= Cardinality(ToUndo)
  BY <1>1, ToUndoFinite, FS_Subset
<1>3. Cardinality(Later(k)) \in Nat
  BY <1>2, FS_CardinalityType
<1> QED
  BY <1>2, <1>3, ToUndoFinite, PlanAssumption DEF Nth, Later

\* A later step has a smaller place.
LEMMA NthLess ==
    ASSUME NEW k \in ToUndo, NEW m \in ToUndo, k < m
    PROVE  Nth(m) < Nth(k)
<1>1. Later(m) \in SUBSET Later(k) /\ k \in Later(k) /\ k \notin Later(m)
  BY ToUndoNat DEF Later
<1>2. Cardinality(Later(m)) <= Cardinality(Later(k))
  BY <1>1, LaterFinite, FS_Subset
<1>3. Cardinality(Later(k)) # Cardinality(Later(m))
  BY <1>1, LaterFinite, FS_Subset
<1> QED
  BY <1>2, <1>3, LaterFinite

LEMMA NthPlace == ASSUME NEW k \in ToUndo PROVE Nth(k) \in Positions
<1>1. Later(k) # {}
  BY ToUndoFinite DEF Later
<1>2. Cardinality(Later(k)) # 0
  BY <1>1, LaterFinite, FS_EmptySet
<1> QED
  BY <1>2, LaterFinite, PlanAssumption DEF Positions

\* The place before the one of step k is the one of the next step.
LEMMA NthNext ==
    ASSUME NEW k \in ToUndo, Nth(k) # 1
    PROVE  \E m \in ToUndo : Nth(m) = Nth(k) - 1
<1> DEFINE B == {j \in ToUndo : j > k}
<1>1. B # {}
  <2> SUFFICES ASSUME B = {} PROVE FALSE
    OBVIOUS
  <2>1. \A j \in ToUndo : ~(j > k)
    OBVIOUS
  <2>2. Later(k) = {} \cup {k}
    BY <2>1, ToUndoNat DEF Later
  <2>3. Cardinality({} \cup {k}) = 1
    <3>1. IsFiniteSet({}) /\ Cardinality({}) = 0 /\ k \notin {}
      BY FS_EmptySet
    <3> QED
      BY <3>1, FS_AddElement
  <2> QED
    BY <2>2, <2>3, LaterFinite
<1>2. B \in SUBSET Nat
  BY ToUndoFinite
<1>3. PICK m \in B : \A o \in B : m <= o
  BY <1>1, <1>2, LeastNumber
<1>4. Later(k) = Later(m) \cup {k} /\ k \notin Later(m)
  <2>1. m \in ToUndo /\ k < m /\ \A j \in ToUndo : j > k => m <= j
    BY <1>3
  <2>2. \A j \in ToUndo : j >= k <=> j >= m \/ j = k
    BY <2>1, ToUndoNat
  <2> QED
    BY <2>1, <2>2, ToUndoNat DEF Later
<1>5. Cardinality(Later(k)) = Cardinality(Later(m)) + 1
  BY <1>4, LaterFinite, FS_AddElement
<1> QED
  BY <1>3, <1>5, LaterFinite

\* The places before a step are all taken.
LEMMA NthDown ==
    ASSUME NEW k \in ToUndo, NEW j \in 1..Nth(k)
    PROVE  \E m \in ToUndo : Nth(m) = j
<1> SUFFICES ASSUME ~ \E m \in ToUndo : Nth(m) = j PROVE FALSE
  OBVIOUS
<1> DEFINE B == {d \in Nat : d >= j /\ \E m \in ToUndo : Nth(m) = d}
<1>1. Nth(k) \in Nat /\ j \in Nat /\ j >= 1 /\ Nth(k) >= j
  BY LaterFinite
<1>2. Nth(k) \in B
  BY <1>1
<1>3. PICK d \in B : \A o \in B : d <= o
  BY <1>2, LeastNumber
<1>4. PICK m \in ToUndo : Nth(m) = d
  BY <1>3
<1>5. d > j
  BY <1>1, <1>3
<1>6. PICK n \in ToUndo : Nth(n) = d - 1
  BY <1>1, <1>4, <1>5, NthNext
<1>7. d - 1 \in B
  BY <1>1, <1>3, <1>5, <1>6
<1> QED
  BY <1>3, <1>7

\* The steps of the plan, each at its place in the undo plan.
PlaceOf ==
    [i \in Positions |->
        IF \E k \in ToUndo : Nth(k) = i THEN CHOOSE k \in ToUndo : Nth(k) = i ELSE 0]

LEMMA PlacesRight ==
    /\ PlaceOf \in [Positions -> 0..N]
    /\ \A i \in Positions : PlaceOf[i] # 0 => PlaceOf[i] \in ToUndo /\ Nth(PlaceOf[i]) = i
    /\ \A k \in ToUndo : \E i \in Positions : PlaceOf[i] = k
    /\ \A i \in Positions, j \in Positions :
           PlaceOf[i] # 0 /\ j < i => PlaceOf[j] > PlaceOf[i]
<1>1. \A i \in Positions : IF \E k \in ToUndo : Nth(k) = i
                           THEN PlaceOf[i] \in ToUndo /\ Nth(PlaceOf[i]) = i
                           ELSE PlaceOf[i] = 0
  BY DEF PlaceOf
<1>2. PlaceOf \in [Positions -> 0..N]
  <2>1. \A i \in Positions : PlaceOf[i] \in 0..N
    BY <1>1, ToUndoNat, PlanAssumption
  <2> QED
    BY <2>1 DEF PlaceOf
<1>3. ASSUME NEW k \in ToUndo PROVE \E i \in Positions : PlaceOf[i] = k
  <2>1. Nth(k) \in Positions
    BY NthPlace
  <2>2. PlaceOf[Nth(k)] \in ToUndo /\ Nth(PlaceOf[Nth(k)]) = Nth(k)
    BY <1>1, <2>1
  <2>3. k \in Nat /\ PlaceOf[Nth(k)] \in Nat /\ Nth(k) \in Nat
    BY <2>2, ToUndoFinite, LaterFinite
  <2>4. ~(k < PlaceOf[Nth(k)]) /\ ~(PlaceOf[Nth(k)] < k)
    BY <2>2, <2>3, NthLess
  <2> QED
    BY <2>1, <2>3, <2>4
<1>4. ASSUME NEW i \in Positions, NEW j \in Positions, PlaceOf[i] # 0, j < i
      PROVE  PlaceOf[j] > PlaceOf[i]
  <2>1. PlaceOf[i] \in ToUndo /\ Nth(PlaceOf[i]) = i
    BY <1>1, <1>4
  <2>2. j \in 1..Nth(PlaceOf[i])
    BY <1>4, <2>1, PlanAssumption DEF Positions
  <2>3. PlaceOf[j] \in ToUndo /\ Nth(PlaceOf[j]) = j
    BY <1>1, <2>1, <2>2, NthDown
  <2>4. PlaceOf[i] \in Nat /\ PlaceOf[j] \in Nat /\ i \in Nat /\ j \in Nat
    <3>1. i \in Nat /\ j \in Nat
      BY PlanAssumption DEF Positions
    <3> QED
      BY <2>1, <2>3, <3>1, ToUndoNat
  <2>5. PlaceOf[j] # PlaceOf[i]
    BY <1>4, <2>1, <2>3, <2>4
  <2>6. ~(PlaceOf[j] < PlaceOf[i])
    <3> SUFFICES ASSUME PlaceOf[j] < PlaceOf[i] PROVE FALSE
      OBVIOUS
    <3>1. Nth(PlaceOf[i]) < Nth(PlaceOf[j])
      BY <2>1, <2>3, NthLess
    <3> QED
      BY <1>4, <2>1, <2>3, <2>4, <3>1
  <2> QED
    BY <2>4, <2>5, <2>6
<1> QED
  BY <1>1, <1>2, <1>3, <1>4

-----------------------------------------------------------------------------
(* One lemma per action.                                                   *)

LEMMA ConfirmPlanInv ==
    ASSUME IInv, NEW p \in Plans, ConfirmPlan(p)
    PROVE  IInv'
<1> USE PlanAssumption DEF IInv
<1>0. PICK s \in {"expired", "ready"} :
        /\ status[p] = "awaiting_confirmation"
        /\ status' \in [Plans -> PlanStatus]
        /\ \A q \in Plans : status'[q] = IF q = p THEN s ELSE status[q]
        /\ step' \in [Plans -> [Positions -> StepValue]]
        /\ \A q \in Plans, i \in Positions :
              step'[q][i] = IF q = p /\ step[q][i] \in (IF s = "ready" THEN {"awaiting_confirmation"}
                                                      ELSE Unstarted)
                            THEN s ELSE step[q][i]
        /\ UNCHANGED <<stop, begun, refused, undoes, linked, overdue, executorVars, upc, worldVars>>
  <2>1. CASE p \in overdue
    <3>1. SetStatus(p, "expired") /\ Sweep(p, Unstarted, "expired")
      BY <2>1 DEF ConfirmPlan
    <3> QED
      BY <3>1, <2>1, Values, SweepEffect, StatusEffect DEF ConfirmPlan
  <2>2. CASE p \notin overdue
    <3>1. SetStatus(p, "ready") /\ Sweep(p, {"awaiting_confirmation"}, "ready")
      BY <2>2 DEF ConfirmPlan
    <3> QED
      BY <3>1, <2>2, Values, SweepEffect, StatusEffect DEF ConfirmPlan
  <2> QED
    BY <2>1, <2>2
<1> USE DEF executorVars, worldVars
<1>1. Typed'
  BY <1>0, Values DEF Typed, Place, Outcomes
<1>2. Exclusive'
  BY <1>0, Values DEF Typed, Exclusive, Inside, Unstarted
<1>3. ASSUME NEW q \in Plans, NEW i \in Positions PROVE RowOK(q, i)' /\ EffectOK(q, i)'
  BY <1>0, Values DEF RowOK, EffectOK, Unstarted, Ended
<1>4. ASSUME NEW f \in Executors PROVE ExecutorOK(f)'
  BY <1>0, Values DEF Typed, Exclusive, Inside, ExecutorOK, HeldOK, WalkOK, Holding, Walking, Ready
<1>5. ASSUME NEW q \in Plans PROVE InOrder(q)'
  BY <1>0, OrderKept DEF Unstarted
<1>6. UndoOK'
  BY <1>0, Values, UndoKept DEF RowOK, UndoOK, UndoAfterEnd, Ended, Unstarted
<1> QED
  BY <1>1, <1>2, <1>3, <1>4, <1>5, <1>6

LEMMA CancelPlanInv ==
    ASSUME IInv, NEW p \in Plans, CancelPlan(p)
    PROVE  IInv'
<1> USE PlanAssumption DEF IInv
<1>0. /\ status' \in [Plans -> PlanStatus] /\ stop' \in [Plans -> BOOLEAN]
      /\ step' \in [Plans -> [Positions -> StepValue]]
      /\ UNCHANGED <<begun, refused, undoes, linked, overdue, executorVars, upc, worldVars>>
      /\ \A q \in Plans : stop[q] => stop'[q]
      /\ \/ /\ status[p] = "executing" /\ UNCHANGED <<status, step>>
         \/ /\ status[p] \in Unstarted
            /\ \A q \in Plans : status'[q] = IF q = p THEN "cancelled" ELSE status[q]
            /\ \A q \in Plans, i \in Positions :
                  step'[q][i] = IF q = p /\ step[q][i] \in Unstarted THEN "cancelled" ELSE step[q][i]
  <2>1. CASE status[p] = "executing" /\ UNCHANGED <<status, step>> /\ stop' = [stop EXCEPT ![p] = TRUE]
    BY <2>1 DEF CancelPlan, Typed
  <2>2. CASE /\ status[p] \in Unstarted /\ SetStatus(p, "cancelled")
             /\ Sweep(p, Unstarted, "cancelled") /\ UNCHANGED stop
    BY <2>2, Values, SweepEffect, StatusEffect DEF CancelPlan, Typed
  <2> QED
    BY <2>1, <2>2 DEF CancelPlan
<1> USE DEF executorVars, worldVars
<1>1. Typed'
  BY <1>0, Values DEF Typed, Place, Outcomes
<1>2. Exclusive'
  BY <1>0, Values DEF Typed, Exclusive, Inside, Unstarted
<1>3. ASSUME NEW q \in Plans, NEW i \in Positions PROVE RowOK(q, i)' /\ EffectOK(q, i)'
  BY <1>0, Values DEF RowOK, EffectOK, Unstarted
<1>4. ASSUME NEW f \in Executors PROVE ExecutorOK(f)'
  BY <1>0, Values DEF Typed, Exclusive, Inside, ExecutorOK, HeldOK, WalkOK, Holding, Walking, Unstarted, Ready
<1>5. ASSUME NEW q \in Plans PROVE InOrder(q)'
  BY <1>0, OrderKept DEF Unstarted
<1>6. UndoOK'
  BY <1>0, Values, UndoKept DEF RowOK, UndoOK, UndoAfterEnd, Ended, Unstarted
<1> QED
  BY <1>1, <1>2, <1>3, <1>4, <1>5, <1>6

LEMMA RevokeInv ==
    ASSUME IInv, NEW p \in Plans, Revoke(p)
    PROVE  IInv'
<1> USE PlanAssumption DEF IInv
<1>0. /\ status' \in [Plans -> PlanStatus] /\ stop' \in [Plans -> BOOLEAN]
      /\ step' \in [Plans -> [Positions -> StepValue]]
      /\ UNCHANGED <<begun, refused, undoes, linked, overdue, executorVars, upc, worldVars>>
      /\ \A q \in Plans : stop'[q] = (q = p \/ stop[q])
      /\ \A q \in Plans :
            status'[q] = IF q = p /\ status[q] \in Unstarted THEN "cancelled" ELSE status[q]
      /\ \A q \in Plans, i \in Positions :
            step'[q][i] = IF q = p /\ step[q][i] \in Unstarted THEN "cancelled" ELSE step[q][i]
  <2>1. stop' = [stop EXCEPT ![p] = TRUE] /\ Sweep(p, Unstarted, "cancelled")
    BY DEF Revoke
  <2>2. (IF status[p] \in Unstarted THEN "cancelled" ELSE status[p]) \in PlanStatus
    BY Values DEF Typed
  <2>3. /\ status' \in [Plans -> PlanStatus]
        /\ \A q \in Plans : status'[q] = IF q = p THEN IF status[p] \in Unstarted THEN "cancelled" ELSE status[p]
                                         ELSE status[q]
    BY <2>2, StatusEffect DEF Revoke
  <2>4. /\ step' \in [Plans -> [Positions -> StepValue]]
        /\ \A q \in Plans, i \in Positions :
              step'[q][i] = IF q = p /\ step[q][i] \in Unstarted THEN "cancelled" ELSE step[q][i]
    BY <2>1, Values, SweepEffect
  <2>5. stop' \in [Plans -> BOOLEAN] /\ \A q \in Plans : stop'[q] = (q = p \/ stop[q])
    BY <2>1 DEF Typed
  <2> QED
    BY <2>3, <2>4, <2>5 DEF Revoke
<1> USE DEF executorVars, worldVars
<1>1. Typed'
  BY <1>0, Values DEF Typed, Place, Outcomes
<1>2. Exclusive'
  BY <1>0, Values DEF Typed, Exclusive, Inside, Unstarted
<1>3. ASSUME NEW q \in Plans, NEW i \in Positions PROVE RowOK(q, i)' /\ EffectOK(q, i)'
  BY <1>0, Values DEF RowOK, EffectOK, Unstarted
<1>4. ASSUME NEW f \in Executors PROVE ExecutorOK(f)'
  <2>1. on[f] \in Plans /\ at[f] \in 0..N /\ UNCHANGED <<pc, on, at, outcome, calls, world, begun>>
    BY <1>0 DEF Typed
  <2>2. HeldOK(f)'
    BY <1>0, <2>1 DEF ExecutorOK, HeldOK, Holding, Unstarted
  <2>3. WalkOK(f)'
    <3>1. WalkOK(f) /\ pc'[f] = pc[f] /\ on'[f] = on[f] /\ at'[f] = at[f]
      BY <2>1 DEF ExecutorOK
    <3>2. /\ \A q \in Plans : stop[q] => stop'[q]
          /\ \A q \in Plans, i \in Positions :
                step'[q][i] = step[q][i] \/ (step'[q][i] = "cancelled" /\ stop'[q] /\ step[q][i] \in Unstarted)
      BY <1>0
    <3>3. ASSUME Walking(f)', NEW i \in Positions
          PROVE  \/ Holding(f)' /\ i = at'[f]
                 \/ step'[on'[f]][i] \in {"ready", "completed", "none"}
                 \/ step'[on'[f]][i] = "cancelled" /\ stop'[on'[f]]
      BY <2>1, <3>1, <3>2, <3>3 DEF WalkOK, Walking, Holding
    <3>4. pc'[f] = "ask" => stop'[on'[f]] \/ Ready(on[f])' = {}
      BY <2>1, <3>1, <3>2 DEF WalkOK, Ready
    <3>5. pc'[f] = "complete" => \A i \in Positions : step'[on'[f]][i] \in {"completed", "none"}
      BY <2>1, <3>1, <3>2 DEF WalkOK, Unstarted
    <3> QED
      BY <3>1, <3>3, <3>4, <3>5 DEF WalkOK
  <2> QED
    BY <2>2, <2>3 DEF ExecutorOK
<1>5. ASSUME NEW q \in Plans PROVE InOrder(q)'
  BY <1>0, OrderKept DEF Unstarted
<1>6. UndoOK'
  BY <1>0, Values, UndoKept DEF RowOK, UndoOK, UndoAfterEnd, Ended, Unstarted
<1> QED
  BY <1>1, <1>2, <1>3, <1>4, <1>5, <1>6

LEMMA ExpireInv ==
    ASSUME IInv, NEW p \in Plans, Expire(p)
    PROVE  IInv'
<1> USE PlanAssumption DEF IInv, Expire, rowVars, executorVars, worldVars
<1>1. Typed'
  BY Values DEF Typed, Place, Outcomes
<1>2. Exclusive'
  BY DEF Typed, Exclusive, Inside, Unstarted
<1>3. ASSUME NEW q \in Plans, NEW i \in Positions PROVE RowOK(q, i)' /\ EffectOK(q, i)'
  BY DEF RowOK, EffectOK
<1>4. ASSUME NEW f \in Executors PROVE ExecutorOK(f)'
  BY DEF ExecutorOK, HeldOK, WalkOK, Holding, Walking, Ready
<1>5. ASSUME NEW q \in Plans PROVE InOrder(q)'
  BY DEF Typed, InOrder, Unstarted, ExecutorOK, HeldOK, Holding
<1>6. UndoOK'
  BY DEF UndoOK, UndoAfterEnd, UndoStepOK, UndoCovers, ToUndo
<1> QED
  BY <1>1, <1>2, <1>3, <1>4, <1>5, <1>6

LEMMA BeginExecutionInv ==
    ASSUME IInv, NEW e \in Executors, NEW p \in Plans, BeginExecution(e, p)
    PROVE  IInv'
<1> USE PlanAssumption DEF IInv, BeginExecution, Goto, SetStatus, worldVars
<1>1. Typed'
  BY Values DEF Typed, Place, Outcomes
<1>2. Exclusive'
  BY DEF Typed, Exclusive, Inside, Unstarted
<1>3. ASSUME NEW q \in Plans, NEW i \in Positions PROVE RowOK(q, i)' /\ EffectOK(q, i)'
  BY DEF RowOK, EffectOK, Unstarted, Ended
<1>4. ASSUME NEW f \in Executors PROVE ExecutorOK(f)'
  BY DEF Typed, RowOK, ExecutorOK, HeldOK, WalkOK, Holding, Walking, Unstarted, Ready
<1>5. ASSUME NEW q \in Plans PROVE InOrder(q)'
  BY DEF Typed, InOrder, Unstarted, ExecutorOK, HeldOK, Holding
<1>6. UndoOK'
  BY DEF UndoOK, UndoAfterEnd, UndoStepOK, UndoCovers, ToUndo, Ended
<1> QED
  BY <1>1, <1>2, <1>3, <1>4, <1>5, <1>6

LEMMA ClaimStepInv ==
    ASSUME IInv, NEW e \in Executors, ClaimStep(e)
    PROVE  IInv'
<1> USE PlanAssumption DEF IInv
<1>0. PICK k \in Positions :
        /\ pc[e] = "claim" /\ pc' = [pc EXCEPT ![e] = "run"]
        /\ status[on[e]] = "executing" /\ ~stop[on[e]]
        /\ step[on[e]][k] = "ready" /\ \A j \in Positions : step[on[e]][j] = "ready" => k <= j
        /\ step' \in [Plans -> [Positions -> StepValue]]
        /\ \A q \in Plans, i \in Positions :
              step'[q][i] = IF q = on[e] /\ i = k THEN "executing" ELSE step[q][i]
        /\ begun' = [begun EXCEPT ![on[e]] = @ \cup {k}]
        /\ at' = [at EXCEPT ![e] = k]
        /\ UNCHANGED <<status, stop, refused, undoes, linked, overdue, on, count, outcome, upc, worldVars>>
  <2>1. on[e] \in Plans /\ pc[e] = "claim" /\ pc' = [pc EXCEPT ![e] = "run"]
    BY DEF Typed, ClaimStep, Goto
  <2>2. PICK k \in Positions : /\ NextStep(on[e], k)
                               /\ step' = [step EXCEPT ![on[e]][k] = "executing"]
                               /\ begun' = [begun EXCEPT ![on[e]] = @ \cup {k}]
                               /\ at' = [at EXCEPT ![e] = k]
    BY DEF ClaimStep
  <2>3. /\ step' \in [Plans -> [Positions -> StepValue]]
        /\ \A q \in Plans, i \in Positions :
              step'[q][i] = IF q = on[e] /\ i = k THEN "executing" ELSE step[q][i]
    <3>1. "executing" \in StepValue /\ Typed
      BY Values
    <3>2. step' = [step EXCEPT ![on[e]][k] = "executing"]
      BY <2>2
    <3> QED
      BY <2>1, <3>1, <3>2, StepEffect
  <2>4. status[on[e]] = "executing" /\ ~stop[on[e]]
    BY DEF ClaimStep, MayClaim
  <2>5. step[on[e]][k] = "ready" /\ \A j \in Positions : step[on[e]][j] = "ready" => k <= j
    BY <2>2 DEF NextStep, Ready
  <2>6. UNCHANGED <<status, stop, refused, undoes, linked, overdue, on, count, outcome, upc, worldVars>>
    BY DEF ClaimStep
  <2> QED
    BY <2>1, <2>2, <2>3, <2>4, <2>5, <2>6
<1> USE DEF worldVars
<1>1. Typed'
  <2>1. begun' \in [Plans -> SUBSET Positions] /\ at' \in [Executors -> 0..N] /\ pc' \in [Executors -> Place]
    BY <1>0 DEF Typed, Place, Positions
  <2> QED
    BY <1>0, <2>1 DEF Typed
<1>2. Exclusive'
  BY <1>0, Values DEF Typed, Exclusive, Inside, Unstarted
<1>3. ASSUME NEW q \in Plans, NEW i \in Positions PROVE RowOK(q, i)' /\ EffectOK(q, i)'
  BY <1>0, Values DEF RowOK, EffectOK, Unstarted
<1>4. ASSUME NEW f \in Executors PROVE ExecutorOK(f)'
  <2>1. CASE f # e
    <3>1. UNCHANGED <<pc[f], on[f], at[f], outcome[f]>>
      BY <1>0, <2>1 DEF Typed
    <3>2. Inside(f) => on[f] # on[e]
      BY <1>0, <2>1 DEF Exclusive, Inside
    <3>3. ExecutorOK(f)
      OBVIOUS
    <3> QED
      BY <1>0, <3>1, <3>2, <3>3 DEF Typed, ExecutorOK, HeldOK, WalkOK, Holding, Walking, Inside, Ready
  <2>2. CASE f = e
    <3>1. HeldOK(e)'
      BY <1>0, Values DEF Typed, RowOK, EffectOK, ExecutorOK, HeldOK, Holding, Unstarted
    <3>2. WalkOK(e)'
      BY <1>0, Values DEF Typed, ExecutorOK, WalkOK, Walking, Holding
    <3> QED
      BY <2>2, <3>1, <3>2 DEF ExecutorOK
  <2> QED
    BY <2>1, <2>2
<1>5. ASSUME NEW q \in Plans PROVE InOrder(q)'
  <2> SUFFICES ASSUME NEW i \in begun'[q], NEW j \in 1..(i - 1) PROVE step'[q][j] = "completed"
    BY DEF InOrder
  <2>1. i \in begun[q] \/ (q = on[e] /\ i = k)
    BY <1>0 DEF Typed
  <2>2. i \in Positions /\ j \in Positions /\ j # i /\ j <= i
    <3>1. begun[q] \subseteq Positions
      BY DEF Typed
    <3>2. i \in 1..N
      BY <2>1, <3>1 DEF Positions
    <3> QED
      BY <3>2 DEF Positions
  <2>3. CASE i \in begun[q]
    BY <1>0, <2>2, <2>3 DEF InOrder
  <2>4. CASE q = on[e] /\ i = k
    <3>1. step[q][j] \in {"ready", "completed", "none"}
      BY <1>0, <2>2, <2>4 DEF ExecutorOK, WalkOK, Walking, Holding
    <3>2. step[q][j] # "ready"
      BY <1>0, <2>2, <2>4 DEF Positions
    <3>3. step[q][j] # "none"
      BY <1>0, <2>2, <2>4, Whole
    <3> QED
      BY <1>0, <2>2, <2>4, <3>1, <3>2, <3>3
  <2> QED
    BY <2>1, <2>3, <2>4
<1>6. UndoOK'
  BY <1>0, Values, UndoKept DEF Typed, RowOK, UndoOK, UndoAfterEnd, Ended
<1> QED
  BY <1>1, <1>2, <1>3, <1>4, <1>5, <1>6

LEMMA NothingToClaimInv ==
    ASSUME IInv, NEW e \in Executors, NothingToClaim(e)
    PROVE  IInv'
<1> USE PlanAssumption DEF IInv, NothingToClaim, Goto, MayClaim, rowVars, worldVars
<1>1. Typed'
  BY Values DEF Typed, Place, Outcomes
<1>2. Exclusive'
  BY DEF Typed, Exclusive, Inside, Unstarted
<1>3. ASSUME NEW q \in Plans, NEW i \in Positions PROVE RowOK(q, i)' /\ EffectOK(q, i)'
  BY DEF RowOK, EffectOK
<1>4. ASSUME NEW f \in Executors PROVE ExecutorOK(f)'
  BY DEF ExecutorOK, HeldOK, WalkOK, Holding, Walking, Ready
<1>5. ASSUME NEW q \in Plans PROVE InOrder(q)'
  BY DEF Typed, InOrder, Unstarted, ExecutorOK, HeldOK, Holding
<1>6. UndoOK'
  BY DEF UndoOK, UndoAfterEnd, UndoStepOK, UndoCovers, ToUndo
<1> QED
  BY <1>1, <1>2, <1>3, <1>4, <1>5, <1>6

LEMMA RefuseToolInv ==
    ASSUME IInv, NEW e \in Executors, RefuseTool(e)
    PROVE  IInv'
<1> USE PlanAssumption DEF IInv, RefuseTool, Record, rowVars, worldVars
<1>1. Typed'
  BY Values DEF Typed, Place, Outcomes
<1>2. Exclusive'
  BY DEF Typed, Exclusive, Inside, Unstarted
<1>3. ASSUME NEW q \in Plans, NEW i \in Positions PROVE RowOK(q, i)' /\ EffectOK(q, i)'
  BY DEF RowOK, EffectOK
<1>4. ASSUME NEW f \in Executors PROVE ExecutorOK(f)'
  BY DEF Typed, ExecutorOK, HeldOK, WalkOK, Holding, Walking, Ready
<1>5. ASSUME NEW q \in Plans PROVE InOrder(q)'
  BY DEF Typed, InOrder, Unstarted, ExecutorOK, HeldOK, Holding
<1>6. UndoOK'
  BY DEF UndoOK, UndoAfterEnd, UndoStepOK, UndoCovers, ToUndo
<1> QED
  BY <1>1, <1>2, <1>3, <1>4, <1>5, <1>6

LEMMA StartToolInv ==
    ASSUME IInv, NEW e \in Executors, StartTool(e)
    PROVE  IInv'
<1> USE PlanAssumption DEF IInv
<1>0. /\ pc[e] = "run" /\ pc' = [pc EXCEPT ![e] = "tool"] /\ on[e] \in Plans
      /\ at[e] \in Positions /\ at[e] \in begun[on[e]] /\ calls[on[e]][at[e]] = 0
      /\ step[on[e]][at[e]] = "executing"
      /\ calls' \in [Plans -> [Positions -> Nat]]
      /\ world' \in [Plans -> [Positions -> {"none", "may", "done"}]]
      /\ \A q \in Plans, i \in Positions :
            /\ calls'[q][i] = IF q = on[e] /\ i = at[e] THEN 1 ELSE calls[q][i]
            /\ world'[q][i] = IF q = on[e] /\ i = at[e] THEN "may" ELSE world[q][i]
      /\ UNCHANGED <<status, stop, step, begun, refused, undoes, linked, overdue, on, at, count, outcome, upc>>
  <2>1. /\ on[e] \in Plans /\ at[e] \in Positions /\ at[e] \in begun[on[e]]
        /\ calls[on[e]][at[e]] = 0 /\ step[on[e]][at[e]] = "executing"
    BY DEF Typed, ExecutorOK, HeldOK, Holding, StartTool, Goto
  <2> QED
    BY <2>1 DEF Typed, StartTool, Goto, rowVars
<1>1. Typed'
  <2>1. pc' \in [Executors -> Place]
    BY <1>0 DEF Typed, Place
  <2> QED
    BY <1>0, <2>1 DEF Typed
<1>2. Exclusive'
  BY <1>0, Values DEF Typed, Exclusive, Inside, Unstarted
<1>3. ASSUME NEW q \in Plans, NEW i \in Positions PROVE RowOK(q, i)' /\ EffectOK(q, i)'
  BY <1>0, Values DEF RowOK, EffectOK
<1>4. ASSUME NEW f \in Executors PROVE ExecutorOK(f)'
  <2>1. CASE f # e
    <3>1. UNCHANGED <<pc[f], on[f], at[f], outcome[f]>>
      BY <1>0, <2>1 DEF Typed
    <3>2. Inside(f) => on[f] # on[e]
      BY <1>0, <2>1 DEF Exclusive, Inside
    <3>3. ExecutorOK(f)
      OBVIOUS
    <3> QED
      BY <1>0, <3>1, <3>2, <3>3 DEF Typed, ExecutorOK, HeldOK, WalkOK, Holding, Walking, Inside, Ready
  <2>2. CASE f = e
    <3>1. HeldOK(e)'
      BY <1>0, Values DEF Typed, RowOK, EffectOK, ExecutorOK, HeldOK, Holding
    <3>2. WalkOK(e)'
      BY <1>0, Values DEF ExecutorOK, WalkOK, Walking, Holding
    <3> QED
      BY <2>2, <3>1, <3>2 DEF ExecutorOK
  <2> QED
    BY <2>1, <2>2
<1>5. ASSUME NEW q \in Plans PROVE InOrder(q)'
  BY <1>0, OrderKept
<1>6. UndoOK'
  BY <1>0, Values, UndoKept DEF Typed, UndoOK, UndoAfterEnd
<1> QED
  BY <1>1, <1>2, <1>3, <1>4, <1>5, <1>6

LEMMA EffectHappensInv ==
    ASSUME IInv, NEW p \in Plans, NEW k \in Positions, EffectHappens(p, k)
    PROVE  IInv'
<1> USE PlanAssumption DEF IInv, EffectHappens, rowVars, executorVars
<1>1. Typed'
  BY Values DEF Typed, Place, Outcomes
<1>2. Exclusive'
  BY DEF Typed, Exclusive, Inside, Unstarted
<1>3. ASSUME NEW q \in Plans, NEW i \in Positions PROVE RowOK(q, i)' /\ EffectOK(q, i)'
  BY DEF RowOK, EffectOK
<1>4. ASSUME NEW f \in Executors PROVE ExecutorOK(f)'
  BY DEF ExecutorOK, HeldOK, WalkOK, Holding, Walking, Ready
<1>5. ASSUME NEW q \in Plans PROVE InOrder(q)'
  BY DEF Typed, InOrder, Unstarted, ExecutorOK, HeldOK, Holding
<1>6. UndoOK'
  BY DEF UndoOK, UndoAfterEnd, UndoStepOK, UndoCovers, ToUndo
<1> QED
  BY <1>1, <1>2, <1>3, <1>4, <1>5, <1>6

LEMMA ToolReturnsInv ==
    ASSUME IInv, NEW e \in Executors, ToolReturns(e)
    PROVE  IInv'
<1> USE PlanAssumption DEF IInv, ToolReturns, Record, rowVars, worldVars
<1>1. Typed'
  BY Values DEF Typed, Place, Outcomes
<1>2. Exclusive'
  BY DEF Typed, Exclusive, Inside, Unstarted
<1>3. ASSUME NEW q \in Plans, NEW i \in Positions PROVE RowOK(q, i)' /\ EffectOK(q, i)'
  BY DEF RowOK, EffectOK
<1>4. ASSUME NEW f \in Executors PROVE ExecutorOK(f)'
  BY DEF Typed, ExecutorOK, HeldOK, WalkOK, Holding, Walking, Ready
<1>5. ASSUME NEW q \in Plans PROVE InOrder(q)'
  BY DEF Typed, InOrder, Unstarted, ExecutorOK, HeldOK, Holding
<1>6. UndoOK'
  BY DEF UndoOK, UndoAfterEnd, UndoStepOK, UndoCovers, ToUndo
<1> QED
  BY <1>1, <1>2, <1>3, <1>4, <1>5, <1>6

LEMMA FinishStepInv ==
    ASSUME IInv, NEW e \in Executors, FinishStep(e)
    PROVE  IInv'
<1> USE PlanAssumption DEF IInv
<1>0. /\ pc[e] = "finish" /\ pc' = [pc EXCEPT ![e] = AfterFinish(outcome[e])] /\ on[e] \in Plans
      /\ outcome[e] \in Outcomes /\ at[e] \in Positions /\ step[on[e]][at[e]] = "executing"
      /\ step' \in [Plans -> [Positions -> StepValue]]
      /\ \A q \in Plans, i \in Positions :
            step'[q][i] = IF q = on[e] /\ i = at[e] THEN StepStatusOf(outcome[e]) ELSE step[q][i]
      /\ refused' \in [Plans -> SUBSET Positions]
      /\ \A q \in Plans, i \in Positions :
            i \in refused'[q] <=> i \in refused[q] \/ (q = on[e] /\ i = at[e] /\ outcome[e] = "refused")
      /\ count' \in [Executors -> Nat]
      /\ at' = [at EXCEPT ![e] = 0] /\ outcome' = [outcome EXCEPT ![e] = "ok"]
      /\ UNCHANGED <<status, stop, begun, undoes, linked, overdue, on, upc, calls, world>>
  <2>1. /\ pc[e] = "finish" /\ pc' = [pc EXCEPT ![e] = AfterFinish(outcome[e])]
        /\ on[e] \in Plans /\ outcome[e] \in Outcomes
        /\ step[on[e]][at[e]] = "executing"
        /\ step' = [step EXCEPT ![on[e]][at[e]] = StepStatusOf(outcome[e])]
    BY DEF Typed, FinishStep, Goto
  <2>2. at[e] \in Positions
    BY <2>1 DEF ExecutorOK, HeldOK, Holding
  <2>3. /\ step' \in [Plans -> [Positions -> StepValue]]
        /\ \A q \in Plans, i \in Positions :
              step'[q][i] = IF q = on[e] /\ i = at[e] THEN StepStatusOf(outcome[e]) ELSE step[q][i]
    <3>1. StepStatusOf(outcome[e]) \in StepValue /\ Typed
      BY <2>1, Values
    <3> HIDE DEF IInv
    <3> QED
      BY <2>1, <2>2, <3>1, StepEffect
  <2>4. /\ refused' \in [Plans -> SUBSET Positions]
        /\ \A q \in Plans, i \in Positions :
              i \in refused'[q] <=> i \in refused[q] \/ (q = on[e] /\ i = at[e] /\ outcome[e] = "refused")
    BY <2>1, <2>2 DEF FinishStep, Typed
  <2>5. count' \in [Executors -> Nat]
    BY DEF FinishStep, Typed
  <2> QED
    BY <2>1, <2>2, <2>3, <2>4, <2>5 DEF FinishStep, worldVars
<1>1. Typed'
  <2>1. AfterFinish(outcome[e]) \in Place /\ "ok" \in Outcomes /\ 0 \in 0..N
    BY PlanAssumption DEF AfterFinish, Place, Outcomes
  <2> QED
    BY <1>0, <2>1 DEF Typed
<1>2. Exclusive'
  BY <1>0 DEF Typed, Exclusive, Inside, AfterFinish
<1>3. ASSUME NEW q \in Plans, NEW i \in Positions PROVE RowOK(q, i)' /\ EffectOK(q, i)'
  <2>1. RowOK(q, i) /\ EffectOK(q, i)
    OBVIOUS
  <2>2. CASE q = on[e] /\ i = at[e]
    <3>1. status[q] = "executing"
      BY <1>0, <2>2 DEF Exclusive, Inside
    <3>2. HeldOK(e)
      BY DEF ExecutorOK
    <3>3. step'[q][i] \in {"completed", "failed", "unknown_outcome"}
      BY <1>0, <2>2 DEF StepStatusOf, Outcomes
    <3>4. step'[q][i] = "completed" => outcome[e] = "ok"
      BY <1>0, <2>2 DEF StepStatusOf, Outcomes
    <3>5. outcome[e] = "refused" => step'[q][i] = "failed"
      BY <1>0, <2>2 DEF StepStatusOf
    <3>6. RowOK(q, i)'
      BY <1>0, <3>1, <3>3 DEF RowOK, Unstarted, Ended
    <3>7. EffectOK(q, i)'
      BY <1>0, <2>1, <2>2, <3>2, <3>3, <3>4, <3>5 DEF EffectOK, HeldOK, Holding, Unstarted
    <3> QED
      BY <3>6, <3>7
  <2>3. CASE ~(q = on[e] /\ i = at[e])
    <3>1. step'[q][i] = step[q][i] /\ (i \in refused'[q] <=> i \in refused[q])
      BY <1>0, <2>3
    <3> QED
      BY <1>0, <2>1, <3>1 DEF RowOK, EffectOK
  <2> QED
    BY <2>2, <2>3
<1>4. ASSUME NEW f \in Executors PROVE ExecutorOK(f)'
  <2>1. CASE f # e
    <3>1. UNCHANGED <<pc[f], on[f], at[f], outcome[f]>>
      BY <1>0, <2>1 DEF Typed
    <3>2. Inside(f) => on[f] # on[e]
      BY <1>0, <2>1 DEF Exclusive, Inside
    <3>3. ExecutorOK(f)
      OBVIOUS
    <3> QED
      BY <1>0, <3>1, <3>2, <3>3 DEF Typed, ExecutorOK, HeldOK, WalkOK, Holding, Walking, Inside, Ready
  <2>2. CASE f = e
    <3>1. HeldOK(e)'
      BY <1>0, Values DEF Typed, RowOK, EffectOK, ExecutorOK, HeldOK, Holding, AfterFinish
    <3>2. WalkOK(e)'
      BY <1>0, Values DEF Typed, ExecutorOK, WalkOK, Walking, AfterFinish, StepStatusOf
    <3> QED
      BY <2>2, <3>1, <3>2 DEF ExecutorOK
  <2> QED
    BY <2>1, <2>2
<1>5. ASSUME NEW q \in Plans PROVE InOrder(q)'
  BY <1>0, OrderKept
<1>6. UndoOK'
  <2>1. status[on[e]] = "executing"
    BY <1>0 DEF Exclusive, Inside
  <2>2. StepStatusOf(outcome[e]) # "none"
    BY <1>0 DEF StepStatusOf, Outcomes
  <2> QED
    BY <1>0, <2>1, <2>2, Values, UndoKept DEF UndoOK, UndoAfterEnd, Ended
<1> QED
  BY <1>1, <1>2, <1>3, <1>4, <1>5, <1>6

LEMMA CheckStopInv ==
    ASSUME IInv, NEW e \in Executors, CheckStop(e)
    PROVE  IInv'
<1> USE PlanAssumption DEF IInv, CheckStop, Goto, rowVars, worldVars
<1>1. Typed'
  BY Values DEF Typed, Place, Outcomes
<1>2. Exclusive'
  BY DEF Typed, Exclusive, Inside, Unstarted
<1>3. ASSUME NEW q \in Plans, NEW i \in Positions PROVE RowOK(q, i)' /\ EffectOK(q, i)'
  BY DEF RowOK, EffectOK
<1>4. ASSUME NEW f \in Executors PROVE ExecutorOK(f)'
  BY DEF ExecutorOK, HeldOK, WalkOK, Holding, Walking, Ready
<1>5. ASSUME NEW q \in Plans PROVE InOrder(q)'
  BY DEF Typed, InOrder, Unstarted, ExecutorOK, HeldOK, Holding
<1>6. UndoOK'
  BY DEF UndoOK, UndoAfterEnd, UndoStepOK, UndoCovers, ToUndo
<1> QED
  BY <1>1, <1>2, <1>3, <1>4, <1>5, <1>6

LEMMA AskStopInv ==
    ASSUME IInv, NEW e \in Executors, AskStop(e)
    PROVE  IInv'
<1> USE PlanAssumption DEF IInv, AskStop, Goto, rowVars, worldVars
<1>1. Typed'
  BY Values DEF Typed, Place, Outcomes
<1>2. Exclusive'
  BY DEF Typed, Exclusive, Inside, Unstarted
<1>3. ASSUME NEW q \in Plans, NEW i \in Positions PROVE RowOK(q, i)' /\ EffectOK(q, i)'
  BY DEF RowOK, EffectOK
<1>4. ASSUME NEW f \in Executors PROVE ExecutorOK(f)'
  BY DEF ExecutorOK, HeldOK, WalkOK, Holding, Walking, Ready
<1>5. ASSUME NEW q \in Plans PROVE InOrder(q)'
  BY DEF Typed, InOrder, Unstarted, ExecutorOK, HeldOK, Holding
<1>6. UndoOK'
  BY DEF UndoOK, UndoAfterEnd, UndoStepOK, UndoCovers, ToUndo
<1> QED
  BY <1>1, <1>2, <1>3, <1>4, <1>5, <1>6

LEMMA CompletePlanInv ==
    ASSUME IInv, NEW e \in Executors, CompletePlan(e)
    PROVE  IInv'
<1> USE PlanAssumption DEF IInv, CompletePlan, Goto, SetStatus, Forget, worldVars
<1>1. Typed'
  BY Values DEF Typed, Place, Outcomes
<1>2. Exclusive'
  BY DEF Typed, Exclusive, Inside, Unstarted
<1>3. ASSUME NEW q \in Plans, NEW i \in Positions PROVE RowOK(q, i)' /\ EffectOK(q, i)'
  BY DEF RowOK, EffectOK, ExecutorOK, WalkOK, Unstarted
<1>4. ASSUME NEW f \in Executors PROVE ExecutorOK(f)'
  BY DEF Typed, ExecutorOK, HeldOK, WalkOK, Holding, Walking, Ready
<1>5. ASSUME NEW q \in Plans PROVE InOrder(q)'
  BY DEF Typed, InOrder, Unstarted, ExecutorOK, HeldOK, Holding
<1>6. UndoOK'
  BY DEF Exclusive, Inside, UndoOK, UndoAfterEnd, UndoStepOK, UndoCovers, ToUndo, Ended
<1> QED
  BY <1>1, <1>2, <1>3, <1>4, <1>5, <1>6

LEMMA CancelRestInv ==
    ASSUME IInv, NEW e \in Executors, CancelRest(e)
    PROVE  IInv'
<1> USE PlanAssumption DEF IInv
<1>0. PICK s \in {"cancelled"}, r \in {"cancelled"} :
        /\ pc[e] = "cancel_rest" /\ pc' = [pc EXCEPT ![e] = "idle"] /\ on[e] \in Plans
        /\ status' \in [Plans -> PlanStatus]
        /\ \A q \in Plans : status'[q] = IF q = on[e] THEN s ELSE status[q]
        /\ step' \in [Plans -> [Positions -> StepValue]]
        /\ \A q \in Plans, i \in Positions :
              step'[q][i] = IF q = on[e] /\ step[q][i] \in {"ready"} THEN r ELSE step[q][i]
        /\ on' = [on EXCEPT ![e] = "plan"] /\ at' = [at EXCEPT ![e] = 0]
        /\ count' = [count EXCEPT ![e] = 0] /\ outcome' = [outcome EXCEPT ![e] = "ok"]
        /\ UNCHANGED <<stop, begun, refused, undoes, linked, overdue, upc, calls, world>>
  <2>1. pc[e] = "cancel_rest" /\ pc' = [pc EXCEPT ![e] = "idle"] /\ on[e] \in Plans
    BY DEF Typed, CancelRest, Goto
  <2>2. PICK s \in {"cancelled"}, r \in {"cancelled"} :
            SetStatus(on[e], s) /\ Sweep(on[e], {"ready"}, r)
    BY DEF CancelRest
  <2>3. s \in PlanStatus /\ r \in StepValue /\ Typed
    BY Values
  <2>4. /\ status' \in [Plans -> PlanStatus]
        /\ \A q \in Plans : status'[q] = IF q = on[e] THEN s ELSE status[q]
    <3> HIDE DEF IInv
    <3> QED
      BY <2>1, <2>2, <2>3, StatusEffect
  <2>5. /\ step' \in [Plans -> [Positions -> StepValue]]
        /\ \A q \in Plans, i \in Positions :
              step'[q][i] = IF q = on[e] /\ step[q][i] \in {"ready"} THEN r ELSE step[q][i]
    <3> HIDE DEF IInv
    <3> QED
      BY <2>1, <2>2, <2>3, SweepEffect
  <2> QED
    BY <2>1, <2>4, <2>5 DEF CancelRest, Forget, worldVars
<1>1. Typed'
  <2>1. "idle" \in Place /\ 0 \in 0..N /\ "plan" \in Plans /\ "ok" \in Outcomes
    BY PlanAssumption DEF Place, Outcomes, Plans
  <2> QED
    BY <1>0, <2>1 DEF Typed
<1>2. Exclusive'
  BY <1>0, Values DEF Typed, Exclusive, Inside, Unstarted
<1>3. ASSUME NEW q \in Plans, NEW i \in Positions PROVE RowOK(q, i)' /\ EffectOK(q, i)'
  <2>1. RowOK(q, i) /\ EffectOK(q, i)
    OBVIOUS
  <2>2. status[on[e]] = "executing"
    BY <1>0 DEF Exclusive, Inside
  <2> QED
    BY <1>0, <2>1, <2>2 DEF RowOK, EffectOK, Unstarted, Ended
<1>4. ASSUME NEW f \in Executors PROVE ExecutorOK(f)'
  <2>1. CASE f # e
    <3>1. UNCHANGED <<pc[f], on[f], at[f], outcome[f]>>
      BY <1>0, <2>1 DEF Typed
    <3>2. Inside(f) => on[f] # on[e]
      BY <1>0, <2>1 DEF Exclusive, Inside
    <3>3. ExecutorOK(f)
      OBVIOUS
    <3> QED
      BY <1>0, <3>1, <3>2, <3>3 DEF Typed, ExecutorOK, HeldOK, WalkOK, Holding, Walking, Inside, Ready
  <2>2. CASE f = e
    BY <1>0, <2>2 DEF Typed, ExecutorOK, HeldOK, WalkOK, Holding, Walking
  <2> QED
    BY <2>1, <2>2
<1>5. ASSUME NEW q \in Plans PROVE InOrder(q)'
  BY <1>0, OrderKept
<1>6. UndoOK'
  <2>1. status[on[e]] = "executing"
    BY <1>0 DEF Exclusive, Inside
  <2> QED
    BY <1>0, <2>1, Values, UndoKept DEF UndoOK, UndoAfterEnd, Ended
<1> QED
  BY <1>1, <1>2, <1>3, <1>4, <1>5, <1>6

LEMMA FailRestInv ==
    ASSUME IInv, NEW e \in Executors, FailRest(e)
    PROVE  IInv'
<1> USE PlanAssumption DEF IInv
<1>0. PICK s \in {"cancelled", "partially_completed", "failed"}, r \in {"cancelled", "skipped"} :
        /\ pc[e] = "fail_rest" /\ pc' = [pc EXCEPT ![e] = "idle"] /\ on[e] \in Plans
        /\ status' \in [Plans -> PlanStatus]
        /\ \A q \in Plans : status'[q] = IF q = on[e] THEN s ELSE status[q]
        /\ step' \in [Plans -> [Positions -> StepValue]]
        /\ \A q \in Plans, i \in Positions :
              step'[q][i] = IF q = on[e] /\ step[q][i] \in {"ready"} THEN r ELSE step[q][i]
        /\ on' = [on EXCEPT ![e] = "plan"] /\ at' = [at EXCEPT ![e] = 0]
        /\ count' = [count EXCEPT ![e] = 0] /\ outcome' = [outcome EXCEPT ![e] = "ok"]
        /\ UNCHANGED <<stop, begun, refused, undoes, linked, overdue, upc, calls, world>>
  <2>1. pc[e] = "fail_rest" /\ pc' = [pc EXCEPT ![e] = "idle"] /\ on[e] \in Plans
    BY DEF Typed, FailRest, Goto
  <2>2. PICK s \in {"cancelled", "partially_completed", "failed"}, r \in {"cancelled", "skipped"} :
            SetStatus(on[e], s) /\ Sweep(on[e], {"ready"}, r)
    BY DEF FailRest
  <2>3. s \in PlanStatus /\ r \in StepValue /\ Typed
    BY Values
  <2>4. /\ status' \in [Plans -> PlanStatus]
        /\ \A q \in Plans : status'[q] = IF q = on[e] THEN s ELSE status[q]
    <3> HIDE DEF IInv
    <3> QED
      BY <2>1, <2>2, <2>3, StatusEffect
  <2>5. /\ step' \in [Plans -> [Positions -> StepValue]]
        /\ \A q \in Plans, i \in Positions :
              step'[q][i] = IF q = on[e] /\ step[q][i] \in {"ready"} THEN r ELSE step[q][i]
    <3> HIDE DEF IInv
    <3> QED
      BY <2>1, <2>2, <2>3, SweepEffect
  <2> QED
    BY <2>1, <2>4, <2>5 DEF FailRest, Forget, worldVars
<1>1. Typed'
  <2>1. "idle" \in Place /\ 0 \in 0..N /\ "plan" \in Plans /\ "ok" \in Outcomes
    BY PlanAssumption DEF Place, Outcomes, Plans
  <2> QED
    BY <1>0, <2>1 DEF Typed
<1>2. Exclusive'
  BY <1>0, Values DEF Typed, Exclusive, Inside, Unstarted
<1>3. ASSUME NEW q \in Plans, NEW i \in Positions PROVE RowOK(q, i)' /\ EffectOK(q, i)'
  <2>1. RowOK(q, i) /\ EffectOK(q, i)
    OBVIOUS
  <2>2. status[on[e]] = "executing"
    BY <1>0 DEF Exclusive, Inside
  <2> QED
    BY <1>0, <2>1, <2>2 DEF RowOK, EffectOK, Unstarted, Ended
<1>4. ASSUME NEW f \in Executors PROVE ExecutorOK(f)'
  <2>1. CASE f # e
    <3>1. UNCHANGED <<pc[f], on[f], at[f], outcome[f]>>
      BY <1>0, <2>1 DEF Typed
    <3>2. Inside(f) => on[f] # on[e]
      BY <1>0, <2>1 DEF Exclusive, Inside
    <3>3. ExecutorOK(f)
      OBVIOUS
    <3> QED
      BY <1>0, <3>1, <3>2, <3>3 DEF Typed, ExecutorOK, HeldOK, WalkOK, Holding, Walking, Inside, Ready
  <2>2. CASE f = e
    BY <1>0, <2>2 DEF Typed, ExecutorOK, HeldOK, WalkOK, Holding, Walking
  <2> QED
    BY <2>1, <2>2
<1>5. ASSUME NEW q \in Plans PROVE InOrder(q)'
  BY <1>0, OrderKept
<1>6. UndoOK'
  <2>1. status[on[e]] = "executing"
    BY <1>0 DEF Exclusive, Inside
  <2> QED
    BY <1>0, <2>1, Values, UndoKept DEF UndoOK, UndoAfterEnd, Ended
<1> QED
  BY <1>1, <1>2, <1>3, <1>4, <1>5, <1>6

LEMMA InterruptInv ==
    ASSUME IInv, NEW e \in Executors, Interrupt(e)
    PROVE  IInv'
<1> USE PlanAssumption DEF IInv, Interrupt, rowVars, worldVars
<1>1. Typed'
  BY Values DEF Typed, Place, Outcomes
<1>2. Exclusive'
  BY DEF Typed, Exclusive, Inside, Unstarted
<1>3. ASSUME NEW q \in Plans, NEW i \in Positions PROVE RowOK(q, i)' /\ EffectOK(q, i)'
  BY DEF RowOK, EffectOK
<1>4. ASSUME NEW f \in Executors PROVE ExecutorOK(f)'
  BY DEF Typed, ExecutorOK, HeldOK, WalkOK, Holding, Walking, Ready
<1>5. ASSUME NEW q \in Plans PROVE InOrder(q)'
  BY DEF Typed, InOrder, Unstarted, ExecutorOK, HeldOK, Holding
<1>6. UndoOK'
  BY DEF UndoOK, UndoAfterEnd, UndoStepOK, UndoCovers, ToUndo
<1> QED
  BY <1>1, <1>2, <1>3, <1>4, <1>5, <1>6

LEMMA FinishUnknownInv ==
    ASSUME IInv, NEW e \in Executors, FinishUnknown(e)
    PROVE  IInv'
<1> USE PlanAssumption DEF IInv
<1>0. /\ pc[e] = "unknown" /\ pc' = [pc EXCEPT ![e] = "fail_rest"] /\ on[e] \in Plans
      /\ at[e] \in Positions /\ step[on[e]][at[e]] = "executing"
      /\ step' \in [Plans -> [Positions -> StepValue]]
      /\ \A q \in Plans, i \in Positions :
            step'[q][i] = IF q = on[e] /\ i = at[e] THEN "unknown_outcome" ELSE step[q][i]
      /\ at' = [at EXCEPT ![e] = 0]
      /\ UNCHANGED <<status, stop, begun, refused, undoes, linked, overdue, on, count, outcome, upc, calls, world>>
  <2>1. /\ pc[e] = "unknown" /\ pc' = [pc EXCEPT ![e] = "fail_rest"] /\ on[e] \in Plans
        /\ step[on[e]][at[e]] = "executing"
        /\ step' = [step EXCEPT ![on[e]][at[e]] = "unknown_outcome"]
    BY DEF Typed, FinishUnknown, Goto
  <2>2. at[e] \in Positions
    BY <2>1 DEF ExecutorOK, HeldOK, Holding
  <2>3. /\ step' \in [Plans -> [Positions -> StepValue]]
        /\ \A q \in Plans, i \in Positions :
              step'[q][i] = IF q = on[e] /\ i = at[e] THEN "unknown_outcome" ELSE step[q][i]
    <3>1. "unknown_outcome" \in StepValue /\ Typed
      BY <2>1, Values
    <3> HIDE DEF IInv
    <3> QED
      BY <2>1, <2>2, <3>1, StepEffect
  <2> QED
    BY <2>1, <2>2, <2>3 DEF FinishUnknown, worldVars
<1>1. Typed'
  <2>1. "fail_rest" \in Place /\ 0 \in 0..N
    BY PlanAssumption DEF Place
  <2> QED
    BY <1>0, <2>1 DEF Typed
<1>2. Exclusive'
  BY <1>0, Values DEF Typed, Exclusive, Inside, Unstarted
<1>3. ASSUME NEW q \in Plans, NEW i \in Positions PROVE RowOK(q, i)' /\ EffectOK(q, i)'
  BY <1>0, Values DEF RowOK, EffectOK, Unstarted
<1>4. ASSUME NEW f \in Executors PROVE ExecutorOK(f)'
  <2>1. CASE f # e
    <3>1. UNCHANGED <<pc[f], on[f], at[f], outcome[f]>>
      BY <1>0, <2>1 DEF Typed
    <3>2. Inside(f) => on[f] # on[e]
      BY <1>0, <2>1 DEF Exclusive, Inside
    <3>3. ExecutorOK(f)
      OBVIOUS
    <3> QED
      BY <1>0, <3>1, <3>2, <3>3 DEF Typed, ExecutorOK, HeldOK, WalkOK, Holding, Walking, Inside, Ready
  <2>2. CASE f = e
    <3>1. HeldOK(e)'
      BY <1>0, Values DEF Typed, RowOK, EffectOK, ExecutorOK, HeldOK, Holding
    <3>2. WalkOK(e)'
      BY <1>0, Values DEF WalkOK, Walking
    <3> QED
      BY <2>2, <3>1, <3>2 DEF ExecutorOK
  <2> QED
    BY <2>1, <2>2
<1>5. ASSUME NEW q \in Plans PROVE InOrder(q)'
  BY <1>0, OrderKept
<1>6. UndoOK'
  <2>1. status[on[e]] = "executing"
    BY <1>0 DEF Exclusive, Inside
  <2> QED
    BY <1>0, <2>1, Values, UndoKept DEF UndoOK, UndoAfterEnd, Ended
<1> QED
  BY <1>1, <1>2, <1>3, <1>4, <1>5, <1>6

LEMMA ExecutorDiesInv ==
    ASSUME IInv, NEW e \in Executors, ExecutorDies(e)
    PROVE  IInv'
<1> USE PlanAssumption DEF IInv, ExecutorDies, Forget, rowVars, worldVars
<1>1. Typed'
  BY Values DEF Typed, Place, Outcomes
<1>2. Exclusive'
  BY DEF Typed, Exclusive, Inside, Unstarted
<1>3. ASSUME NEW q \in Plans, NEW i \in Positions PROVE RowOK(q, i)' /\ EffectOK(q, i)'
  BY DEF RowOK, EffectOK
<1>4. ASSUME NEW f \in Executors PROVE ExecutorOK(f)'
  BY DEF Typed, ExecutorOK, HeldOK, WalkOK, Holding, Walking, Ready
<1>5. ASSUME NEW q \in Plans PROVE InOrder(q)'
  BY DEF Typed, InOrder, Unstarted, ExecutorOK, HeldOK, Holding
<1>6. UndoOK'
  BY DEF UndoOK, UndoAfterEnd, UndoStepOK, UndoCovers, ToUndo
<1> QED
  BY <1>1, <1>2, <1>3, <1>4, <1>5, <1>6

LEMMA ReadForUndoInv ==
    ASSUME IInv, NEW u \in Undoers, ReadForUndo(u)
    PROVE  IInv'
<1> USE PlanAssumption DEF IInv, ReadForUndo, GotoUndo, rowVars, executorVars, worldVars
<1>1. Typed'
  BY Values DEF Typed, Place, Outcomes
<1>2. Exclusive'
  BY DEF Typed, Exclusive, Inside, Unstarted
<1>3. ASSUME NEW q \in Plans, NEW i \in Positions PROVE RowOK(q, i)' /\ EffectOK(q, i)'
  BY DEF RowOK, EffectOK
<1>4. ASSUME NEW f \in Executors PROVE ExecutorOK(f)'
  BY DEF ExecutorOK, HeldOK, WalkOK, Holding, Walking, Ready
<1>5. ASSUME NEW q \in Plans PROVE InOrder(q)'
  BY DEF Typed, InOrder, Unstarted, ExecutorOK, HeldOK, Holding
<1>6. UndoOK'
  BY DEF UndoOK, UndoAfterEnd, UndoStepOK, UndoCovers, ToUndo, Ended
<1> QED
  BY <1>1, <1>2, <1>3, <1>4, <1>5, <1>6

LEMMA FindUndoInv ==
    ASSUME IInv, NEW u \in Undoers, FindUndo(u)
    PROVE  IInv'
<1> USE PlanAssumption DEF IInv, FindUndo, GotoUndo, rowVars, executorVars, worldVars
<1>1. Typed'
  BY Values DEF Typed, Place, Outcomes
<1>2. Exclusive'
  BY DEF Typed, Exclusive, Inside, Unstarted
<1>3. ASSUME NEW q \in Plans, NEW i \in Positions PROVE RowOK(q, i)' /\ EffectOK(q, i)'
  BY DEF RowOK, EffectOK
<1>4. ASSUME NEW f \in Executors PROVE ExecutorOK(f)'
  BY DEF ExecutorOK, HeldOK, WalkOK, Holding, Walking, Ready
<1>5. ASSUME NEW q \in Plans PROVE InOrder(q)'
  BY DEF Typed, InOrder, Unstarted, ExecutorOK, HeldOK, Holding
<1>6. UndoOK'
  BY DEF UndoOK, UndoAfterEnd, UndoStepOK, UndoCovers, ToUndo
<1> QED
  BY <1>1, <1>2, <1>3, <1>4, <1>5, <1>6

LEMMA InsertUndoInv ==
    ASSUME IInv, NEW u \in Undoers, InsertUndo(u)
    PROVE  IInv'
<1> USE PlanAssumption DEF IInv
<1>0. /\ upc[u] = "insert" /\ upc' = [upc EXCEPT ![u] = "link"]
      /\ status["undo"] = "absent" /\ status["plan"] \in Ended
      /\ undoes' = PlaceOf
      /\ \A i \in Positions : step["undo"][i] = "none"
      /\ status' \in [Plans -> PlanStatus] /\ status'["plan"] = status["plan"]
      /\ status'["undo"] \in Unstarted
      /\ status'["undo"] = "ready" =>
             \A i \in Positions : step'["undo"][i] # "awaiting_confirmation"
      /\ step' \in [Plans -> [Positions -> StepValue]] /\ step'["plan"] = step["plan"]
      /\ \A i \in Positions : /\ step'["undo"][i] \in Unstarted \cup {"none"}
                              /\ step'["undo"][i] = "none" <=> PlaceOf[i] = 0
      /\ UNCHANGED <<stop, begun, refused, linked, overdue, pc, on, at, count, outcome, calls, world>>
  <2> DEFINE steps == NewSteps(PlaceOf, UndoNeedsConfirm)
  <2>1. /\ upc[u] = "insert" /\ upc' = [upc EXCEPT ![u] = "link"] /\ status["undo"] = "absent"
        /\ undoes' = PlaceOf
        /\ step' = [step EXCEPT !["undo"] = steps]
        /\ SetStatus("undo", NewStatus(steps))
    BY DEF InsertUndo, GotoUndo, PlaceOf
  <2>2. /\ steps \in [Positions -> {"none", "awaiting_confirmation", "ready"}]
        /\ \A i \in Positions : steps[i] = "none" <=> PlaceOf[i] = 0
    BY DEF NewSteps
  <2>3. /\ NewStatus(steps) \in Unstarted
        /\ NewStatus(steps) = "ready" => \A i \in Positions : steps[i] # "awaiting_confirmation"
    BY DEF NewStatus, Unstarted
  <2> HIDE DEF steps
  <2>4. NewStatus(steps) \in PlanStatus /\ steps \in [Positions -> StepValue]
    BY <2>2, <2>3, Values DEF Unstarted
  <2>5. status' = [status EXCEPT !["undo"] = NewStatus(steps)]
    BY <2>1 DEF SetStatus
  <2>6. status' \in [Plans -> PlanStatus] /\ status'["plan"] = status["plan"]
        /\ status'["undo"] = NewStatus(steps)
    BY <2>4, <2>5 DEF Typed, Plans
  <2>7. step' \in [Plans -> [Positions -> StepValue]] /\ step'["plan"] = step["plan"]
        /\ step'["undo"] = steps
    BY <2>1, <2>4 DEF Typed, Plans
  <2>8. status["plan"] \in Ended /\ \A i \in Positions : step["undo"][i] = "none"
    BY <2>1, Values DEF UndoOK, UndoAfterEnd, RowOK
  <2> QED
    BY <2>1, <2>2, <2>3, <2>6, <2>7, <2>8 DEF InsertUndo, executorVars, worldVars, Unstarted
<1>1. Typed'
  BY <1>0, PlacesRight DEF Typed
<1>2. Exclusive'
  <2>1. \A e \in Executors : ~ Inside(e)
    BY <1>0, Values DEF Exclusive, Inside, Typed, Ended
  <2> QED
    BY <1>0, <2>1 DEF Exclusive, Inside
<1>3. ASSUME NEW q \in Plans, NEW i \in Positions PROVE RowOK(q, i)' /\ EffectOK(q, i)'
  <2>1. RowOK(q, i) /\ EffectOK(q, i)
    OBVIOUS
  <2>2. CASE q = "plan"
    BY <1>0, <2>1, <2>2 DEF RowOK, EffectOK
  <2>3. CASE q = "undo"
    <3>1. i \notin begun[q] /\ calls[q][i] = 0 /\ i \notin refused[q] /\ world[q][i] = "none"
      BY <1>0, <2>1, <2>3 DEF EffectOK
    <3>2. RowOK(q, i)'
      BY <1>0, <2>3 DEF RowOK, Unstarted, Ended
    <3>3. EffectOK(q, i)'
      BY <1>0, <2>3, <3>1 DEF EffectOK, Unstarted
    <3> QED
      BY <3>2, <3>3
  <2> QED
    BY <2>2, <2>3, Values
<1>4. ASSUME NEW f \in Executors PROVE ExecutorOK(f)'
  <2>1. ~ Inside(f)
    BY <1>0, Values DEF Exclusive, Inside, Typed, Ended
  <2> QED
    BY <1>0, <2>1 DEF ExecutorOK, HeldOK, WalkOK, Holding, Walking, Inside
<1>5. ASSUME NEW q \in Plans PROVE InOrder(q)'
  <2>1. CASE q = "plan"
    BY <1>0, <2>1 DEF InOrder
  <2>2. CASE q = "undo"
    <3>1. begun[q] = {}
      BY <1>0, <2>2 DEF EffectOK, Typed
    <3> QED
      BY <1>0, <2>2, <3>1 DEF InOrder
  <2> QED
    BY <2>1, <2>2, Values
<1>6. UndoOK'
  <2>1. ToUndo' = ToUndo
    BY <1>0 DEF ToUndo
  <2>2. UndoAfterEnd'
    BY <1>0 DEF UndoAfterEnd, Ended
  <2>3. ASSUME NEW i \in Positions PROVE UndoStepOK(i)'
    <3>1. \A j \in 1..(i - 1) : j \in Positions /\ j < i
      BY PlanAssumption DEF Positions
    <3> QED
      BY <1>0, <2>1, <3>1, PlacesRight DEF UndoStepOK
  <2>4. UndoCovers'
    BY <1>0, <2>1, PlacesRight DEF UndoCovers
  <2> QED
    BY <2>2, <2>3, <2>4 DEF UndoOK
<1> QED
  BY <1>1, <1>2, <1>3, <1>4, <1>5, <1>6

LEMMA UndoConflictsInv ==
    ASSUME IInv, NEW u \in Undoers, UndoConflicts(u)
    PROVE  IInv'
<1> USE PlanAssumption DEF IInv, UndoConflicts, GotoUndo, rowVars, executorVars, worldVars
<1>1. Typed'
  BY Values DEF Typed, Place, Outcomes
<1>2. Exclusive'
  BY DEF Typed, Exclusive, Inside, Unstarted
<1>3. ASSUME NEW q \in Plans, NEW i \in Positions PROVE RowOK(q, i)' /\ EffectOK(q, i)'
  BY DEF RowOK, EffectOK
<1>4. ASSUME NEW f \in Executors PROVE ExecutorOK(f)'
  BY DEF ExecutorOK, HeldOK, WalkOK, Holding, Walking, Ready
<1>5. ASSUME NEW q \in Plans PROVE InOrder(q)'
  BY DEF Typed, InOrder, Unstarted, ExecutorOK, HeldOK, Holding
<1>6. UndoOK'
  BY DEF UndoOK, UndoAfterEnd, UndoStepOK, UndoCovers, ToUndo
<1> QED
  BY <1>1, <1>2, <1>3, <1>4, <1>5, <1>6

LEMMA LinkUndoInv ==
    ASSUME IInv, NEW u \in Undoers, LinkUndo(u)
    PROVE  IInv'
<1> USE PlanAssumption DEF IInv, LinkUndo, GotoUndo, executorVars, worldVars
<1>1. Typed'
  BY Values DEF Typed, Place, Outcomes
<1>2. Exclusive'
  BY DEF Typed, Exclusive, Inside, Unstarted
<1>3. ASSUME NEW q \in Plans, NEW i \in Positions PROVE RowOK(q, i)' /\ EffectOK(q, i)'
  BY DEF RowOK, EffectOK
<1>4. ASSUME NEW f \in Executors PROVE ExecutorOK(f)'
  BY DEF ExecutorOK, HeldOK, WalkOK, Holding, Walking, Ready
<1>5. ASSUME NEW q \in Plans PROVE InOrder(q)'
  BY DEF Typed, InOrder, Unstarted, ExecutorOK, HeldOK, Holding
<1>6. UndoOK'
  BY DEF UndoOK, UndoAfterEnd, UndoStepOK, UndoCovers, ToUndo
<1> QED
  BY <1>1, <1>2, <1>3, <1>4, <1>5, <1>6

LEMMA UndoerDiesInv ==
    ASSUME IInv, NEW u \in Undoers, UndoerDies(u)
    PROVE  IInv'
<1> USE PlanAssumption DEF IInv, UndoerDies, rowVars, executorVars, worldVars
<1>1. Typed'
  BY Values DEF Typed, Place, Outcomes
<1>2. Exclusive'
  BY DEF Typed, Exclusive, Inside, Unstarted
<1>3. ASSUME NEW q \in Plans, NEW i \in Positions PROVE RowOK(q, i)' /\ EffectOK(q, i)'
  BY DEF RowOK, EffectOK
<1>4. ASSUME NEW f \in Executors PROVE ExecutorOK(f)'
  BY DEF ExecutorOK, HeldOK, WalkOK, Holding, Walking, Ready
<1>5. ASSUME NEW q \in Plans PROVE InOrder(q)'
  BY DEF Typed, InOrder, Unstarted, ExecutorOK, HeldOK, Holding
<1>6. UndoOK'
  BY DEF UndoOK, UndoAfterEnd, UndoStepOK, UndoCovers, ToUndo
<1> QED
  BY <1>1, <1>2, <1>3, <1>4, <1>5, <1>6

-----------------------------------------------------------------------------
(* The invariant holds of every step.                                      *)

LEMMA StutterInv == ASSUME IInv, UNCHANGED vars PROVE IInv'
<1> USE DEF IInv, vars, rowVars, executorVars, worldVars
<1>1. Typed'
  BY DEF Typed
<1>2. Exclusive'
  BY DEF Exclusive, Inside
<1>3. ASSUME NEW q \in Plans, NEW i \in Positions PROVE RowOK(q, i)' /\ EffectOK(q, i)'
  BY DEF RowOK, EffectOK
<1>4. ASSUME NEW f \in Executors PROVE ExecutorOK(f)'
  BY DEF ExecutorOK, HeldOK, WalkOK, Holding, Walking, Ready
<1>5. ASSUME NEW q \in Plans PROVE InOrder(q)'
  BY DEF InOrder
<1>6. UndoOK'
  BY DEF UndoOK, UndoAfterEnd, UndoStepOK, UndoCovers, ToUndo
<1> QED
  BY <1>1, <1>2, <1>3, <1>4, <1>5, <1>6

LEMMA NextInv == IInv /\ [Next]_vars => IInv'
<1> SUFFICES ASSUME IInv, [Next]_vars PROVE IInv'
  OBVIOUS
<1>1. ASSUME NEW p \in Plans, ConfirmPlan(p) \/ CancelPlan(p) \/ Expire(p) PROVE IInv'
  BY <1>1, ConfirmPlanInv, CancelPlanInv, ExpireInv
<1>2. ASSUME CancelRun \/ EraseSource PROVE IInv'
  BY <1>2, Values, RevokeInv DEF CancelRun, EraseSource
<1>3. ASSUME NEW e \in Executors, NEW p \in Plans, BeginExecution(e, p) PROVE IInv'
  BY <1>3, BeginExecutionInv
<1>4. ASSUME NEW e \in Executors, Execute(e) PROVE IInv'
  BY <1>4, ClaimStepInv, NothingToClaimInv, RefuseToolInv, StartToolInv, ToolReturnsInv,
     FinishStepInv, CheckStopInv, AskStopInv, CompletePlanInv, CancelRestInv, FailRestInv,
     FinishUnknownInv DEF Execute
<1>5. ASSUME NEW e \in Executors, Interrupt(e) \/ ExecutorDies(e) PROVE IInv'
  BY <1>5, InterruptInv, ExecutorDiesInv
<1>6. ASSUME NEW p \in Plans, NEW i \in Positions, EffectHappens(p, i) PROVE IInv'
  BY <1>6, EffectHappensInv
<1>7. ASSUME NEW u \in Undoers,
             ReadForUndo(u) \/ FindUndo(u) \/ InsertUndo(u) \/ UndoConflicts(u) \/ LinkUndo(u)
             \/ UndoerDies(u)
      PROVE  IInv'
  BY <1>7, ReadForUndoInv, FindUndoInv, InsertUndoInv, UndoConflictsInv, LinkUndoInv, UndoerDiesInv
<1>8. CASE UNCHANGED vars
  BY <1>8, StutterInv
<1> QED
  BY <1>1, <1>2, <1>3, <1>4, <1>5, <1>6, <1>7, <1>8 DEF Next

THEOREM Invariance == Spec => []IInv
BY InitInv, NextInv, PTL DEF Spec

-----------------------------------------------------------------------------
(* What follows from it.                                                   *)

LEMMA InvHonest == IInv => SideEffectIsHonest
BY DEF IInv, EffectOK, SideEffectIsHonest, SideEffect

LEMMA InvWhole == IInv => CompletedIsWhole
<1> SUFFICES ASSUME IInv, NEW p \in Plans, NEW i \in Positions, status[p] = "completed"
             PROVE  step[p][i] \in {"completed", "none"}
  BY DEF CompletedIsWhole
<1> QED
  BY DEF IInv, RowOK

LEMMA InvOrder == IInv => CalledOnceInOrder
<1> SUFFICES ASSUME IInv, NEW p \in Plans, NEW i \in Positions
             PROVE  /\ calls[p][i] <= 1
                    /\ calls[p][i] = 1 => \A j \in 1..(i - 1) : step[p][j] = "completed"
  BY DEF CalledOnceInOrder
<1>1. EffectOK(p, i) /\ InOrder(p)
  BY DEF IInv
<1> QED
  BY <1>1 DEF EffectOK, InOrder

LEMMA InvReverse == IInv => UndoneInReverse
<1> SUFFICES ASSUME IInv, NEW i \in Positions, calls["undo"][i] = 1
             PROVE  /\ world["plan"][undoes[i]] = "done"
                    /\ \A k \in Reversible : k > undoes[i] /\ world["plan"][k] = "done"
                           /\ step["plan"][k] = "completed"
                           => \E j \in 1..(i - 1) : undoes[j] = k /\ world["undo"][j] = "done"
  BY DEF UndoneInReverse
<1> USE DEF IInv
<1>1. i \in begun["undo"] /\ step["undo"][i] # "none" /\ status["undo"] # "absent"
  BY Values DEF EffectOK, RowOK
<1>2. undoes[i] \in ToUndo
  BY <1>1 DEF UndoOK, UndoStepOK
<1>3. world["plan"][undoes[i]] = "done"
  BY <1>2, PlanAssumption, Values DEF ToUndo, EffectOK
<1>4. ASSUME NEW k \in Reversible, k > undoes[i], step["plan"][k] = "completed"
      PROVE  \E j \in 1..(i - 1) : undoes[j] = k /\ world["undo"][j] = "done"
  <2>1. k \in ToUndo
    BY <1>4 DEF ToUndo
  <2>2. PICK j \in Positions : undoes[j] = k
    BY <1>1, <2>1 DEF UndoOK, UndoCovers
  <2>3. k \in Nat /\ undoes[i] \in Nat /\ k # 0 /\ i \in Nat /\ j \in Nat /\ i >= 1 /\ j >= 1
    <3>1. i \in Nat /\ j \in Nat /\ i >= 1 /\ j >= 1
      BY PlanAssumption DEF Positions
    <3> QED
      BY <1>2, <2>1, <3>1, ToUndoNat
  <2>4. j # i
    BY <1>4, <2>2, <2>3
  <2>5. ~(i < j)
    <3> SUFFICES ASSUME i < j PROVE FALSE
      OBVIOUS
    <3>1. i \in 1..(j - 1)
      BY <2>3
    <3>2. undoes[i] > undoes[j]
      BY <2>2, <2>3, <3>1 DEF UndoOK, UndoStepOK
    <3> QED
      BY <1>4, <2>2, <2>3, <3>2
  <2>6. j \in 1..(i - 1)
    BY <2>3, <2>4, <2>5
  <2>7. step["undo"][j] = "completed"
    BY <1>1, <2>6, Values DEF InOrder
  <2>8. world["undo"][j] = "done"
    BY <2>7, Values DEF EffectOK
  <2> QED
    BY <2>2, <2>6, <2>8
<1> QED
  BY <1>3, <1>4

\* A step that is not of an executor leaves begun alone, and a stop keeps the
\* executors from it.
LEMMA StepObeysStop == [Next]_vars => \A p \in Plans : stop[p] => begun'[p] = begun[p]
<1> SUFFICES ASSUME [Next]_vars, NEW p \in Plans, stop[p] PROVE begun'[p] = begun[p]
  OBVIOUS
<1> USE DEF rowVars
<1>1. ASSUME NEW e \in Executors, ClaimStep(e) PROVE begun'[p] = begun[p]
  BY <1>1 DEF ClaimStep, MayClaim
<1>2. ASSUME NEW e \in Executors, Execute(e), ~ClaimStep(e) PROVE begun' = begun
  BY <1>2 DEF Execute, NothingToClaim, RefuseTool, StartTool, ToolReturns, FinishStep, CheckStop,
              AskStop, CompletePlan, CancelRest, FailRest, FinishUnknown
<1>3. ASSUME NEW q \in Plans, ConfirmPlan(q) \/ CancelPlan(q) \/ Expire(q) PROVE begun' = begun
  BY <1>3 DEF ConfirmPlan, CancelPlan, Expire
<1>4. ASSUME CancelRun \/ EraseSource PROVE begun' = begun
  BY <1>4 DEF CancelRun, EraseSource, Revoke
<1>5. ASSUME NEW e \in Executors, Interrupt(e) \/ ExecutorDies(e) \/ \E q \in Plans : BeginExecution(e, q)
      PROVE  begun' = begun
  BY <1>5 DEF Interrupt, ExecutorDies, BeginExecution
<1>6. ASSUME NEW q \in Plans, NEW i \in Positions, EffectHappens(q, i) PROVE begun' = begun
  BY <1>6 DEF EffectHappens
<1>7. ASSUME NEW u \in Undoers,
             ReadForUndo(u) \/ FindUndo(u) \/ InsertUndo(u) \/ UndoConflicts(u) \/ LinkUndo(u)
             \/ UndoerDies(u)
      PROVE  begun' = begun
  BY <1>7 DEF ReadForUndo, FindUndo, InsertUndo, UndoConflicts, LinkUndo, UndoerDies
<1>8. CASE UNCHANGED vars
  BY <1>8 DEF vars
<1> QED
  BY <1>1, <1>2, <1>3, <1>4, <1>5, <1>6, <1>7, <1>8 DEF Next

\* No executor is inside a plan that has ended, and a sweep finds nothing in it.
LEMMA StepKeepsEnd ==
    ASSUME IInv, [Next]_vars, NEW p \in Plans, status[p] \in Ended
    PROVE  status'[p] = status[p] /\ step'[p] = step[p]
<1> USE DEF IInv, rowVars
<1>1. status[p] \notin Active \cup {"absent"}
  BY DEF Ended, Active, Unstarted
<1>2. \A e \in Executors : Inside(e) => on[e] # p
  BY <1>1 DEF Exclusive, Active
<1>3. ASSUME NEW q \in Plans, ConfirmPlan(q) \/ CancelPlan(q) \/ Expire(q)
      PROVE  status'[p] = status[p] /\ step'[p] = step[p]
  BY <1>1, <1>3 DEF ConfirmPlan, CancelPlan, Expire, SetStatus, Sweep, Typed, Active, Unstarted
<1>4. ASSUME CancelRun \/ EraseSource PROVE status'[p] = status[p] /\ step'[p] = step[p]
  <2>1. PICK q \in Plans : Revoke(q)
    BY <1>4, Values DEF CancelRun, EraseSource
  <2>2. status'[p] = status[p]
    BY <1>1, <2>1 DEF Revoke, SetStatus, Typed, Active
  <2>3. \A i \in Positions : step[p][i] \notin Unstarted
    BY DEF RowOK
  <2>4. step' \in [Plans -> [Positions -> StepValue]]
        /\ \A i \in Positions : step'[p][i] = step[p][i]
    BY <2>1, <2>3, Values, SweepEffect DEF Revoke
  <2>5. step'[p] = step[p]
    BY <2>4 DEF Typed
  <2> QED
    BY <2>2, <2>5
<1>5. ASSUME NEW e \in Executors, NEW q \in Plans, BeginExecution(e, q)
      PROVE  status'[p] = status[p] /\ step'[p] = step[p]
  BY <1>1, <1>5 DEF BeginExecution, SetStatus, Typed, Active, Unstarted
<1>6. ASSUME NEW e \in Executors, Execute(e) PROVE status'[p] = status[p] /\ step'[p] = step[p]
  <2>1. Inside(e)
    BY <1>6 DEF Execute, Inside, Goto, ClaimStep, NothingToClaim, RefuseTool, StartTool,
                ToolReturns, FinishStep, CheckStop, AskStop, CompletePlan, CancelRest, FailRest,
                FinishUnknown
  <2>2. on[e] # p /\ on[e] \in Plans
    BY <1>2, <2>1 DEF Typed
  <2>3. CASE ClaimStep(e) \/ FinishStep(e) \/ FinishUnknown(e)
    BY <2>2, <2>3 DEF Typed, ClaimStep, FinishStep, FinishUnknown
  <2>4. CASE CompletePlan(e) \/ CancelRest(e) \/ FailRest(e)
    BY <2>2, <2>4 DEF Typed, CompletePlan, CancelRest, FailRest, SetStatus, Sweep
  <2> QED
    BY <1>6, <2>3, <2>4 DEF Execute, NothingToClaim, RefuseTool, StartTool, ToolReturns,
                            CheckStop, AskStop
<1>7. ASSUME NEW e \in Executors, Interrupt(e) \/ ExecutorDies(e)
      PROVE  UNCHANGED <<status, step>>
  BY <1>7 DEF Interrupt, ExecutorDies
<1>8. ASSUME NEW q \in Plans, NEW i \in Positions, EffectHappens(q, i) PROVE UNCHANGED <<status, step>>
  BY <1>8 DEF EffectHappens
<1>9. ASSUME NEW u \in Undoers,
             ReadForUndo(u) \/ FindUndo(u) \/ InsertUndo(u) \/ UndoConflicts(u) \/ LinkUndo(u)
             \/ UndoerDies(u)
      PROVE  status'[p] = status[p] /\ step'[p] = step[p]
  <2>1. CASE InsertUndo(u)
    BY <1>1, <2>1 DEF InsertUndo, SetStatus, Typed
  <2> QED
    BY <1>9, <2>1 DEF ReadForUndo, FindUndo, UndoConflicts, LinkUndo, UndoerDies
<1>10. CASE UNCHANGED vars
  BY <1>10 DEF vars
<1> QED
  BY <1>3, <1>4, <1>5, <1>6, <1>7, <1>8, <1>9, <1>10 DEF Next

-----------------------------------------------------------------------------
(* Theorems.                                                               *)

\* The variables have their types.
THEOREM TypeCorrect == Spec => []TypeOK
<1>1. IInv => TypeOK
  BY DEF IInv, Typed, TypeOK, PlanStatus, StepValue, Place
<1> QED
  BY <1>1, Invariance, PTL

\* What the user is told of the effect of a step (action_outcome) is true.
THEOREM Honest == Spec => []SideEffectIsHonest
BY InvHonest, Invariance, PTL

\* A plan is completed (execute_plan) only with all its steps.
THEOREM WholeWhenCompleted == Spec => []CompletedIsWhole
BY InvWhole, Invariance, PTL

\* The tool of a step is called once at most, and after the steps before it.
THEOREM OnceInOrder == Spec => []CalledOnceInOrder
BY InvOrder, Invariance, PTL

\* create_undo_plan: only what was done is undone, the last of it first.
THEOREM Reversed == Spec => []UndoneInReverse
BY InvReverse, Invariance, PTL

\* No step is claimed once a stop was accepted.
THEOREM StopObeyed == Spec => StopIsObeyed
<1>1. [Next]_vars => [\A p \in Plans : stop[p] => begun'[p] = begun[p]]_vars
  BY StepObeysStop
<1> QED
  BY <1>1, PTL DEF Spec, StopIsObeyed

\* A plan that has ended is not written again.
THEOREM EndFinal == Spec => EndIsFinal
<1>1. IInv /\ [Next]_vars =>
          [\A p \in Plans : status[p] \in Ended => status'[p] = status[p] /\ step'[p] = step[p]]_vars
  BY StepKeepsEnd
<1> QED
  BY <1>1, Invariance, PTL DEF Spec, EndIsFinal
=============================================================================
