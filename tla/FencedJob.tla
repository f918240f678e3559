------------------------------ MODULE FencedJob ------------------------------
(***************************************************************************)
(* What the job engine promises to the rest of the hub, without leases,    *)
(* clocks, steps or retries: a job is granted to one holder at a time, at  *)
(* most MaxGrants times, each grant with a new token; it is settled only   *)
(* while it is held; a stop request is honoured; an outcome is final.      *)
(* Who settles a job is not said here: the fencing of late answers is in   *)
(* ClaimNeverRevives and CancelStopsWork of JobEngine.                     *)
(***************************************************************************)
EXTENDS Naturals

CONSTANTS Jobs, Workers, NoWorker, MaxGrants

VARIABLES
    phase,     \* "absent", "waiting", "held", "stopping" or an outcome
    token,     \* number of grants, the token of the last one
    holder     \* whom the last grant names while it is not settled

vars == <<phase, token, holder>>

Init ==
    /\ phase = [j \in Jobs |-> "absent"]
    /\ token = [j \in Jobs |-> 0]
    /\ holder = [j \in Jobs |-> NoWorker]

MoveTo(j, p) == phase' = [phase EXCEPT ![j] = p]
Free(j) == holder' = [holder EXCEPT ![j] = NoWorker]

Accept(j) ==
    /\ phase[j] = "absent"
    /\ MoveTo(j, "waiting")
    /\ UNCHANGED <<token, holder>>

Grant(j, w) ==
    /\ phase[j] \in {"waiting", "held"}
    /\ token[j] < MaxGrants
    /\ MoveTo(j, "held")
    /\ token' = [token EXCEPT ![j] = token[j] + 1]
    /\ holder' = [holder EXCEPT ![j] = w]

GiveBack(j) ==
    /\ phase[j] = "held"
    /\ MoveTo(j, "waiting")
    /\ Free(j)
    /\ UNCHANGED token

\* By whatever caller: the token is not asked for here.
Settle(j, outcome) ==
    /\ phase[j] = "held"
    /\ MoveTo(j, outcome)
    /\ Free(j)
    /\ UNCHANGED token

AskToStop(j) ==
    /\ phase[j] = "held"
    /\ MoveTo(j, "stopping")
    /\ UNCHANGED <<token, holder>>

\* A holder that was never heard of again may still be named afterwards.
Stop(j) ==
    /\ phase[j] \in {"waiting", "stopping"}
    /\ MoveTo(j, "cancelled")
    /\ Free(j) \/ UNCHANGED holder
    /\ UNCHANGED token

\* One housekeeping pass over a set of jobs whose holders are lost.
Reap(lost) ==
    /\ \A j \in lost : phase[j] \in {"held", "stopping"}
    /\ \E result \in [lost -> {"waiting", "failed", "cancelled"}] :
          /\ \A j \in lost :
                /\ (phase[j] = "stopping") <=> (result[j] = "cancelled")
                /\ result[j] = "failed" <=> phase[j] = "held" /\ token[j] = MaxGrants
          /\ phase' = [j \in Jobs |-> IF j \in lost THEN result[j] ELSE phase[j]]
    /\ holder' = [j \in Jobs |-> IF j \in lost THEN NoWorker ELSE holder[j]]
    /\ UNCHANGED token

Next ==
    \/ \E j \in Jobs :
          \/ Accept(j)
          \/ \E w \in Workers : Grant(j, w)
          \/ GiveBack(j)
          \/ \E outcome \in {"succeeded", "failed"} : Settle(j, outcome)
          \/ AskToStop(j)
          \/ Stop(j)
    \/ \E lost \in SUBSET Jobs : lost # {} /\ Reap(lost)

Spec == Init /\ [][Next]_vars
=============================================================================
