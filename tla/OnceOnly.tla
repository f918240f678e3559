------------------------------- MODULE OnceOnly -------------------------------
(***************************************************************************)
(* What a bounded delivery promises its owner, occurrence by occurrence:   *)
(* it is sent at most once; "yes" is only said of an occurrence that was   *)
(* sent; "no" is a promise about the future too, nothing is sent after it; *)
(* "maybe" may still be settled either way, "yes" and "no" are final.      *)
(***************************************************************************)
CONSTANT Occurrences

VARIABLES sent,    \* the occurrences that reached a channel
          told     \* what the outcome says of each occurrence

onceVars == <<sent, told>>

Init ==
    /\ sent = {}
    /\ told = [k \in Occurrences |-> "open"]

Send(k) ==
    /\ k \notin sent
    /\ told[k] \in {"open", "maybe"}
    /\ sent' = sent \cup {k}
    /\ UNCHANGED told

Answers == {"open", "no", "maybe", "yes"}

MayTell(k, answer) ==
    \/ answer = "no" /\ told[k] \in {"open", "maybe"} /\ k \notin sent
    \/ answer = "maybe" /\ told[k] = "open"
    \/ answer = "yes" /\ told[k] \in {"open", "maybe"} /\ k \in sent

\* One transaction may settle several occurrences.
Tell ==
    /\ told' \in [Occurrences -> Answers]
    /\ \A k \in Occurrences : told'[k] # told[k] => MayTell(k, told'[k])
    /\ UNCHANGED sent

Next == Tell \/ \E k \in Occurrences : Send(k)

Spec == Init /\ [][Next]_onceVars
=============================================================================
