------------------------- MODULE ConfirmationProofs -------------------------
(***************************************************************************)
(* Proofs about Confirmation, for any previews, contents, clicks and       *)
(* limit: a mail leaves once at most and as it was shown, its row says so, *)
(* the limit is overrun by concurrent turns alone and by one row for each  *)
(* at most, and the whole keeps the promise of OnceOnly.                   *)
(***************************************************************************)
EXTENDS Confirmation, FiniteSetTheorems, TLAPS

\* The claim is exclusive: a request that is inside works on a saving row,
\* alone.
Exclusive ==
    /\ \A q \in Requests : pc[q] \in Inside => status[item[q]] = "saving"
    /\ \A q, p \in Requests :
          pc[q] \in Inside /\ pc[p] \in Inside /\ item[q] = item[p] => q = p

\* What has been sent, told from the row and from the request inside.
Ledger ==
    /\ \A r \in Rows : status[r] = "absent" => sends[r] = 0
    /\ \A q \in Requests : pc[q] \in {"gather", "send"} => sends[item[q]] = 0
    /\ \A q \in Requests : pc[q] \in {"used", "complete"} => sends[item[q]] = 1

IInv == Exclusive /\ Ledger /\ SentAtMostOnce /\ StatusIsHonest

\* Every action keeps every column and every request in its domain.
THEOREM TypeCorrect == Spec => []TypeOK
<1> USE ConfirmationAssumption DEF TypeOK, Present, Inside, Goto, SetStatus, turnVars
<1>1. Init => TypeOK
  BY DEF Init
<1>2. ASSUME TypeOK, [Next]_vars PROVE TypeOK'
  <2>1. ASSUME NEW t \in Turns, NEW r \in Rows, Prepare(t, r) PROVE TypeOK'
    BY <1>2, <2>1 DEF Prepare, Voided, AdvanceTurn, requestVars
  <2>2. ASSUME NEW r \in Rows, Expires(r) PROVE TypeOK'
    BY <1>2, <2>2 DEF Expires, turnVars, requestVars
  <2>3. CASE List \/ \E t \in Turns : BeginPrepare(t)
    <3>1. Prune
      BY <2>3 DEF List, BeginPrepare
    <3>2. status' \in [Rows -> Present \cup {"absent", "pruned"}]
      BY <1>2, <3>1 DEF Prune, Prunable
    <3>3. madeBy' \in [Rows -> Turns \cup {NoTurn}]
      BY <1>2, <3>1 DEF Prune
    <3>4. ASSUME NEW r \in Rows
          PROVE  /\ digest'[r] = NoDigest <=> status'[r] = "absent"
                 /\ madeBy'[r] = NoTurn <=> status'[r] \notin Present
      BY <1>2, <3>1 DEF Prune, Prunable
    <3>5. /\ turn' \in [Turns -> {"idle", "pruned", "counted"}]
          /\ draft' = draft
          /\ \A t \in Turns : draft'[t] # NoDigest <=> turn'[t] = "counted"
      BY <1>2, <2>3 DEF List, BeginPrepare, AdvanceTurn
    <3>6. QED
      BY <1>2, <3>1, <3>2, <3>3, <3>4, <3>5 DEF Prune, requestVars
  <2>4. ASSUME NEW q \in Requests, NEW r \in Rows, NEW d \in Digests, ConfirmClick(q, r, d)
        PROVE  TypeOK'
    BY <1>2, <2>4 DEF ConfirmClick, rowVars
  <2>5. ASSUME NEW q \in Requests, NEW r \in Rows, CancelClick(q, r) PROVE TypeOK'
    BY <1>2, <2>5 DEF CancelClick, rowVars
  <2>6. ASSUME NEW q \in Requests, Serve(q) PROVE TypeOK'
    <3>1. pc[q] # "new" => item[q] \in Rows
      BY <1>2, <2>6
    <3>2. CASE ClaimRow(q)
      BY <1>2, <3>1, <3>2 DEF ClaimRow
    <3>3. CASE Refresh(q)
      BY <1>2, <3>3 DEF Refresh, rowVars
    <3>4. CASE Gather(q)
      BY <1>2, <3>4 DEF Gather, rowVars
    <3>5. CASE Send(q)
      BY <1>2, <3>1, <3>5 DEF Send, rowVars
    <3>6. CASE MarkUsed(q)
      BY <1>2, <3>6 DEF MarkUsed, rowVars
    <3>7. CASE Complete(q)
      BY <1>2, <3>1, <3>7 DEF Complete
    <3>8. CASE MarkUnknown(q)
      BY <1>2, <3>1, <3>8 DEF MarkUnknown
    <3>9. CASE CancelRow(q)
      BY <1>2, <3>1, <3>9 DEF CancelRow
    <3>10. QED
      BY <2>6, <3>2, <3>3, <3>4, <3>5, <3>6, <3>7, <3>8, <3>9 DEF Serve
  <2>7. ASSUME NEW q \in Requests, Crash(q) PROVE TypeOK'
    BY <1>2, <2>7 DEF Crash, rowVars
  <2>8. CASE UNCHANGED vars
    BY <1>2, <2>8 DEF vars, rowVars, requestVars
  <2>9. ASSUME NEW t \in Turns, NEW d \in Digests, CountRows(t, d) PROVE TypeOK'
    BY <1>2, <2>9 DEF CountRows, AdvanceTurn, rowVars, requestVars
  <2>10. ASSUME NEW t \in Turns, PrepareNothing(t) PROVE TypeOK'
    BY <1>2, <2>10 DEF PrepareNothing, rowVars, requestVars
  <2>11. QED
    BY <1>2, <2>1, <2>2, <2>3, <2>4, <2>5, <2>6, <2>7, <2>8, <2>9, <2>10 DEF Next
<1>3. QED
  BY <1>1, <1>2, PTL DEF Spec

\* One step of the turn, of any request, of the clock or a crash keeps IInv.
LEMMA LedgerStep ==
    ASSUME TypeOK, IInv, [Next]_vars
    PROVE  IInv'
<1> USE ConfirmationAssumption
    DEF TypeOK, Present, Inside, Goto, SetStatus, IInv, Exclusive, Ledger,
        SentAtMostOnce, StatusIsHonest
<1>1. ASSUME NEW t \in Turns, NEW r \in Rows, Prepare(t, r) PROVE IInv'
  BY <1>1 DEF Prepare, Voided, requestVars
<1>2. ASSUME NEW r \in Rows, Expires(r) PROVE IInv'
  BY <1>2 DEF Expires, requestVars
<1>3. CASE \/ List
           \/ \E t \in Turns : BeginPrepare(t) \/ PrepareNothing(t) \/ \E d \in Digests : CountRows(t, d)
  BY <1>3 DEF List, BeginPrepare, PrepareNothing, CountRows, Prune, Prunable, rowVars, requestVars
<1>4. ASSUME NEW q \in Requests, NEW r \in Rows, NEW d \in Digests, ConfirmClick(q, r, d)
      PROVE  IInv'
  BY <1>4 DEF ConfirmClick, rowVars
<1>5. ASSUME NEW q \in Requests, NEW r \in Rows, CancelClick(q, r) PROVE IInv'
  BY <1>5 DEF CancelClick, rowVars
<1>6. ASSUME NEW q \in Requests, Serve(q) PROVE IInv'
  <2>1. pc[q] # "new" => item[q] \in Rows
    BY <1>6
  <2>2. CASE ClaimRow(q)
    BY <2>1, <2>2 DEF ClaimRow
  <2>3. CASE Refresh(q)
    BY <2>3 DEF Refresh, rowVars
  <2>4. CASE Gather(q)
    BY <2>4 DEF Gather, rowVars
  <2>5. CASE Send(q)
    BY <2>1, <2>5 DEF Send, rowVars
  <2>6. CASE MarkUsed(q)
    BY <2>6 DEF MarkUsed, rowVars
  <2>7. CASE Complete(q)
    BY <2>1, <2>7 DEF Complete
  <2>8. CASE MarkUnknown(q)
    BY <2>1, <2>8 DEF MarkUnknown
  <2>9. CASE CancelRow(q)
    BY <2>1, <2>9 DEF CancelRow
  <2>10. QED
    BY <1>6, <2>2, <2>3, <2>4, <2>5, <2>6, <2>7, <2>8, <2>9 DEF Serve
<1>7. ASSUME NEW q \in Requests, Crash(q) PROVE IInv'
  BY <1>7 DEF Crash, rowVars
<1>8. CASE UNCHANGED vars
  BY <1>8 DEF vars, rowVars, requestVars
<1>9. QED
  BY <1>1, <1>2, <1>3, <1>4, <1>5, <1>6, <1>7, <1>8 DEF Next

\* MailSendTool.confirm: whatever the user clicks, however often, and wherever
\* the hub crashes, the mail of a preview leaves at most once.
THEOREM AtMostOnce == Spec => []SentAtMostOnce
<1>1. Init => IInv
  BY ConfirmationAssumption DEF Init, IInv, Exclusive, Ledger, Inside, SentAtMostOnce, StatusIsHonest
<1>2. IInv => SentAtMostOnce
  BY DEF IInv
<1>3. QED
  BY <1>1, <1>2, LedgerStep, TypeCorrect, PTL DEF Spec

\* The status the user is shown agrees with what was sent.
THEOREM Honest == Spec => []StatusIsHonest
<1>1. Init => IInv
  BY ConfirmationAssumption DEF Init, IInv, Exclusive, Ledger, Inside, SentAtMostOnce, StatusIsHonest
<1>2. IInv => StatusIsHonest
  BY DEF IInv
<1>3. QED
  BY <1>1, <1>2, LedgerStep, TypeCorrect, PTL DEF Spec

\* Nothing but the outcome ends a claim: a saving row is not pruned, not
\* cancelled and not put on offer again, whoever asks for it.
THEOREM ClaimKept == Spec => ClaimIsKept
<1>1. ASSUME TypeOK, IInv, [Next]_vars
      PROVE  [\A r \in Rows : status[r] = "saving" =>
                  status'[r] \in {"saving", "completed", "unknown_outcome"}]_vars
  <2> USE DEF TypeOK, Present, Inside, Goto, SetStatus, IInv, Exclusive
  <2> SUFFICES ASSUME NEW r \in Rows, status[r] = "saving", ~UNCHANGED vars
               PROVE  status'[r] \in {"saving", "completed", "unknown_outcome"}
    OBVIOUS
  <2>1. ASSUME NEW t \in Turns, NEW o \in Rows, Prepare(t, o)
        PROVE  status'[r] = "saving"
    BY <1>1, <2>1 DEF Prepare, Voided
  <2>2. CASE List \/ \E t \in Turns : BeginPrepare(t)
    BY <1>1, <2>2 DEF List, BeginPrepare, Prune, Prunable
  <2>3. ASSUME NEW q \in Requests, ClaimRow(q) PROVE status'[r] = "saving"
    BY <1>1, <2>3 DEF ClaimRow
  <2>4. ASSUME NEW q \in Requests, Complete(q)
        PROVE  status'[r] \in {"saving", "completed"}
    BY <1>1, <2>4 DEF Complete
  <2>5. ASSUME NEW q \in Requests, MarkUnknown(q)
        PROVE  status'[r] \in {"saving", "unknown_outcome"}
    BY <1>1, <2>5 DEF MarkUnknown
  <2>6. ASSUME NEW q \in Requests, CancelRow(q) PROVE status'[r] = "saving"
    BY <1>1, <2>6 DEF CancelRow
  <2>7. CASE UNCHANGED status
    BY <1>1, <2>7
  <2>8. QED
    BY <1>1, <2>1, <2>2, <2>3, <2>4, <2>5, <2>6, <2>7
       DEF Next, Serve, PrepareNothing, CountRows, Expires, ConfirmClick, CancelClick, Refresh, Gather, Send,
           MarkUsed, Crash, rowVars
<1>2. Init => IInv
  BY ConfirmationAssumption DEF Init, IInv, Exclusive, Ledger, Inside, SentAtMostOnce, StatusIsHonest
<1>3. QED
  BY <1>1, <1>2, LedgerStep, TypeCorrect, PTL DEF Spec, ClaimIsKept

-----------------------------------------------------------------------------
(* What the user saw, and how many previews there are.                     *)

\* A request that claims, or has claimed, a row does so for the content of
\* the row as the user's click named it.
ShownInv ==
    /\ SentAsShown
    /\ \A q \in Requests :
          pc[q] \in Inside \cup {"claim"} => <<item[q], digest[item[q]]>> \in clicked

\* The content of a preview never changes under the click that confirmed it.
LEMMA ClickedKept ==
    ASSUME TypeOK, [Next]_vars, NEW r \in Rows, <<r, digest[r]>> \in clicked
    PROVE  <<r, digest'[r]>> \in clicked'
<1>1. status[r] # "absent"
  BY ConfirmationAssumption DEF TypeOK, Present
<1>2. clicked \subseteq clicked'
  BY DEF Next, Serve, List, BeginPrepare, PrepareNothing, CountRows, Prune, Prepare, Expires, ConfirmClick,
         CancelClick, ClaimRow, Refresh, Gather, Send, MarkUsed, Complete, MarkUnknown, CancelRow,
         Crash, vars
<1>3. digest'[r] = digest[r]
  <2>1. ASSUME NEW t \in Turns, NEW o \in Rows, Prepare(t, o) PROVE digest'[r] = digest[r]
    BY <1>1, <2>1 DEF Prepare, TypeOK
  <2>2. CASE UNCHANGED digest
    BY <2>2
  <2>3. QED
    BY <2>1, <2>2
       DEF Next, Serve, List, BeginPrepare, PrepareNothing, CountRows, Prune, Expires, ConfirmClick,
           CancelClick, ClaimRow, Refresh, Gather, Send, MarkUsed, Complete, MarkUnknown, CancelRow,
           Crash, rowVars, vars
<1>4. QED
  BY <1>2, <1>3

LEMMA ShownStep ==
    ASSUME TypeOK, ShownInv, [Next]_vars
    PROVE  ShownInv'
<1> USE DEF TypeOK, ShownInv, Inside, Goto
<1>1. ASSUME NEW q \in Requests, pc'[q] \in Inside \cup {"claim"}
      PROVE  <<item'[q], digest'[item'[q]]>> \in clicked'
  <2>1. CASE pc[q] \in Inside \cup {"claim"}
    <3>1. item'[q] = item[q] /\ item[q] \in Rows
      BY <2>1 DEF Next, Serve, List, BeginPrepare, PrepareNothing, CountRows, Prune, Prepare, Expires,
         ConfirmClick, CancelClick, ClaimRow, Refresh, Gather, Send, MarkUsed, Complete, MarkUnknown,
         CancelRow, Crash, requestVars, vars
    <3>2. QED
      BY <2>1, <3>1, ClickedKept
  <2>2. CASE pc[q] \notin Inside \cup {"claim"}
    <3>1. PICK r \in Rows, d \in Digests : ConfirmClick(q, r, d) /\ pc'[q] = "claim"
      BY <1>1, <2>2 DEF Next, Serve, List, BeginPrepare, PrepareNothing, CountRows, Prune, Prepare, Expires,
         ConfirmClick, CancelClick, ClaimRow, Refresh, Gather, Send, MarkUsed, Complete, MarkUnknown,
         CancelRow, Crash, requestVars, vars
    <3>2. QED
      BY <3>1 DEF ConfirmClick, MayClaim, rowVars
  <2>3. QED
    BY <2>1, <2>2
<1>2. ASSUME NEW r \in Rows, sends'[r] > 0 PROVE <<r, digest'[r]>> \in clicked'
  <2>1. CASE sends[r] > 0
    BY <2>1, ClickedKept DEF SentAsShown
  <2>2. CASE ~(sends[r] > 0)
    <3>1. PICK q \in Requests : Send(q) /\ item[q] = r
      BY <1>2, <2>2 DEF Next, Serve, List, BeginPrepare, PrepareNothing, CountRows, Prune, Prepare, Expires,
         ConfirmClick, CancelClick, ClaimRow, Refresh, Gather, Send, MarkUsed, Complete, MarkUnknown,
         CancelRow, Crash, vars
    <3>2. QED
      BY <3>1, ClickedKept DEF Send
  <2>3. QED
    BY <2>1, <2>2
<1>3. QED
  BY <1>1, <1>2 DEF SentAsShown

\* MailSendTool.confirm sends the content the user saw when the click was
\* made, however long the request waits and whatever the turn prepares since.
THEOREM Shown == Spec => []SentAsShown
<1>1. Init => ShownInv
  BY ConfirmationAssumption DEF Init, ShownInv, SentAsShown, Inside
<1>2. ShownInv => SentAsShown
  BY DEF ShownInv
<1>3. QED
  BY <1>1, <1>2, ShownStep, TypeCorrect, PTL DEF Spec

OnOffer == {r \in Rows : status[r] \in Present}
Counted == {t \in Turns : turn[t] = "counted"}

\* Who has counted may still add a row, so he is charged with it already.
CountInv == Cardinality(OnOffer) + Cardinality(Counted) <= Limit - 1 + Cardinality(Turns)

LEMMA CountTypes ==
    /\ IsFiniteSet(OnOffer) /\ Cardinality(OnOffer) \in Nat
    /\ IsFiniteSet(Counted) /\ Cardinality(Counted) \in Nat
    /\ Cardinality(Counted) <= Cardinality(Turns) /\ Cardinality(Turns) \in Nat
  BY ConfirmationAssumption, FS_Subset, FS_CardinalityType DEF OnOffer, Counted

LEMMA CountStep ==
    ASSUME TypeOK, CountInv, [Next]_vars
    PROVE  CountInv'
<1> USE ConfirmationAssumption
<1>1. /\ Cardinality(OnOffer') \in Nat /\ IsFiniteSet(OnOffer')
      /\ Cardinality(Counted') \in Nat /\ IsFiniteSet(Counted')
      /\ Cardinality(Counted') <= Cardinality(Turns)
  BY FS_Subset, FS_CardinalityType DEF OnOffer, Counted
<1>2. ASSUME NEW t \in Turns, NEW r \in Rows, Prepare(t, r) PROVE CountInv'
  <2>1. OnOffer' \subseteq OnOffer \cup {r} /\ Counted' = Counted \ {t}
    BY <1>2 DEF Prepare, Voided, AdvanceTurn, OnOffer, Counted, Present, TypeOK
  <2>2. r \notin OnOffer /\ t \in Counted
    BY <1>2 DEF Prepare, AdvanceTurn, OnOffer, Counted, Present
  <2>3. IsFiniteSet(OnOffer \cup {r}) /\ Cardinality(OnOffer \cup {r}) = Cardinality(OnOffer) + 1
    BY <2>2, CountTypes, FS_AddElement
  <2>4. Cardinality(OnOffer') <= Cardinality(OnOffer \cup {r})
    BY <2>1, <2>3, FS_Subset
  <2>5. Cardinality(Counted') = Cardinality(Counted) - 1
    BY <2>1, <2>2, CountTypes, FS_RemoveElement
  <2>6. QED
    BY <1>1, <2>3, <2>4, <2>5, CountTypes DEF CountInv
<1>3. ASSUME OnOffer' \subseteq OnOffer, Counted' \subseteq Counted PROVE CountInv'
  <2>1. Cardinality(OnOffer') <= Cardinality(OnOffer) /\ Cardinality(Counted') <= Cardinality(Counted)
    BY <1>3, CountTypes, FS_Subset
  <2>2. QED
    BY <1>1, <2>1, CountTypes DEF CountInv
<1>4. ASSUME NEW t \in Turns, NEW d \in Digests, CountRows(t, d) PROVE CountInv'
  <2>1. OnOffer' = OnOffer /\ Cardinality(OnOffer) < Limit
    BY <1>4 DEF CountRows, HasRoom, OnOffer, rowVars
  <2>2. QED
    BY <1>1, <2>1, CountTypes DEF CountInv
<1>5. CASE List \/ \E t \in Turns : BeginPrepare(t) \/ PrepareNothing(t)
  <2>1. OnOffer' \subseteq OnOffer
    BY <1>5 DEF List, BeginPrepare, PrepareNothing, Prune, Prunable, OnOffer, Present, rowVars
  <2>2. Counted' \subseteq Counted
    BY <1>5 DEF List, BeginPrepare, PrepareNothing, AdvanceTurn, Counted, TypeOK, turnVars
  <2>3. QED
    BY <1>3, <2>1, <2>2
<1>6. ASSUME NEW q \in Requests, ClaimRow(q) \/ Complete(q) \/ MarkUnknown(q) \/ CancelRow(q)
      PROVE  CountInv'
  <2>1. OnOffer' \subseteq OnOffer /\ Counted' = Counted
    BY <1>6 DEF ClaimRow, Complete, MarkUnknown, CancelRow, SetStatus, OnOffer, Counted, Present,
       TypeOK, turnVars
  <2>2. QED
    BY <1>3, <2>1
<1>7. CASE UNCHANGED <<status, turn>>
  BY <1>3, <1>7 DEF OnOffer, Counted
<1>8. QED
  BY <1>2, <1>4, <1>5, <1>6, <1>7 DEF Next, Serve, Expires, ConfirmClick, CancelClick,
     Refresh, Gather, Send, MarkUsed, Crash, rowVars, turnVars, vars

\* prepare counts without a lock and inserts later: whatever is listed, claimed,
\* cancelled, expires or is prepared by others in between, each other turn in
\* prepare adds one row beyond the limit at most; a turn that is alone, none.
THEOREM OverrunBounded == Spec => []OverrunIsBounded
<1>1. Init => CountInv
  <2>1. ASSUME Init PROVE OnOffer = {} /\ Counted = {}
    BY <2>1 DEF Init, OnOffer, Counted, Present
  <2>2. QED
    BY <2>1, CountTypes, FS_EmptySet, ConfirmationAssumption DEF CountInv
<1>2. CountInv => OverrunIsBounded
  BY CountTypes, ConfirmationAssumption DEF CountInv, OverrunIsBounded, OnOffer
<1>3. QED
  BY <1>1, <1>2, CountStep, TypeCorrect, PTL DEF Spec

-----------------------------------------------------------------------------
(* Confirmed mutations implement OnceOnly: a preview is an occurrence.      *)

\* What its owner can read of a preview.  A pruned one tells nothing any more;
\* whether it was sent must stay as it is all the same.
Told(r) ==
    CASE status[r] = "completed" -> "yes"
      [] status[r] = "unknown_outcome" -> "maybe"
      [] status[r] = "cancelled" -> "no"
      [] status[r] = "pruned" -> IF sends[r] > 0 THEN "yes" ELSE "no"
      [] OTHER -> "open"

Once == INSTANCE OnceOnly WITH
    Occurrences <- Rows,
    sent <- {r \in Rows : sends[r] > 0},
    told <- [r \in Rows |-> Told(r)]

LEMMA ToldValues ==
    ASSUME NEW r \in Rows, TypeOK
    PROVE  /\ status[r] = "completed" => Told(r) = "yes"
           /\ status[r] = "unknown_outcome" => Told(r) = "maybe"
           /\ status[r] = "cancelled" => Told(r) = "no"
           /\ status[r] = "pruned" => Told(r) = IF sends[r] > 0 THEN "yes" ELSE "no"
           /\ status[r] \in {"absent", "pending", "saving"} => Told(r) = "open"
           /\ Told(r) \in Once!Answers
  BY DEF Told, TypeOK, Present, Once!Answers

\* A step that sends nothing and settles rows as their history allows.
LEMMA SettleStep ==
    ASSUME TypeOK, TypeOK', IInv, IInv', UNCHANGED sends,
           \A r \in Rows : \/ status'[r] = status[r]
                           \/ status[r] = "absent" /\ status'[r] = "pending"
                           \/ status[r] = "pending" /\ status'[r] \in {"saving", "cancelled"}
                           \/ status[r] = "saving" /\ status'[r] \in {"completed", "unknown_outcome"}
                           \/ status[r] \in Present \ {"saving"} /\ status'[r] = "pruned"
    PROVE  [Once!Next]_(Once!onceVars)
<1> DEFINE said == [r \in Rows |-> Told(r)]
           out == {r \in Rows : sends[r] > 0}
<1>1. out' = out /\ \A r \in Rows : sends[r] \in Nat
  BY DEF TypeOK
<1>2. ASSUME NEW r \in Rows
      PROVE  /\ status'[r] = "completed" => Told(r)' = "yes"
             /\ status'[r] = "unknown_outcome" => Told(r)' = "maybe"
             /\ status'[r] = "cancelled" => Told(r)' = "no"
             /\ status'[r] = "pruned" => Told(r)' = IF sends[r] > 0 THEN "yes" ELSE "no"
             /\ status'[r] \in {"absent", "pending", "saving"} => Told(r)' = "open"
             /\ Told(r)' \in Once!Answers
  BY DEF Told, TypeOK, Present, Once!Answers
<1>3. ASSUME NEW r \in Rows, Told(r)' # Told(r) PROVE Once!MayTell(r, Told(r)')
  <2>1. CASE status'[r] = status[r]
    BY <1>3, <2>1 DEF Told
  <2>2. CASE status[r] = "pending" /\ status'[r] = "cancelled"
    <3>1. sends[r] = 0
      BY <2>2 DEF IInv, StatusIsHonest
    <3> QED
      BY <1>2, <2>2, <3>1, ToldValues DEF Once!MayTell
  <2>3. CASE status[r] = "saving" /\ status'[r] = "completed"
    <3>1. sends[r] = 1
      BY <2>3 DEF IInv, StatusIsHonest
    <3> QED
      BY <1>2, <2>3, <3>1, ToldValues DEF Once!MayTell
  <2>4. CASE status[r] = "saving" /\ status'[r] = "unknown_outcome"
    BY <1>2, <2>4, ToldValues DEF Once!MayTell
  <2>5. CASE status[r] \in Present \ {"saving"} /\ status'[r] = "pruned"
    <3>1. /\ status[r] = "completed" => sends[r] = 1
          /\ status[r] \in {"pending", "cancelled"} => sends[r] = 0
      BY DEF IInv, StatusIsHonest
    <3>2. CASE status[r] \in {"completed", "cancelled"}
      BY <1>2, <1>3, <2>5, <3>1, <3>2, ToldValues
    <3>3. CASE status[r] \in {"pending", "unknown_outcome"}
      BY <1>1, <1>2, <2>5, <3>1, <3>3, ToldValues DEF Once!MayTell
    <3> QED
      BY <2>5, <3>2, <3>3 DEF Present
  <2>6. CASE \/ status[r] = "absent" /\ status'[r] = "pending"
             \/ status[r] = "pending" /\ status'[r] = "saving"
    BY <1>2, <1>3, <2>6, ToldValues
  <2> QED
    BY <2>1, <2>2, <2>3, <2>4, <2>5, <2>6
<1>4. said' \in [Rows -> Once!Answers]
  BY <1>2
<1>5. \A r \in Rows : said'[r] # said[r] => Once!MayTell(r, said'[r])
  BY <1>3
<1>6. Once!Tell
  BY <1>1, <1>4, <1>5 DEF Once!Tell
<1> QED
  BY <1>6 DEF Once!Next

\* The mail server accepts a mail: its row is saving, and was not sent yet.
LEMMA SendStep ==
    ASSUME TypeOK, IInv, NEW q \in Requests, Send(q), sends' # sends
    PROVE  [Once!Next]_(Once!onceVars)
<1> PICK r : r = item[q]
  OBVIOUS
<1>1. pc[q] = "send" /\ sends' = [sends EXCEPT ![r] = sends[r] + 1] /\ status' = status
  BY DEF Send, Goto, rowVars
<1>2. r \in Rows
  BY <1>1 DEF TypeOK
<1>3. status[r] = "saving" /\ sends[r] = 0
  BY <1>1 DEF IInv, Exclusive, Ledger, Inside
<1>4. Told(r) = "open"
  BY <1>2, <1>3, ToldValues
<1>5. [o \in Rows |-> Told(o)]' = [o \in Rows |-> Told(o)]
  <2>1. \A o \in Rows : o # r => sends'[o] = sends[o]
    BY <1>1 DEF TypeOK
  <2>2. \A o \in Rows : Told(o)' = Told(o)
    BY <1>1, <1>3, <2>1 DEF Told
  <2> QED
    BY <2>2
<1>6. {o \in Rows : sends[o] > 0}' = {o \in Rows : sends[o] > 0} \cup {r}
  BY <1>1, <1>2, <1>3 DEF TypeOK
<1>7. Once!Send(r)
  BY <1>3, <1>4, <1>5, <1>6, <1>2 DEF Once!Send
<1>8. \E o \in Rows : Once!Send(o)
  BY <1>2, <1>7
<1> QED
  BY <1>8 DEF Once!Next

\* Proposing, confirming, cancelling, expiring and pruning previews keep the
\* promise of OnceOnly: a mail is sent once at most, what its owner was told of
\* that stays true, and what was cancelled or pruned unsent is never sent later.
THEOREM ImplementsOnceOnly == Spec => Once!Spec
<1>1. Init => Once!Init
  <2> SUFFICES ASSUME Init PROVE Once!Init
    OBVIOUS
  <2>1. \A r \in Rows : sends[r] = 0 /\ Told(r) = "open"
    BY DEF Init, Told
  <2> QED
    BY <2>1 DEF Once!Init
<1>2. Init => IInv
  BY ConfirmationAssumption DEF Init, IInv, Exclusive, Ledger, Inside, SentAtMostOnce, StatusIsHonest
<1>3. ASSUME TypeOK, TypeOK', IInv, IInv', [Next]_vars PROVE [Once!Next]_(Once!onceVars)
  <2>1. CASE \E q \in Requests : Send(q) /\ sends' # sends
    BY <1>3, <2>1, SendStep
  <2>2. CASE ~ \E q \in Requests : Send(q) /\ sends' # sends
    <3>1. UNCHANGED sends
      BY <1>3, <2>2 DEF Next, Serve, List, BeginPrepare, Prune, PrepareNothing, CountRows, Prepare, Expires,
         ConfirmClick, CancelClick, ClaimRow, Refresh, Gather, MarkUsed, Complete, MarkUnknown,
         CancelRow, Crash, vars
    <3>2. ASSUME NEW r \in Rows
          PROVE  \/ status'[r] = status[r]
                 \/ status[r] = "absent" /\ status'[r] = "pending"
                 \/ status[r] = "pending" /\ status'[r] \in {"saving", "cancelled"}
                 \/ status[r] = "saving" /\ status'[r] \in {"completed", "unknown_outcome"}
                 \/ status[r] \in Present \ {"saving"} /\ status'[r] = "pruned"
      <4>1. ASSUME NEW t \in Turns, NEW o \in Rows, Prepare(t, o)
            PROVE  \/ status'[r] = status[r]
                   \/ status[r] = "absent" /\ status'[r] = "pending"
                   \/ status[r] = "pending" /\ status'[r] = "cancelled"
        BY <4>1 DEF Prepare, Voided
      <4>2. CASE List \/ \E t \in Turns : BeginPrepare(t)
        BY <4>2 DEF List, BeginPrepare, Prune, Prunable
      <4>3. ASSUME NEW q \in Requests, ClaimRow(q)
            PROVE  status'[r] = status[r] \/ (status[r] = "pending" /\ status'[r] = "saving")
        BY <1>3, <4>3 DEF ClaimRow, SetStatus, TypeOK
      <4>4. ASSUME NEW q \in Requests, Complete(q)
            PROVE  status'[r] = status[r] \/ (status[r] = "saving" /\ status'[r] = "completed")
        BY <1>3, <4>4 DEF Complete, TypeOK
      <4>5. ASSUME NEW q \in Requests, MarkUnknown(q)
            PROVE  status'[r] = status[r] \/ (status[r] = "saving" /\ status'[r] = "unknown_outcome")
        <5>1. status[item[q]] = "saving"
          BY <1>3, <4>5 DEF MarkUnknown, Goto, IInv, Exclusive, Inside
        <5> QED
          BY <1>3, <4>5, <5>1 DEF MarkUnknown, TypeOK
      <4>6. ASSUME NEW q \in Requests, CancelRow(q)
            PROVE  status'[r] = status[r] \/ (status[r] = "pending" /\ status'[r] = "cancelled")
        BY <1>3, <4>6 DEF CancelRow, TypeOK
      <4>7. CASE UNCHANGED status
        BY <4>7
      <4> QED
        BY <1>3, <4>1, <4>2, <4>3, <4>4, <4>5, <4>6, <4>7
           DEF Next, Serve, PrepareNothing, CountRows, Expires, ConfirmClick, CancelClick, Refresh, Gather,
               Send, MarkUsed, Crash, rowVars, vars
    <3> QED
      BY <1>3, <3>1, <3>2, SettleStep
  <2> QED
    BY <2>1, <2>2
<1>4. TypeOK /\ TypeOK' /\ IInv /\ IInv' /\ [Next]_vars => [Once!Next]_(Once!onceVars)
  BY <1>3
<1> QED
  BY <1>1, <1>2, <1>4, LedgerStep, TypeCorrect, PTL DEF Spec, Once!Spec
=============================================================================
