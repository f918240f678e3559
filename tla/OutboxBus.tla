------------------------------ MODULE OutboxBus ------------------------------
(***************************************************************************)
(* The event bus of server/app/bus: events and their outbox rows are       *)
(* written in one transaction, dispatcher processes claim batches of rows, *)
(* publish each of them to the consumers of its topic, and mark the row.   *)
(* Every action is one transaction, and the two statements of a marking    *)
(* transaction, which takes no lock when it reads, are two actions.        *)
(*                                                                         *)
(* A delivery is an outbox row, named by its id; leases and back-off are   *)
(* flags that say how a stored time stands to now.  attempts is compared   *)
(* with max_attempts only, so it saturates there.                          *)
(***************************************************************************)
EXTENDS Naturals, FiniteSets, Sequences

CONSTANTS
    Deliveries,    \* ids of outbox rows, drawn in the order of insertion
    EventOf,       \* the event of each row; one row for each of its topics
    Consumers,     \* consumer names
    Route,         \* the consumers subscribed to the topic of each row
    Conflicting,   \* consumers whose own writes may break a constraint
    Dispatchers,   \* lease_owner names; a restarted process has a new one
    NoDispatcher,  \* lease_owner IS NULL
    Mortal,        \* the dispatchers whose process may be killed
    Overlap,       \* may two dispatcher processes run at the same time?
    BatchSize,     \* batch_size
    MaxAttempts    \* max_attempts

ASSUME BusAssumption ==
    /\ Deliveries \subseteq Nat /\ IsFiniteSet(Deliveries)
    /\ Route \in [Deliveries -> Seq(Consumers)]
    /\ DOMAIN EventOf = Deliveries
    /\ Conflicting \subseteq Consumers
    /\ NoDispatcher \notin Dispatchers /\ Mortal \subseteq Dispatchers
    /\ Overlap \in BOOLEAN
    /\ BatchSize \in Nat \ {0} /\ MaxAttempts \in Nat \ {0}

Events == {EventOf[d] : d \in Deliveries}

VARIABLES
    row,          \* outbox.status; "absent" before the event was appended
    attempts,     \* outbox.attempts, up to MaxAttempts
    due,          \* outbox.available_at <= now
    lessee,       \* outbox.lease_owner
    lease,        \* outbox.lease_expires_at against now
    letters,      \* the rows dead_letter has an entry for
    inbox,        \* consumer_inbox: pairs of a consumer and an event
    effects,      \* committed runs of each consumer's handler per event
    pc,           \* where each dispatcher is in dispatch_once
    batch,        \* the claimed deliveries it has not finished with
    next,         \* index of the consumer it publishes to next
    seen          \* the attempts of the row it read

rowVars == <<row, attempts, due, lessee, lease, letters>>
consumerVars == <<inbox, effects>>
processVars == <<pc, batch, next, seen>>
vars == <<rowVars, consumerVars, processVars>>

\* The delivery w is publishing: the batch is worked through in its order.
Current(w) == CHOOSE d \in batch[w] : \A o \in batch[w] : d <= o

Busy == {"publish", "raised", "marking", "failing"}

RowsTyped ==
    /\ row \in [Deliveries -> {"absent", "pending", "sending", "dispatched", "dead"}]
    /\ attempts \in [Deliveries -> 0..MaxAttempts]
    /\ due \in [Deliveries -> BOOLEAN]
    /\ lessee \in [Deliveries -> Dispatchers \cup {NoDispatcher}]
    /\ lease \in [Deliveries -> {"none", "live", "expired"}]
    /\ letters \subseteq Deliveries

ConsumersTyped ==
    /\ inbox \subseteq Consumers \X Events
    /\ effects \in [Consumers \X Events -> Nat]

\* A dispatcher is at work while it has a batch, and publishes its current
\* delivery to one consumer of the topic or has published it to all.
ProcessTyped ==
    /\ pc \in [Dispatchers -> Busy \cup {"new", "poll", "dead"}]
    /\ batch \in [Dispatchers -> SUBSET Deliveries]
    /\ next \in [Dispatchers -> Nat]
    /\ seen \in [Dispatchers -> 0..MaxAttempts]
    /\ \A w \in Dispatchers :
          /\ pc[w] \in Busy <=> batch[w] # {}
          /\ pc[w] \in Busy => next[w] \in 1..(Len(Route[Current(w)]) + 1)

TypeOK == RowsTyped /\ ConsumersTyped /\ ProcessTyped

Init ==
    /\ row = [d \in Deliveries |-> "absent"]
    /\ attempts = [d \in Deliveries |-> 0]
    /\ due = [d \in Deliveries |-> TRUE]
    /\ lessee = [d \in Deliveries |-> NoDispatcher]
    /\ lease = [d \in Deliveries |-> "none"]
    /\ letters = {}
    /\ inbox = {}
    /\ effects = [p \in Consumers \X Events |-> 0]
    /\ pc = [w \in Dispatchers |-> "new"]
    /\ batch = [w \in Dispatchers |-> {}]
    /\ next = [w \in Dispatchers |-> 1]
    /\ seen = [w \in Dispatchers |-> 0]

-----------------------------------------------------------------------------
(* Appending and claiming.                                                 *)

\* append_event: the event and one row for each topic, or nothing when the
\* event_id exists.  Ids grow in the order in which events are accepted.
AppendEvent(e) ==
    /\ \A d \in Deliveries : EventOf[d] = e => row[d] = "absent"
    /\ \A d, o \in Deliveries :
          EventOf[d] = e /\ EventOf[o] # e /\ o < d => row[o] # "absent"
    /\ row' = [d \in Deliveries |-> IF EventOf[d] = e THEN "pending" ELSE row[d]]
    /\ UNCHANGED <<attempts, due, lessee, lease, letters, consumerVars, processVars>>

\* Mutant: rows whose dispatcher died are not taken over.
ClaimablePending(d) == row[d] = "pending" /\ due[d]

Claimable(d) ==
    \/ row[d] = "pending" /\ due[d]
    \/ row[d] = "sending" /\ lease[d] = "expired"

\* ORDER BY id LIMIT batch_size.
NextBatch ==
    LET open == {d \in Deliveries : Claimable(d)}
    IN  {d \in open : Cardinality({o \in open : o < d}) < BatchSize}

ClaimBatch(w) ==
    /\ pc[w] = "poll"
    /\ NextBatch # {}
    /\ row' = [d \in Deliveries |-> IF d \in NextBatch THEN "sending" ELSE row[d]]
    /\ attempts' = [d \in Deliveries |->
                      IF d \in NextBatch /\ attempts[d] < MaxAttempts
                      THEN attempts[d] + 1 ELSE attempts[d]]
    /\ lessee' = [d \in Deliveries |-> IF d \in NextBatch THEN w ELSE lessee[d]]
    /\ lease' = [d \in Deliveries |-> IF d \in NextBatch THEN "live" ELSE lease[d]]
    /\ pc' = [pc EXCEPT ![w] = "publish"]
    /\ batch' = [batch EXCEPT ![w] = NextBatch]
    /\ next' = [next EXCEPT ![w] = 1]
    /\ UNCHANGED <<due, letters, seen, consumerVars>>

Proceed(w) ==
    LET rest == batch[w] \ {Current(w)} IN
    /\ batch' = [batch EXCEPT ![w] = rest]
    /\ pc' = [pc EXCEPT ![w] = IF rest = {} THEN "poll" ELSE "publish"]
    /\ next' = [next EXCEPT ![w] = 1]
    /\ UNCHANGED seen

-----------------------------------------------------------------------------
(* Publishing: one transaction for each consumer of the topic.             *)

Advance(w) ==
    /\ next' = [next EXCEPT ![w] = next[w] + 1]
    /\ UNCHANGED <<pc, batch, seen>>

\* Mutant: the handler runs whether or not the inbox row could be inserted.
ConsumeAgain(w, c, e) ==
    /\ inbox' = inbox \cup {<<c, e>>}
    /\ effects' = [effects EXCEPT ![<<c, e>>] = effects[<<c, e>>] + 1]
    /\ Advance(w)

\* consume_event: the inbox row and the handler's writes commit together; a
\* second insert of the row is an IntegrityError, and so is a constraint the
\* handler itself breaks: both return to the publisher, nothing is kept.
ConsumeEvent(w, c, e) ==
    /\ \/ /\ <<c, e>> \notin inbox
          /\ inbox' = inbox \cup {<<c, e>>}
          /\ effects' = [effects EXCEPT ![<<c, e>>] = effects[<<c, e>>] + 1]
       \/ /\ <<c, e>> \in inbox \/ c \in Conflicting
          /\ UNCHANGED consumerVars
    /\ Advance(w)

\* Any other exception of the handler ends the publication.
HandlerRaises(w, c, e) ==
    /\ <<c, e>> \notin inbox
    /\ pc' = [pc EXCEPT ![w] = "raised"]
    /\ UNCHANGED <<consumerVars, batch, next, seen>>

ConsumerNow(w) == Route[Current(w)][next[w]]

Publish(w) ==
    /\ pc[w] = "publish"
    /\ next[w] <= Len(Route[Current(w)])
    /\ LET c == ConsumerNow(w)
           e == EventOf[Current(w)]
       IN  ConsumeEvent(w, c, e) \/ HandlerRaises(w, c, e)
    /\ UNCHANGED rowVars

\* Nobody is subscribed to the topic: LookupError.
NoRoute(w) ==
    /\ pc[w] = "publish"
    /\ Route[Current(w)] = <<>>
    /\ pc' = [pc EXCEPT ![w] = "raised"]
    /\ UNCHANGED <<rowVars, consumerVars, batch, next, seen>>

-----------------------------------------------------------------------------
(* Marking: read the row, then write it by primary key.                    *)

\* Mutant: a delivery is taken for published after its first consumer.
PublishedOne(w) == next[w] > 1

Published(w) == Route[Current(w)] # <<>> /\ next[w] > Len(Route[Current(w)])

OwnsLease(w) == lessee[Current(w)] = w

ReadRow(w) ==
    /\ \/ pc[w] = "raised"
       \/ pc[w] = "publish" /\ Published(w)
    /\ IF OwnsLease(w)
       THEN /\ pc' = [pc EXCEPT ![w] = IF pc[w] = "raised" THEN "failing" ELSE "marking"]
            /\ seen' = [seen EXCEPT ![w] = attempts[Current(w)]]
            /\ UNCHANGED <<batch, next>>
       ELSE Proceed(w)
    /\ UNCHANGED <<rowVars, consumerVars>>

\* Mutant: the lease is not cleared.
MarkKeepingLease(d, s) ==
    row' = [row EXCEPT ![d] = s] /\ UNCHANGED <<lessee, lease>>

Mark(d, s) ==
    /\ row' = [row EXCEPT ![d] = s]
    /\ lessee' = [lessee EXCEPT ![d] = NoDispatcher]
    /\ lease' = [lease EXCEPT ![d] = "none"]

MarkSuccess(w) ==
    /\ pc[w] = "marking"
    /\ Mark(Current(w), "dispatched")
    /\ Proceed(w)
    /\ UNCHANGED <<attempts, due, letters, consumerVars>>

MarkRetry(w) ==
    /\ pc[w] = "failing"
    /\ seen[w] < MaxAttempts
    /\ Mark(Current(w), "pending")
    /\ due' = [due EXCEPT ![Current(w)] = FALSE]
    /\ Proceed(w)
    /\ UNCHANGED <<attempts, letters, consumerVars>>

\* Mutant: the dead letter is not written.
MarkDeadSilently(w) ==
    /\ pc[w] = "failing"
    /\ seen[w] = MaxAttempts
    /\ Mark(Current(w), "dead")
    /\ Proceed(w)
    /\ UNCHANGED <<attempts, due, letters, consumerVars>>

MarkDead(w) ==
    /\ pc[w] = "failing"
    /\ seen[w] = MaxAttempts
    /\ Current(w) \notin letters
    /\ letters' = letters \cup {Current(w)}
    /\ Mark(Current(w), "dead")
    /\ Proceed(w)
    /\ UNCHANGED <<attempts, due, consumerVars>>

\* dead_letter.outbox_id is unique: the transaction rolls back and the
\* exception ends dispatch_once, with the rest of the batch still claimed.
AbortCycle(w) ==
    /\ pc[w] = "failing"
    /\ seen[w] = MaxAttempts
    /\ Current(w) \in letters
    /\ pc' = [pc EXCEPT ![w] = "poll"]
    /\ batch' = [batch EXCEPT ![w] = {}]
    /\ UNCHANGED <<rowVars, consumerVars, next, seen>>

-----------------------------------------------------------------------------
(* Processes and the clock.                                                *)

Start(w) ==
    /\ pc[w] = "new"
    /\ Overlap \/ \A o \in Dispatchers : pc[o] \in {"new", "dead"}
    /\ pc' = [pc EXCEPT ![w] = "poll"]
    /\ UNCHANGED <<rowVars, consumerVars, batch, next, seen>>

Kill(w) ==
    /\ w \in Mortal
    /\ pc[w] \notin {"new", "dead"}
    /\ pc' = [pc EXCEPT ![w] = "dead"]
    /\ batch' = [batch EXCEPT ![w] = {}]
    /\ UNCHANGED <<rowVars, consumerVars, next, seen>>

LeaseLapses(d) ==
    /\ lease[d] = "live"
    /\ lease' = [lease EXCEPT ![d] = "expired"]
    /\ UNCHANGED <<row, attempts, due, lessee, letters, consumerVars, processVars>>

BackoffElapses(d) ==
    /\ ~due[d]
    /\ due' = [due EXCEPT ![d] = TRUE]
    /\ UNCHANGED <<row, attempts, lessee, lease, letters, consumerVars, processVars>>

Dispatch(w) ==
    \/ Start(w) \/ ClaimBatch(w) \/ Publish(w) \/ NoRoute(w) \/ ReadRow(w)
    \/ MarkSuccess(w) \/ MarkRetry(w) \/ MarkDead(w) \/ AbortCycle(w)

Next ==
    \/ \E e \in Events : AppendEvent(e)
    \/ \E w \in Dispatchers : Dispatch(w) \/ Kill(w)
    \/ \E d \in Deliveries : LeaseLapses(d) \/ BackoffElapses(d)

Spec == Init /\ [][Next]_vars

\* Live dispatchers run (publish is bounded by its handlers), leases lapse
\* because nobody renews them, and a back-off ends.
Fairness ==
    /\ \A w \in Dispatchers : WF_vars(Dispatch(w))
    /\ \A d \in Deliveries : WF_vars(LeaseLapses(d)) /\ WF_vars(BackoffElapses(d))

FairSpec == Spec /\ Fairness

-----------------------------------------------------------------------------
(* Properties.                                                             *)

\* Effectively once: however often a delivery is claimed, published, taken
\* over or retried, each consumer's writes for an event are committed once,
\* together with its inbox row.
EffectivelyOnce ==
    \A c \in Consumers, e \in Events :
        effects[<<c, e>>] = IF <<c, e>> \in inbox THEN 1 ELSE 0

\* A delivery counts as dispatched only after every consumer of its topic has
\* consumed the event, whichever process published to which of them.
DispatchedWasConsumed ==
    \A d \in Deliveries : row[d] = "dispatched" =>
        \A i \in DOMAIN Route[d] : <<Route[d][i], EventOf[d]>> \in inbox

\* A row is in delivery exactly while it has a lease that can lapse: no
\* marking and no aborted cycle leaves one where nobody would claim it.
SendingIsReclaimable ==
    \A d \in Deliveries :
        /\ row[d] = "sending" <=> lessee[d] # NoDispatcher
        /\ row[d] = "sending" <=> lease[d] # "none"

\* Nothing is given up silently: a dead row has its dead letter, and had all
\* its attempts.
DeadIsAccounted ==
    \A d \in Deliveries : row[d] = "dead" => d \in letters /\ attempts[d] = MaxAttempts

\* Every appended delivery is dispatched or declared dead in the end.
EveryDeliverySettles ==
    \A d \in Deliveries : row[d] # "absent" ~> row[d] \in {"dispatched", "dead"}
=============================================================================
