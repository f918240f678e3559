---------------------------- MODULE DeviceCommand ----------------------------
(***************************************************************************)
(* DeviceCommandStore (server/app/devices/commands.py) and                 *)
(* DeviceCommandGateway (server/app/api/device_commands.py) against one    *)
(* device (desktop/src/client.ts): callers issue signed commands over a    *)
(* websocket and wait for their end, while answers, timers, cancellations, *)
(* reconnections and a restart of the hub come in between.  A command is   *)
(* named by its idempotency key.  One action per transaction or await: a   *)
(* commit, and what its coroutine does when it runs on, are two.           *)
(***************************************************************************)
EXTENDS Integers, Sequences, FiniteSets

CONSTANTS
    Commands,      \* idempotency keys
    Callers,       \* calls of issue, each followed by wait_for_terminal
    KeyOf,         \* the key each of them uses
    Cancellable,   \* the calls that may be cut off
    MaxConnections, \* connections that exist at one time
    MaxFaults,     \* bound: connections broken or replaced, and restarts
    None

Connections == 1..MaxConnections

ASSUME DeviceAssumption ==
    /\ KeyOf \in [Callers -> Commands]
    /\ MaxConnections \in Nat \ {0}
    /\ MaxFaults \in Nat
    /\ None \notin Callers

VARIABLES
    status,        \* device_command.status, "absent" before the insert
    sentAt,        \* sent_at is set
    offline,       \* its caller found no connection: it fails as device_offline
    pc,            \* where each caller is; "cut" and "mute" when it was cut off
    conn,          \* the connection it sent on
    event,         \* the event it waits on, named by the caller who made it
    answer,        \* what the call returned, "timeout" for a TimeoutError
    events,        \* _completion_events
    fired,         \* the events that are set
    timer,         \* the commands with a task in _timeout_tasks
    notify,        \* committed ends whose coroutine has not notified yet
    cancelling,    \* cancel frames: "no", "committed", "done" for each command
    socket,        \* state of each connection
    registered,    \* the one in _connections, 0 for none
    toDevice,      \* frames under way to the device
    toHub,         \* and to the hub
    running,       \* commands the device is executing
    withdrawn,     \* cancelledCommands of the device
    executed,      \* how often the device carried each command out
    overdue,       \* expires_at has passed
    faults         \* counted against MaxFaults

rowVars == <<status, sentAt, offline>>
callerVars == <<pc, conn, event, answer>>
gatewayVars == <<events, fired, timer, notify>>
socketVars == <<socket, registered, toDevice, toHub>>
deviceVars == <<running, withdrawn, executed>>
worldVars == <<cancelling, overdue, faults>>
vars == <<rowVars, callerVars, gatewayVars, socketVars, deviceVars, worldVars>>

Terminal == {"succeeded", "failed", "cancelled", "expired", "timed_out"}
Status == {"absent", "pending", "sent", "acknowledged"} \cup Terminal
ToDevice == {"execute", "cancel"} \X Commands
ToHub == {"ack", "succeeded", "failed"} \X Commands

TypeOK ==
    /\ status \in [Commands -> Status]
    /\ sentAt \in [Commands -> BOOLEAN]
    /\ offline \in [Commands -> BOOLEAN]
    /\ pc \in [Callers -> {"idle", "insert", "route", "mark", "timer", "fail",
                           "get", "join", "look", "wait", "read", "done", "cut", "mute", "dead"}]
    /\ conn \in [Callers -> 0..MaxConnections]
    /\ event \in [Callers -> Callers \cup {None}]
    /\ answer \in [Callers -> Status \cup {"none", "refused", "timeout"}]
    /\ events \in [Commands -> Callers \cup {None}]
    /\ fired \in SUBSET Callers
    /\ timer \in SUBSET Commands
    /\ notify \in SUBSET Commands
    /\ cancelling \in [Commands -> {"no", "committed", "done"}]
    /\ socket \in [Connections -> {"closed", "open", "broken"}]
    /\ registered \in 0..MaxConnections
    /\ toDevice \in [Connections -> Seq(ToDevice)]
    /\ toHub \in [Connections -> Seq(ToHub)]
    /\ running \in SUBSET Commands
    /\ withdrawn \in SUBSET Commands
    /\ executed \in [Commands -> Nat]
    /\ overdue \in SUBSET Commands
    /\ faults \in 0..MaxFaults

Init ==
    /\ status = [c \in Commands |-> "absent"]
    /\ sentAt = [c \in Commands |-> FALSE]
    /\ offline = [c \in Commands |-> FALSE]
    /\ pc = [p \in Callers |-> "idle"]
    /\ conn = [p \in Callers |-> 0]
    /\ event = [p \in Callers |-> None]
    /\ answer = [p \in Callers |-> "none"]
    /\ events = [c \in Commands |-> None]
    /\ fired = {}
    /\ timer = {}
    /\ notify = {}
    /\ cancelling = [c \in Commands |-> "no"]
    /\ socket = [n \in Connections |-> "closed"]
    /\ registered = 0
    /\ toDevice = [n \in Connections |-> <<>>]
    /\ toHub = [n \in Connections |-> <<>>]
    /\ running = {}
    /\ withdrawn = {}
    /\ executed = [c \in Commands |-> 0]
    /\ overdue = {}
    /\ faults = 0

-----------------------------------------------------------------------------
(* The store: conditional transitions of one row.                          *)

Open(c) == status[c] \in {"pending", "sent", "acknowledged"}

SetStatus(c, new) == status' = [status EXCEPT ![c] = new]

Lapsed(c) == IF sentAt[c] THEN "timed_out" ELSE "expired"

\* mark_timeout, which every read of a command goes through first.
AfterTimeout(c) == IF Open(c) /\ c \in overdue THEN Lapsed(c) ELSE status[c]

MarkTimeout(c) == SetStatus(c, AfterTimeout(c)) /\ UNCHANGED <<sentAt, offline>>

Goto(p, from, to) == pc[p] = from /\ pc' = [pc EXCEPT ![p] = to]

Return(p, from, value) ==
    /\ Goto(p, from, "done")
    /\ answer' = [answer EXCEPT ![p] = value]
    /\ event' = [event EXCEPT ![p] = None]
    /\ UNCHANGED conn

-----------------------------------------------------------------------------
(* issue: a row, a frame, a mark.                                          *)

Find(p) ==
    /\ Goto(p, "idle", IF status[KeyOf[p]] = "absent" THEN "insert" ELSE "get")
    /\ UNCHANGED <<rowVars, conn, event, answer, gatewayVars, socketVars, deviceVars, worldVars>>

\* Mutant: who loses the insert of a key goes on as if it had won.
InsertTwice(p) ==
    LET c == KeyOf[p] IN
    /\ Goto(p, "insert", "route")
    /\ SetStatus(c, IF status[c] = "absent" THEN "pending" ELSE status[c])
    /\ UNCHANGED <<sentAt, offline, conn, event, answer, gatewayVars, socketVars, deviceVars, worldVars>>

\* The unique key decides between two callers that both found nothing.
Insert(p) ==
    LET c == KeyOf[p]
        won == status[c] = "absent"
    IN
    /\ Goto(p, "insert", IF won THEN "route" ELSE "get")
    /\ SetStatus(c, IF won THEN "pending" ELSE status[c])
    /\ UNCHANGED <<sentAt, offline, conn, event, answer, gatewayVars, socketVars, deviceVars, worldVars>>

\* The device was revoked.
RefuseDevice(p) ==
    /\ Return(p, "insert", "refused")
    /\ UNCHANGED <<rowVars, gatewayVars, socketVars, deviceVars, worldVars>>

Disconnect(n) == registered' = IF registered = n THEN 0 ELSE registered

\* The capability, the connection, and the frame, sent without an await.  What
\* is sent on a broken connection is lost, or raises.
SendExecute(p) ==
    LET n == registered IN
    /\ n # 0
    /\ Goto(p, "route", "mark")
    /\ conn' = [conn EXCEPT ![p] = n]
    /\ toDevice' = [toDevice EXCEPT ![n] =
                       IF socket[n] = "open" THEN Append(@, <<"execute", KeyOf[p]>>) ELSE @]
    /\ UNCHANGED <<rowVars, event, answer, gatewayVars, socket, registered, toHub,
                   deviceVars, worldVars>>

SendRaises(p) ==
    /\ registered # 0
    /\ socket[registered] # "open"
    /\ Goto(p, "route", "fail")
    /\ registered' = 0
    /\ UNCHANGED <<rowVars, conn, event, answer, gatewayVars, socket, toDevice, toHub,
                   deviceVars, worldVars>>

\* No capability.
NotCapable(p) ==
    /\ Goto(p, "route", "fail")
    /\ UNCHANGED <<rowVars, conn, event, answer, gatewayVars, socketVars, deviceVars, worldVars>>

NoConnection(p) ==
    /\ registered = 0
    /\ Goto(p, "route", "fail")
    /\ offline' = [offline EXCEPT ![KeyOf[p]] = TRUE]
    /\ UNCHANGED <<status, sentAt, conn, event, answer, gatewayVars, socketVars,
                   deviceVars, worldVars>>

MarkSent(p) ==
    LET c == KeyOf[p] IN
    /\ Goto(p, "mark", "timer")
    /\ status[c] = "pending"
    /\ SetStatus(c, IF c \in overdue THEN "expired" ELSE "sent")
    /\ sentAt' = [sentAt EXCEPT ![c] = c \notin overdue]
    /\ conn' = [conn EXCEPT ![p] = 0]
    /\ UNCHANGED <<offline, event, answer, gatewayVars, socketVars, deviceVars, worldVars>>

\* The row is no longer pending: the conflict is handled as a lost connection.
MarkConflicts(p) ==
    /\ Goto(p, "mark", "fail")
    /\ status[KeyOf[p]] # "pending"
    /\ Disconnect(conn[p])
    /\ conn' = [conn EXCEPT ![p] = 0]
    /\ UNCHANGED <<rowVars, event, answer, gatewayVars, socket, toDevice, toHub,
                   deviceVars, worldVars>>

\* Mutant: no timer for a command that was sent.
ForgetTimer(p) ==
    /\ Goto(p, "timer", "get")
    /\ UNCHANGED <<rowVars, conn, event, answer, gatewayVars, socketVars, deviceVars, worldVars>>

ScheduleTimeout(p) ==
    /\ Goto(p, "timer", "get")
    /\ timer' = timer \cup {KeyOf[p]}
    /\ UNCHANGED <<rowVars, conn, event, answer, events, fired, notify, socketVars,
                   deviceVars, worldVars>>

\* Mutant: a delivery that failed overwrites whatever came first.
FailWhateverStatus(p) ==
    LET c == KeyOf[p] IN
    /\ SetStatus(c, "failed")
    /\ Return(p, "fail", "failed")
    /\ notify' = notify \cup {c}
    /\ UNCHANGED <<sentAt, offline, events, fired, timer, socketVars, deviceVars, worldVars>>

FailDelivery(p) ==
    LET c == KeyOf[p]
        new == IF Open(c) THEN "failed" ELSE status[c]
    IN
    /\ SetStatus(c, new)
    /\ Return(p, "fail", new)
    /\ notify' = notify \cup {c}
    /\ UNCHANGED <<sentAt, offline, events, fired, timer, socketVars, deviceVars, worldVars>>

-----------------------------------------------------------------------------
(* wait_for_terminal: look, join the event, look again, wait, read.        *)

Get(p) ==
    LET c == KeyOf[p] IN
    /\ MarkTimeout(c)
    /\ \/ AfterTimeout(c) \in Terminal /\ Return(p, "get", AfterTimeout(c))
       \/ AfterTimeout(c) \notin Terminal /\ Goto(p, "get", "join")
          /\ UNCHANGED <<conn, event, answer>>
    /\ UNCHANGED <<gatewayVars, socketVars, deviceVars, worldVars>>

Join(p) ==
    LET c == KeyOf[p]
        e == IF events[c] = None THEN p ELSE events[c]
    IN
    /\ Goto(p, "join", "look")
    /\ events' = [events EXCEPT ![c] = e]
    /\ event' = [event EXCEPT ![p] = e]
    /\ UNCHANGED <<rowVars, conn, answer, fired, timer, notify, socketVars, deviceVars, worldVars>>

\* Mutant: the second look is left out.
LookAway(p) ==
    /\ Goto(p, "look", "wait")
    /\ UNCHANGED <<rowVars, conn, event, answer, gatewayVars, socketVars, deviceVars, worldVars>>

LookAgain(p) ==
    LET c == KeyOf[p] IN
    /\ Goto(p, "look", "wait")
    /\ MarkTimeout(c)
    /\ fired' = IF AfterTimeout(c) \in Terminal THEN fired \cup {event[p]} ELSE fired
    /\ UNCHANGED <<conn, event, answer, events, timer, notify, socketVars, deviceVars, worldVars>>

PopEvent(p) ==
    events' = [events EXCEPT ![KeyOf[p]] = IF @ = event[p] THEN None ELSE @]

Wake(p) ==
    /\ event[p] \in fired
    /\ Goto(p, "wait", "read")
    /\ PopEvent(p)
    /\ UNCHANGED <<rowVars, conn, event, answer, fired, timer, notify, socketVars,
                   deviceVars, worldVars>>

\* Callers wait one second longer than the command lives: by then its timer has
\* fired, and whoever ended it has notified.
WaitTimesOut(p) ==
    LET c == KeyOf[p] IN
    /\ c \in overdue \ (timer \cup notify)
    /\ cancelling[c] # "committed"
    /\ event[p] \notin fired
    /\ Return(p, "wait", "timeout")
    /\ PopEvent(p)
    /\ UNCHANGED <<rowVars, fired, timer, notify, socketVars, deviceVars, worldVars>>

Read(p) ==
    LET c == KeyOf[p] IN
    /\ MarkTimeout(c)
    /\ Return(p, "read", AfterTimeout(c))
    /\ UNCHANGED <<gatewayVars, socketVars, deviceVars, worldVars>>

\* The task of a call is cancelled while it awaits (a timeout around the tool,
\* the end of its run; except Exception does not catch it), or get_device
\* raises: nothing that would come next happens, but a waiter gives up its
\* event.
CutOff(p) ==
    /\ p \in Cancellable
    /\ pc[p] \notin {"idle", "done", "cut", "mute", "dead"}
    /\ pc' = [pc EXCEPT ![p] = "cut"]
    /\ conn' = [conn EXCEPT ![p] = 0]
    /\ event' = [event EXCEPT ![p] = None]
    /\ IF pc[p] = "wait" THEN PopEvent(p) ELSE UNCHANGED events
    /\ UNCHANGED <<rowVars, answer, fired, timer, notify, socketVars, deviceVars, worldVars>>

\* Or between the commit of a failed delivery and its notification.
CutOffMute(p) ==
    LET c == KeyOf[p] IN
    /\ p \in Cancellable
    /\ Goto(p, "fail", "mute")
    /\ SetStatus(c, IF Open(c) THEN "failed" ELSE status[c])
    /\ UNCHANGED <<sentAt, offline, conn, event, answer, gatewayVars, socketVars,
                   deviceVars, worldVars>>

CallerStep(p) ==
    \/ Find(p) \/ Insert(p) \/ RefuseDevice(p)
    \/ SendExecute(p) \/ SendRaises(p) \/ NotCapable(p) \/ NoConnection(p)
    \/ MarkSent(p) \/ MarkConflicts(p) \/ ScheduleTimeout(p) \/ FailDelivery(p)
    \/ Get(p) \/ Join(p) \/ LookAgain(p) \/ Wake(p) \/ WaitTimesOut(p) \/ Read(p)

-----------------------------------------------------------------------------
(* Ends that come from elsewhere.                                          *)

\* _cancel_timeout, _notify_terminal.
Announce(c) ==
    /\ timer' = timer \ {c}
    /\ fired' = IF events[c] = None THEN fired ELSE fired \cup {events[c]}

\* The coroutine behind a committed end runs on.
Notify(c) ==
    /\ c \in notify
    /\ notify' = notify \ {c}
    /\ Announce(c)
    /\ UNCHANGED <<rowVars, callerVars, events, socketVars, deviceVars, worldVars>>

\* _expire_after.
TimerFires(c) ==
    /\ c \in timer \cap overdue
    /\ MarkTimeout(c)
    /\ timer' = timer \ {c}
    /\ notify' = notify \cup {c}
    /\ UNCHANGED <<callerVars, events, fired, socketVars, deviceVars, worldVars>>

\* The detail page and the list of the admin.
AdminReads(c) ==
    /\ Open(c)
    /\ MarkTimeout(c)
    /\ UNCHANGED <<callerVars, gatewayVars, socketVars, deviceVars, worldVars>>

CancelCommand(c) ==
    /\ status[c] # "absent"
    /\ cancelling[c] = "no"          \* bound: one click for each command
    /\ cancelling' = [cancelling EXCEPT ![c] = IF Open(c) THEN "committed" ELSE "done"]
    /\ SetStatus(c, IF Open(c) THEN "cancelled" ELSE status[c])
    /\ notify' = IF Open(c) THEN notify ELSE notify \cup {c}
    /\ UNCHANGED <<sentAt, offline, callerVars, events, fired, timer, socketVars, deviceVars,
                   overdue, faults>>

\* The cancellation runs on: it notifies, and tells the device.
SendCancel(c) ==
    /\ cancelling[c] = "committed"
    /\ cancelling' = [cancelling EXCEPT ![c] = "done"]
    /\ Announce(c)
    /\ toDevice' = IF registered # 0 /\ socket[registered] = "open"
                   THEN [toDevice EXCEPT ![registered] = Append(@, <<"cancel", c>>)]
                   ELSE toDevice
    /\ UNCHANGED <<rowVars, callerVars, events, notify, socket, registered, toHub, deviceVars,
                   overdue, faults>>

\* acknowledge, from the read loop of a connection.
HandleAck(c) ==
    /\ SetStatus(c, IF status[c] # "sent" THEN status[c]
                    ELSE IF c \in overdue THEN Lapsed(c) ELSE "acknowledged")
    /\ UNCHANGED <<sentAt, offline, notify>>

\* complete: on a row that is still pending it raises, and the result is lost.
HandleResult(c, outcome) ==
    /\ SetStatus(c, IF ~Open(c) THEN status[c]
                    ELSE IF c \in overdue THEN Lapsed(c)
                    ELSE IF status[c] = "pending" THEN "pending" ELSE outcome)
    /\ notify' = IF status[c] = "pending" /\ c \notin overdue THEN notify ELSE notify \cup {c}
    /\ UNCHANGED <<sentAt, offline>>

\* What was received is read to the end, or dropped with the connection.
HandleFrame(n) ==
    /\ socket[n] \in {"open", "broken"}
    /\ toHub[n] # <<>>
    /\ LET frame == Head(toHub[n]) IN
       IF frame[1] = "ack" THEN HandleAck(frame[2]) ELSE HandleResult(frame[2], frame[1])
    /\ toHub' = [toHub EXCEPT ![n] = Tail(@)]
    /\ UNCHANGED <<callerVars, events, fired, timer, socket, registered, toDevice,
                   deviceVars, worldVars>>

-----------------------------------------------------------------------------
(* The device, and its connection.                                         *)

Reply(frames) ==
    toHub' = [n \in Connections |-> IF socket[n] = "open" THEN toHub[n] \o frames ELSE toHub[n]]

Take(n) ==
    /\ socket[n] = "open"
    /\ toDevice[n] # <<>>
    /\ toDevice' = [toDevice EXCEPT ![n] = Tail(@)]

TakeCancel(n) ==
    /\ Take(n)
    /\ Head(toDevice[n])[1] = "cancel"
    /\ withdrawn' = withdrawn \cup {Head(toDevice[n])[2]}
    /\ UNCHANGED <<rowVars, callerVars, gatewayVars, socket, registered, toHub,
                   running, executed, worldVars>>

BeginExecute(n) ==
    LET c == Head(toDevice[n])[2] IN
    /\ Take(n)
    /\ Head(toDevice[n])[1] = "execute"
    /\ c \notin withdrawn
    /\ running' = running \cup {c}
    /\ Reply(<< <<"ack", c>> >>)
    /\ UNCHANGED <<rowVars, callerVars, gatewayVars, socket, registered,
                   withdrawn, executed, worldVars>>

\* Expired by the clock of the device, which then sends no ack; or withdrawn,
\* not permitted, or with arguments it refuses.
RefuseExecute(n) ==
    LET c == Head(toDevice[n])[2] IN
    /\ Take(n)
    /\ Head(toDevice[n])[1] = "execute"
    /\ \/ Reply(<< <<"failed", c>> >>)
       \/ Reply(<< <<"ack", c>>, <<"failed", c>> >>)
    /\ UNCHANGED <<rowVars, callerVars, gatewayVars, socket, registered,
                   deviceVars, worldVars>>

\* A result is sent on the socket of the moment, and lost when there is none.
Execute(c) ==
    /\ c \in running
    /\ running' = running \ {c}
    /\ executed' = [executed EXCEPT ![c] = @ + 1]
    /\ \E outcome \in {"succeeded", "failed"} : Reply(<< <<outcome, c>> >>)
    /\ UNCHANGED <<rowVars, callerVars, gatewayVars, socket, registered, toDevice,
                   withdrawn, worldVars>>

\* connect: a newer connection replaces the older one and closes it.  A number
\* is used again when nobody holds the connection that had it.
Connect(n) ==
    /\ socket[n] = "closed"
    /\ \A p \in Callers : conn[p] # n
    /\ socket' = [m \in Connections |-> IF m = n THEN "open"
                                        ELSE IF socket[m] = "open" THEN "broken" ELSE socket[m]]
    /\ registered' = n
    /\ toDevice' = [m \in Connections |-> <<>>]
    /\ faults' = IF \E m \in Connections : socket[m] = "open" THEN faults + 1 ELSE faults
    /\ faults' <= MaxFaults
    /\ UNCHANGED <<rowVars, callerVars, gatewayVars, toHub, deviceVars, cancelling, overdue>>

SocketBreaks(n) ==
    /\ socket[n] = "open"
    /\ socket' = [socket EXCEPT ![n] = "broken"]
    /\ faults < MaxFaults
    /\ faults' = faults + 1
    /\ toDevice' = [toDevice EXCEPT ![n] = <<>>]
    /\ UNCHANGED <<rowVars, callerVars, gatewayVars, registered, toHub, deviceVars,
                   cancelling, overdue>>

\* The read loop ends, and disconnects the connection it belongs to.
NoticeClosed(n) ==
    /\ socket[n] = "broken"
    /\ socket' = [socket EXCEPT ![n] = "closed"]
    /\ toHub' = [toHub EXCEPT ![n] = <<>>]
    /\ Disconnect(n)
    /\ UNCHANGED <<rowVars, callerVars, gatewayVars, toDevice, deviceVars, worldVars>>

Expire(c) ==
    /\ Open(c)
    /\ c \notin overdue
    /\ overdue' = overdue \cup {c}
    /\ UNCHANGED <<rowVars, callerVars, gatewayVars, socketVars, deviceVars, cancelling, faults>>

\* The hub dies with its memory and comes back; the rows and the device stay.
Restart ==
    /\ faults < MaxFaults
    /\ faults' = faults + 1
    /\ pc' = [p \in Callers |-> IF pc[p] \in {"idle", "done", "cut", "mute"} THEN pc[p] ELSE "dead"]
    /\ conn' = [p \in Callers |-> 0]
    /\ event' = [p \in Callers |-> None]
    /\ events' = [c \in Commands |-> None]
    /\ fired' = {}
    /\ timer' = {}
    /\ notify' = {}
    /\ cancelling' = [c \in Commands |-> IF cancelling[c] = "committed" THEN "done" ELSE cancelling[c]]
    /\ socket' = [n \in Connections |-> "closed"]
    /\ registered' = 0
    /\ toDevice' = [n \in Connections |-> <<>>]
    /\ toHub' = [n \in Connections |-> <<>>]
    /\ UNCHANGED <<rowVars, answer, deviceVars, overdue>>

Next ==
    \/ \E p \in Callers : CallerStep(p) \/ CutOff(p) \/ CutOffMute(p)
    \/ \E c \in Commands : \/ Notify(c) \/ TimerFires(c) \/ AdminReads(c) \/ CancelCommand(c)
                           \/ SendCancel(c) \/ Execute(c) \/ Expire(c)
    \/ \E n \in Connections : \/ HandleFrame(n) \/ TakeCancel(n) \/ BeginExecute(n)
                              \/ RefuseExecute(n) \/ Connect(n) \/ SocketBreaks(n)
                              \/ NoticeClosed(n)
    \/ Restart

Spec == Init /\ [][Next]_vars

HubStep ==
    \/ \E p \in Callers : pc[p] # "idle" /\ CallerStep(p)
    \/ \E c \in Commands : Notify(c) \/ TimerFires(c) \/ SendCancel(c)

\* The event loop runs what is ready, and commands expire.
FairSpec == Spec /\ WF_vars(HubStep) /\ WF_vars(\E c \in Commands : Expire(c))

-----------------------------------------------------------------------------
(* Properties.                                                             *)

\* A command is carried out at most once, whoever asks for its key, however
\* often the device reconnects and the hub restarts.
ExecutedAtMostOnce == \A c \in Commands : executed[c] <= 1

\* A command that succeeded was carried out, and one that failed because the
\* device was offline was not.
StatusIsHonest ==
    \A c \in Commands :
        /\ status[c] = "succeeded" => executed[c] > 0
        /\ offline[c] => executed[c] = 0

\* Callers of one key are told the same end, and it stays the end: a late
\* result, failure, cancellation or timeout never changes it.
AnswersAgree ==
    \A p, q \in Callers :
        KeyOf[p] = KeyOf[q] /\ {answer[p], answer[q]} \cap {"none", "refused", "timeout"} = {}
            => answer[p] = answer[q] /\ answer[p] = status[KeyOf[p]] /\ answer[p] \in Terminal

\* A caller whose event the gateway still holds does not time out on a command
\* that was answered, cancelled or could not be delivered: the notification is
\* not lost between its looks.  Only a call that was cut off before it notified
\* loses one.  (Of several waiters of one event, the first that times out or is
\* cancelled takes the event away, and the others may miss a later end.)
NoLostWakeup ==
    [][\A p \in Callers :
           answer[p] = "none" /\ answer'[p] = "timeout" /\ events[KeyOf[p]] = event[p] =>
               \/ status[KeyOf[p]] \notin {"succeeded", "failed", "cancelled"}
               \/ status[KeyOf[p]] = "failed"
                  /\ \E q \in Callers : pc[q] = "mute" /\ KeyOf[q] = KeyOf[p]]_vars

\* Nothing ends the command of a call that was cut off before it set the timer,
\* unless somebody reads it.
Abandoned(p) == pc[p] = "cut" /\ KeyOf[p] \notin timer

\* Any other command of a hub that stays alive comes to an end, also when the
\* device is gone, nobody reads it, and its caller is cut off later.
EveryCommandEnds ==
    \A p \in Callers :
        pc[p] = "route" ~> status[KeyOf[p]] \in Terminal \/ pc[p] = "dead" \/ Abandoned(p)

\* A command fails as device_offline only while the device has no connection
\* (docs/05-工具与感知.md:111: it fails when the device is offline).  A mark that
\* conflicts with a cancellation is taken for a lost connection.
OfflineMeansDisconnected ==
    [][\A c \in Commands :
           ~offline[c] /\ offline'[c] => \A n \in Connections : socket[n] # "open"]_vars
=============================================================================
