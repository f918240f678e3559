-------------------------- MODULE DeviceCommandProofs --------------------------
(***************************************************************************)
(* For any commands, callers and connections, and any number of faults: a  *)
(* command is carried out once at most, its status is true, all who ask    *)
(* for it are told the same end, nobody who waits is forgotten when it     *)
(* comes, and the whole keeps the promise of OnceOnly.                     *)
(***************************************************************************)
EXTENDS DeviceCommand, TLAPS

Place == {"idle", "insert", "route", "mark", "timer", "fail", "get", "join", "look", "wait",
          "read", "done", "cut", "mute", "dead"}
Answer == Status \cup {"none", "refused", "timeout"}

\* TypeOK, its sets of strings by name.
Typed ==
    /\ status \in [Commands -> Status]
    /\ sentAt \in [Commands -> BOOLEAN]
    /\ offline \in [Commands -> BOOLEAN]
    /\ pc \in [Callers -> Place]
    /\ conn \in [Callers -> 0..MaxConnections]
    /\ event \in [Callers -> Callers \cup {None}]
    /\ answer \in [Callers -> Answer]
    /\ events \in [Commands -> Callers \cup {None}]
    /\ fired \in SUBSET Callers
    /\ timer \in SUBSET Commands
    /\ notify \in SUBSET Commands
    /\ cancelling \in [Commands -> {"no", "committed", "done"}]
    /\ socket \in [Connections -> {"closed", "open", "broken"}]
    /\ registered \in 0..MaxConnections
    /\ toDevice \in [Connections -> Seq(ToDevice)]
    /\ toHub \in [Connections -> Seq(ToHub)]
    /\ running \in SUBSET Commands
    /\ withdrawn \in SUBSET Commands
    /\ executed \in [Commands -> Nat]
    /\ overdue \in SUBSET Commands
    /\ faults \in 0..MaxFaults

-----------------------------------------------------------------------------
(* Who may still have a command carried out: one caller that has not sent  *)
(* it, one frame on its way, or the device that is at it.                  *)

IsFrame(n, k, c) == k \in 1..Len(toDevice[n]) /\ toDevice[n][k] = <<"execute", c>>

\* Nothing was done for c yet, and nobody was told that it cannot be.
Free(c) == c \notin running /\ executed[c] = 0 /\ ~offline[c]

FrameOK(c) ==
    \A n \in Connections, k \in Nat :
        IsFrame(n, k, c) =>
            /\ Free(c) /\ status[c] # "absent"
            /\ \A m \in Connections, l \in Nat : IsFrame(m, l, c) => m = n /\ l = k

RouteOK(p) ==
    pc[p] = "route" =>
        /\ Free(KeyOf[p]) /\ status[KeyOf[p]] # "absent"
        /\ \A n \in Connections, k \in Nat : ~ IsFrame(n, k, KeyOf[p])
        /\ \A q \in Callers : pc[q] = "route" /\ KeyOf[q] = KeyOf[p] => q = p

DeviceOK(c) ==
    /\ executed[c] \in {0, 1}
    /\ c \in running => executed[c] = 0
    /\ offline[c] => c \notin running /\ executed[c] = 0
    /\ ~ Free(c) => status[c] # "absent"
    /\ status[c] = "succeeded" => executed[c] = 1

\* A frame to the hub is of a command it knows, and a success is true.
ReplyOK(n) ==
    \A k \in 1..Len(toHub[n]) :
        /\ status[toHub[n][k][2]] # "absent"
        /\ toHub[n][k][1] = "succeeded" => executed[toHub[n][k][2]] = 1

-----------------------------------------------------------------------------
(* What callers are told.                                                  *)

EndOK(c) ==
    /\ c \in notify => status[c] \in Terminal
    /\ c \in timer => status[c] # "absent"
    /\ cancelling[c] = "committed" => status[c] \in Terminal
    /\ events[c] # None => KeyOf[events[c]] = c

CallerOK(p) ==
    LET c == KeyOf[p] IN
    /\ pc[p] \in {"route", "mark", "timer", "fail", "get", "join", "look", "wait", "read"} =>
           status[c] # "absent"
    /\ event[p] # None => KeyOf[event[p]] = c
    /\ pc[p] \in {"look", "wait"} => event[p] # None
    /\ p \in fired \/ pc[p] = "read" => status[c] \in Terminal
    /\ answer[p] \in {"none", "refused", "timeout"} \/ (answer[p] \in Terminal /\ answer[p] = status[c])

IInv ==
    /\ Typed
    /\ \A c \in Commands : FrameOK(c) /\ DeviceOK(c) /\ EndOK(c)
    /\ \A p \in Callers : RouteOK(p) /\ CallerOK(p)
    /\ \A n \in Connections : ReplyOK(n)

\* What no step does to the status of a command.
Steady ==
    \A c \in Commands :
        /\ status[c] \in Terminal => status'[c] = status[c]
        /\ status[c] # "absent" => status'[c] # "absent"
        /\ status'[c] = "succeeded" => status[c] = "succeeded" \/ executed[c] = 1

-----------------------------------------------------------------------------
(* The invariant holds initially.                                          *)

LEMMA Values ==
    /\ {"absent", "pending", "sent", "acknowledged", "succeeded", "failed", "cancelled",
        "expired", "timed_out"} \subseteq Status
    /\ Terminal = {"succeeded", "failed", "cancelled", "expired", "timed_out"}
    /\ Status \subseteq Answer
    /\ {"none", "refused", "timeout"} \subseteq Answer
    /\ 0 \in 0..MaxConnections
    /\ \A n \in Connections : n \in 0..MaxConnections /\ n # 0
    /\ \A n \in 0..MaxConnections : n # 0 => n \in Connections
    /\ \A p \in Callers : KeyOf[p] \in Commands
BY DeviceAssumption DEF Status, Terminal, Answer, Connections

LEMMA InitInv == Init => IInv
<1> SUFFICES ASSUME Init PROVE IInv
  OBVIOUS
<1> USE Values, DeviceAssumption DEF Init
<1>1. Typed
  BY DEF Typed, Place
<1>2. ASSUME NEW c \in Commands PROVE FrameOK(c) /\ DeviceOK(c) /\ EndOK(c)
  BY DEF FrameOK, IsFrame, DeviceOK, EndOK, Free
<1>3. ASSUME NEW p \in Callers PROVE RouteOK(p) /\ CallerOK(p)
  BY DEF RouteOK, CallerOK
<1>4. ASSUME NEW n \in Connections PROVE ReplyOK(n)
  BY DEF ReplyOK
<1> QED
  BY <1>1, <1>2, <1>3, <1>4 DEF IInv

-----------------------------------------------------------------------------
(* Reading a command, and the queues between hub and device.                *)

LEMMA TimeoutMarked ==
    ASSUME Typed, NEW c \in Commands, MarkTimeout(c)
    PROVE  /\ status' \in [Commands -> Status]
           /\ AfterTimeout(c) \in Status
           /\ \A d \in Commands : status'[d] = IF d = c THEN AfterTimeout(c) ELSE status[d]
           /\ status[c] \in Terminal => AfterTimeout(c) = status[c]
           /\ status[c] # "absent" => AfterTimeout(c) # "absent"
           /\ AfterTimeout(c) = "succeeded" => status[c] = "succeeded"
           /\ c \in overdue => AfterTimeout(c) \in Terminal \cup {"absent"}
           /\ UNCHANGED <<sentAt, offline>>
<1>1. AfterTimeout(c) \in Status
  BY Values DEF Typed, AfterTimeout, Lapsed
<1>2. /\ status[c] \in Terminal => AfterTimeout(c) = status[c]
      /\ status[c] # "absent" => AfterTimeout(c) # "absent"
      /\ AfterTimeout(c) = "succeeded" => status[c] = "succeeded"
      /\ c \in overdue => AfterTimeout(c) \in Terminal \cup {"absent"}
  BY Values DEF Typed, Status, AfterTimeout, Lapsed, Open
<1> HIDE DEF AfterTimeout
<1> QED
  BY <1>1, <1>2 DEF Typed, MarkTimeout, SetStatus

\* The head of a queue was taken.
LEMMA TailFrames ==
    ASSUME Typed, NEW n \in Connections, toDevice[n] # <<>>,
           toDevice' = [toDevice EXCEPT ![n] = Tail(@)]
    PROVE  /\ toDevice' \in [Connections -> Seq(ToDevice)]
           /\ Head(toDevice[n]) \in ToDevice
           /\ \A d \in Commands : Head(toDevice[n]) = <<"execute", d>> => IsFrame(n, 1, d)
           /\ \A m \in Connections, k \in Nat, d \in Commands :
                 IsFrame(m, k, d)' => IF m = n THEN k + 1 \in Nat /\ k >= 1 /\ IsFrame(n, k + 1, d)
                                      ELSE IsFrame(m, k, d)
<1>1. toDevice[n] \in Seq(ToDevice) /\ Len(toDevice[n]) >= 1
  BY DEF Typed
<1>2. Tail(toDevice[n]) \in Seq(ToDevice) /\ Len(Tail(toDevice[n])) = Len(toDevice[n]) - 1
      /\ \A k \in 1..(Len(toDevice[n]) - 1) : Tail(toDevice[n])[k] = toDevice[n][k + 1]
  BY <1>1
<1>3. toDevice' \in [Connections -> Seq(ToDevice)]
  BY <1>2 DEF Typed
<1>4. \A m \in Connections : toDevice'[m] = IF m = n THEN Tail(toDevice[n]) ELSE toDevice[m]
  BY DEF Typed
<1>5. ASSUME NEW m \in Connections, NEW k \in Nat, NEW d \in Commands, IsFrame(m, k, d)'
      PROVE  IF m = n THEN k + 1 \in Nat /\ k >= 1 /\ IsFrame(n, k + 1, d) ELSE IsFrame(m, k, d)
  <2>1. CASE m = n
    <3>1. k \in 1..(Len(toDevice[n]) - 1) /\ toDevice[n][k + 1] = <<"execute", d>>
      BY <1>1, <1>2, <1>4, <1>5, <2>1 DEF IsFrame
    <3>2. k + 1 \in 1..Len(toDevice[n]) /\ k + 1 \in Nat /\ k >= 1
      BY <1>1, <3>1
    <3> QED
      BY <2>1, <3>1, <3>2 DEF IsFrame
  <2>2. CASE m # n
    BY <1>4, <1>5, <2>2 DEF IsFrame
  <2> QED
    BY <2>1, <2>2
<1>6. Head(toDevice[n]) = toDevice[n][1] /\ toDevice[n][1] \in ToDevice
  BY <1>1
<1> QED
  BY <1>1, <1>3, <1>5, <1>6 DEF IsFrame

\* A frame was sent.
LEMMA AppendFrames ==
    ASSUME Typed, NEW n \in Connections, NEW f \in ToDevice,
           toDevice' = [toDevice EXCEPT ![n] = Append(@, f)]
    PROVE  /\ toDevice' \in [Connections -> Seq(ToDevice)]
           /\ \A m \in Connections, k \in Nat, d \in Commands :
                 IsFrame(m, k, d)' => \/ IsFrame(m, k, d)
                                      \/ m = n /\ k = Len(toDevice[n]) + 1 /\ f = <<"execute", d>>
<1> DEFINE longer == Append(toDevice[n], f)
<1>1. toDevice[n] \in Seq(ToDevice)
  BY DEF Typed
<1>2. longer \in Seq(ToDevice) /\ Len(longer) = Len(toDevice[n]) + 1
      /\ \A k \in 1..Len(toDevice[n]) : longer[k] = toDevice[n][k]
      /\ longer[Len(toDevice[n]) + 1] = f
  BY <1>1
<1>3. \A m \in Connections : toDevice'[m] = IF m = n THEN longer ELSE toDevice[m]
  BY DEF Typed
<1> HIDE DEF longer
<1>4. toDevice' \in [Connections -> Seq(ToDevice)]
  BY <1>2 DEF Typed
<1>5. ASSUME NEW m \in Connections, NEW k \in Nat, NEW d \in Commands, IsFrame(m, k, d)'
      PROVE  \/ IsFrame(m, k, d)
             \/ m = n /\ k = Len(toDevice[n]) + 1 /\ f = <<"execute", d>>
  <2>1. Len(toDevice[n]) \in Nat
    BY <1>1
  <2>2. CASE m = n /\ k # Len(toDevice[n]) + 1
    <3>1. k \in 1..Len(toDevice[n])
      BY <1>2, <1>3, <1>5, <2>1, <2>2 DEF IsFrame
    <3> QED
      BY <1>2, <1>3, <1>5, <2>2, <3>1 DEF IsFrame
  <2>3. CASE m = n /\ k = Len(toDevice[n]) + 1
    <3>1. toDevice'[m][k] = <<"execute", d>>
      BY <1>5 DEF IsFrame
    <3>2. toDevice'[m] = longer
      BY <1>3, <2>3
    <3>3. toDevice'[m][k] = f
      BY <1>2, <2>3, <3>2
    <3> QED
      BY <2>3, <3>1, <3>3
  <2>4. CASE m # n
    BY <1>3, <1>5, <2>4 DEF IsFrame
  <2> QED
    BY <2>2, <2>3, <2>4
<1> QED
  BY <1>4, <1>5

\* Frames that go, or move up, leave a command with one at most.
LEMMA FramesKept ==
    ASSUME IInv, Steady, UNCHANGED <<running, executed, offline>>,
           \A m \in Connections, k \in Nat, d \in Commands : IsFrame(m, k, d)' => IsFrame(m, k, d)
    PROVE  \A c \in Commands : FrameOK(c)'
<1> SUFFICES ASSUME NEW c \in Commands, NEW n \in Connections, NEW k \in Nat, IsFrame(n, k, c)'
             PROVE  /\ Free(c)' /\ status'[c] # "absent"
                    /\ \A m \in Connections, l \in Nat : IsFrame(m, l, c)' => m = n /\ l = k
  BY DEF FrameOK
<1>1. FrameOK(c) /\ IsFrame(n, k, c)
  BY DEF IInv
<1>2. Free(c)'
  BY <1>1 DEF FrameOK, Free
<1> QED
  BY <1>1, <1>2 DEF FrameOK, Steady

LEMMA SameFrames ==
    ASSUME UNCHANGED toDevice
    PROVE  \A m \in Connections, k \in Nat, d \in Commands : IsFrame(m, k, d)' <=> IsFrame(m, k, d)
BY DEF IsFrame

LEMMA RoutesKept ==
    ASSUME IInv, Steady, UNCHANGED <<running, executed, offline>>,
           \A p \in Callers : pc'[p] = "route" => pc[p] = "route",
           \A m \in Connections, k \in Nat, d \in Commands :
               IsFrame(m, k, d)' => \E l \in Nat : IsFrame(m, l, d)
    PROVE  \A p \in Callers : RouteOK(p)'
<1> SUFFICES ASSUME NEW p \in Callers, pc'[p] = "route"
             PROVE  /\ Free(KeyOf[p])' /\ status'[KeyOf[p]] # "absent"
                    /\ \A n \in Connections, k \in Nat : ~ IsFrame(n, k, KeyOf[p])'
                    /\ \A q \in Callers : pc'[q] = "route" /\ KeyOf[q] = KeyOf[p] => q = p
  BY DEF RouteOK
<1>1. RouteOK(p) /\ pc[p] = "route" /\ KeyOf[p] \in Commands
  BY Values DEF IInv
<1>2. Free(KeyOf[p])'
  BY <1>1 DEF RouteOK, Free
<1>3. status'[KeyOf[p]] # "absent"
  BY <1>1 DEF RouteOK, Steady
<1> QED
  BY <1>1, <1>2, <1>3 DEF RouteOK

\* What waits in a queue to the hub stays true.
LEMMA RepliesKept ==
    ASSUME IInv, Steady, \A c \in Commands : executed[c] = 1 => executed'[c] = 1,
           \A n \in Connections : toHub'[n] \in {toHub[n], <<>>}
    PROVE  \A n \in Connections : ReplyOK(n)'
<1> SUFFICES ASSUME NEW n \in Connections, NEW k \in 1..Len(toHub'[n])
             PROVE  /\ status'[toHub'[n][k][2]] # "absent"
                    /\ toHub'[n][k][1] = "succeeded" => executed'[toHub'[n][k][2]] = 1
  BY DEF ReplyOK
<1>1. toHub'[n] = toHub[n]
  OBVIOUS
<1>2. toHub[n] \in Seq(ToHub) /\ ReplyOK(n)
  BY DEF IInv, Typed
<1>3. toHub[n][k] \in ToHub
  BY <1>1, <1>2
<1>4. toHub[n][k][2] \in Commands
  BY <1>3 DEF ToHub
<1> QED
  BY <1>1, <1>2, <1>4 DEF ReplyOK, Steady

LEMMA ConcatAt ==
    ASSUME NEW S, NEW s \in Seq(S), NEW t \in Seq(S), NEW k \in 1..Len(s \o t)
    PROVE  /\ k \in 1..Len(s) => (s \o t)[k] = s[k] /\ s[k] \in S
           /\ k \notin 1..Len(s) => /\ k - Len(s) \in 1..Len(t)
                                  /\ (s \o t)[k] = t[k - Len(s)]
<1>1. Len(s) \in Nat /\ Len(t) \in Nat /\ Len(s \o t) = Len(s) + Len(t)
  OBVIOUS
<1>2. CASE k \in 1..Len(s)
  BY <1>1, <1>2
<1>3. CASE k \notin 1..Len(s)
  BY <1>1, <1>3
<1> QED
  BY <1>2, <1>3

\* True frames were added to them.
LEMMA ReplyTrue ==
    ASSUME IInv, Steady, NEW frames \in Seq(ToHub), Reply(frames),
           \A c \in Commands : executed[c] = 1 => executed'[c] = 1,
           \A k \in 1..Len(frames) : /\ status'[frames[k][2]] # "absent"
                                     /\ frames[k][1] = "succeeded" => executed'[frames[k][2]] = 1
    PROVE  toHub' \in [Connections -> Seq(ToHub)] /\ \A n \in Connections : ReplyOK(n)'
<1>1. ASSUME NEW n \in Connections
      PROVE  toHub'[n] = (IF socket[n] = "open" THEN toHub[n] \o frames ELSE toHub[n])
  BY DEF Reply
<1>2. \A n \in Connections : toHub[n] \in Seq(ToHub) /\ ReplyOK(n)
  BY DEF IInv, Typed
<1>3. toHub' \in [Connections -> Seq(ToHub)]
  <2>1. \A n \in Connections : toHub[n] \o frames \in Seq(ToHub)
    BY <1>2
  <2> QED
    BY <1>2, <2>1 DEF Reply
<1>4. ASSUME NEW n \in Connections, NEW k \in 1..Len(toHub'[n])
      PROVE  /\ status'[toHub'[n][k][2]] # "absent"
             /\ toHub'[n][k][1] = "succeeded" => executed'[toHub'[n][k][2]] = 1
  <2>1. CASE k \in 1..Len(toHub[n])
    <3>1. toHub'[n][k] = toHub[n][k] /\ toHub[n][k] \in ToHub
      <4>1. CASE socket[n] = "open"
        <5>1. toHub'[n] = toHub[n] \o frames /\ toHub[n] \in Seq(ToHub)
          BY <1>1, <1>2, <4>1
        <5>2. k \in 1..Len(toHub[n] \o frames)
          BY <5>1
        <5> HIDE DEF Reply
        <5>3. (toHub[n] \o frames)[k] = toHub[n][k] /\ toHub[n][k] \in ToHub
          BY <2>1, <5>1, <5>2, ConcatAt
        <5> QED
          BY <5>1, <5>3
      <4>2. CASE socket[n] # "open"
        BY <1>1, <1>2, <2>1, <4>2
      <4> QED
        BY <4>1, <4>2
    <3>2. toHub[n][k][2] \in Commands
      BY <3>1 DEF ToHub
    <3> QED
      BY <1>2, <2>1, <3>1, <3>2 DEF ReplyOK, Steady
  <2>2. CASE k \notin 1..Len(toHub[n])
    <3>1. /\ socket[n] = "open" /\ k - Len(toHub[n]) \in 1..Len(frames)
          /\ toHub'[n][k] = frames[k - Len(toHub[n])]
      <4>1. socket[n] = "open"
        BY <1>1, <2>2
      <4>2. toHub'[n] = toHub[n] \o frames /\ toHub[n] \in Seq(ToHub)
        BY <1>1, <1>2, <4>1
      <4>3. k \in 1..Len(toHub[n] \o frames)
        BY <4>2
      <4>4. /\ k - Len(toHub[n]) \in 1..Len(frames)
            /\ (toHub[n] \o frames)[k] = frames[k - Len(toHub[n])]
        BY <2>2, <4>2, <4>3, ConcatAt
      <4> QED
        BY <4>1, <4>2, <4>4
    <3> QED
      BY <3>1
  <2> QED
    BY <2>1, <2>2
<1> QED
  BY <1>3, <1>4 DEF ReplyOK

-----------------------------------------------------------------------------
(* One lemma per action.                                                   *)

LEMMA FindInv ==
    ASSUME IInv, NEW p \in Callers, Find(p)
    PROVE  IInv'
<1> USE Values, DeviceAssumption DEF IInv, Find, Goto, rowVars, gatewayVars, socketVars, deviceVars, worldVars
<1>1. Typed'
  BY DEF Typed, Place
<1>2. Steady
  BY DEF Typed, Steady, Open, AfterTimeout, Lapsed
<1>3. ASSUME NEW d \in Commands PROVE FrameOK(d)'
  BY <1>2, SameFrames, FramesKept
<1>4. ASSUME NEW d \in Commands PROVE DeviceOK(d)'
  BY <1>2 DEF Typed, Steady, DeviceOK, Free, RouteOK
<1>5. ASSUME NEW q \in Callers PROVE RouteOK(q)'
  BY <1>2, SameFrames, RoutesKept DEF Typed
<1>6. ASSUME NEW m \in Connections PROVE ReplyOK(m)'
  BY <1>2, RepliesKept
<1>7. ASSUME NEW d \in Commands PROVE EndOK(d)'
  BY <1>2 DEF Typed, Steady, EndOK, CallerOK
<1>8. ASSUME NEW q \in Callers PROVE CallerOK(q)'
  BY <1>2 DEF Typed, Steady, CallerOK, EndOK
<1> QED
  BY <1>1, <1>3, <1>4, <1>5, <1>6, <1>7, <1>8

LEMMA InsertInv ==
    ASSUME IInv, NEW p \in Callers, Insert(p)
    PROVE  IInv'
<1> USE Values, DeviceAssumption DEF IInv, Insert, Goto, SetStatus, gatewayVars, socketVars, deviceVars, worldVars
<1>1. Typed'
  BY DEF Typed, Place
<1>2. Steady
  BY DEF Typed, Steady, Open, AfterTimeout, Lapsed
<1>3. ASSUME NEW d \in Commands PROVE FrameOK(d)'
  BY <1>2, SameFrames, FramesKept
<1>4. ASSUME NEW d \in Commands PROVE DeviceOK(d)'
  BY <1>2 DEF Typed, Steady, DeviceOK, Free, RouteOK
<1>5. ASSUME NEW q \in Callers PROVE RouteOK(q)'
  <2> SUFFICES ASSUME pc'[q] = "route"
               PROVE  /\ Free(KeyOf[q])' /\ status'[KeyOf[q]] # "absent"
                      /\ \A n \in Connections, k \in Nat : ~ IsFrame(n, k, KeyOf[q])'
                      /\ \A r \in Callers : pc'[r] = "route" /\ KeyOf[r] = KeyOf[q] => r = q
    BY DEF RouteOK
  <2>1. (status[KeyOf[p]] = "absent" /\ status'[KeyOf[p]] = "pending") \/ status[KeyOf[p]] # "absent"
    BY DEF Typed
  <2>2. \A d \in Commands : Free(d)' = Free(d)
    BY DEF Free
  <2>3. CASE q = p
    <3>1. status[KeyOf[p]] = "absent"
      BY <2>3 DEF Typed
    <3>2. Free(KeyOf[p]) /\ \A n \in Connections, k \in Nat : ~ IsFrame(n, k, KeyOf[p])
      BY <3>1 DEF DeviceOK, FrameOK
    <3>3. \A r \in Callers : pc[r] = "route" => KeyOf[r] # KeyOf[p]
      BY <3>1 DEF RouteOK
    <3> QED
      BY <2>1, <2>2, <2>3, <3>1, <3>2, <3>3, SameFrames DEF Typed
  <2>4. CASE q # p
    <3>1. pc[q] = "route" /\ RouteOK(q)
      BY <2>4 DEF Typed
    <3>2. KeyOf[q] = KeyOf[p] => pc'[p] # "route"
      BY <3>1 DEF RouteOK, Typed
    <3> QED
      BY <1>2, <2>2, <2>4, <3>1, <3>2, SameFrames DEF Typed, RouteOK, Steady
  <2> QED
    BY <2>3, <2>4
<1>6. ASSUME NEW m \in Connections PROVE ReplyOK(m)'
  BY <1>2, RepliesKept
<1>7. ASSUME NEW d \in Commands PROVE EndOK(d)'
  BY <1>2 DEF Typed, Steady, EndOK, CallerOK
<1>8. ASSUME NEW q \in Callers PROVE CallerOK(q)'
  BY <1>2 DEF Typed, Steady, CallerOK, EndOK
<1> QED
  BY <1>1, <1>3, <1>4, <1>5, <1>6, <1>7, <1>8

LEMMA RefuseDeviceInv ==
    ASSUME IInv, NEW p \in Callers, RefuseDevice(p)
    PROVE  IInv'
<1> USE Values, DeviceAssumption DEF IInv, RefuseDevice, Goto, Return, rowVars, gatewayVars, socketVars, deviceVars, worldVars
<1>1. Typed'
  BY DEF Typed, Place
<1>2. Steady
  BY DEF Typed, Steady, Open, AfterTimeout, Lapsed
<1>3. ASSUME NEW d \in Commands PROVE FrameOK(d)'
  BY <1>2, SameFrames, FramesKept
<1>4. ASSUME NEW d \in Commands PROVE DeviceOK(d)'
  BY <1>2 DEF Typed, Steady, DeviceOK, Free, RouteOK
<1>5. ASSUME NEW q \in Callers PROVE RouteOK(q)'
  BY <1>2, SameFrames, RoutesKept DEF Typed
<1>6. ASSUME NEW m \in Connections PROVE ReplyOK(m)'
  BY <1>2, RepliesKept
<1>7. ASSUME NEW d \in Commands PROVE EndOK(d)'
  BY <1>2 DEF Typed, Steady, EndOK, CallerOK
<1>8. ASSUME NEW q \in Callers PROVE CallerOK(q)'
  BY <1>2 DEF Typed, Steady, CallerOK, EndOK
<1> QED
  BY <1>1, <1>3, <1>4, <1>5, <1>6, <1>7, <1>8

LEMMA SendExecuteInv ==
    ASSUME IInv, NEW p \in Callers, SendExecute(p)
    PROVE  IInv'
<1> USE Values, DeviceAssumption DEF IInv, SendExecute, Goto, rowVars, gatewayVars, deviceVars, worldVars
<1>0. /\ toDevice' \in [Connections -> Seq(ToDevice)]
      /\ \A m \in Connections, k \in Nat, d \in Commands :
            IsFrame(m, k, d)' => \/ IsFrame(m, k, d)
                                 \/ m = registered /\ k = Len(toDevice[m]) + 1 /\ d = KeyOf[p]
  <2>1. registered \in Connections /\ <<"execute", KeyOf[p]>> \in ToDevice
    BY DEF Typed, ToDevice
  <2>2. CASE socket[registered] = "open"
    <3>1. toDevice' = [toDevice EXCEPT ![registered] = Append(@, <<"execute", KeyOf[p]>>)]
      BY <2>2
    <3>2. Typed
      OBVIOUS
    <3>3. /\ toDevice' \in [Connections -> Seq(ToDevice)]
          /\ \A m \in Connections, k \in Nat, d \in Commands :
                IsFrame(m, k, d)' => \/ IsFrame(m, k, d)
                                     \/ /\ m = registered /\ k = Len(toDevice[registered]) + 1
                                        /\ <<"execute", KeyOf[p]>> = <<"execute", d>>
      <4> HIDE DEF IInv, SendExecute
      <4> QED
        BY <2>1, <3>1, <3>2, AppendFrames
    <3> QED
      BY <3>3
  <2>3. CASE socket[registered] # "open"
    <3>1. toDevice' = toDevice
      BY <2>1, <2>3 DEF Typed
    <3> QED
      BY <3>1, SameFrames DEF Typed
  <2> QED
    BY <2>2, <2>3
<1>1. Typed'
  BY <1>0 DEF Typed, Place
<1>2. Steady
  BY DEF Typed, Steady, Open, AfterTimeout, Lapsed
<1>3. ASSUME NEW d \in Commands PROVE FrameOK(d)'
  <2>1. pc[p] = "route" /\ RouteOK(p) /\ UNCHANGED <<running, executed, offline, status>>
    OBVIOUS
  <2>2. \A b \in Commands : Free(b)' = Free(b)
    BY <2>1 DEF Free
  <2>3. ASSUME NEW n \in Connections, NEW k \in Nat, IsFrame(n, k, d)'
        PROVE  /\ Free(d)' /\ status'[d] # "absent"
               /\ \A m \in Connections, l \in Nat : IsFrame(m, l, d)' => m = n /\ l = k
    <3>1. CASE d = KeyOf[p]
      <4>1. \A m \in Connections, l \in Nat : ~ IsFrame(m, l, d)
        BY <2>1, <3>1 DEF RouteOK
      <4> QED
        BY <1>0, <2>1, <2>2, <2>3, <3>1, <4>1 DEF RouteOK
    <3>2. CASE d # KeyOf[p]
      <4>1. \A m \in Connections, l \in Nat : IsFrame(m, l, d)' => IsFrame(m, l, d)
        BY <1>0, <3>2
      <4>2. FrameOK(d)
        OBVIOUS
      <4> QED
        BY <2>1, <2>2, <2>3, <4>1, <4>2 DEF FrameOK
    <3> QED
      BY <3>1, <3>2
  <2> QED
    BY <2>3 DEF FrameOK
<1>4. ASSUME NEW d \in Commands PROVE DeviceOK(d)'
  BY <1>2 DEF Typed, Steady, DeviceOK, Free, RouteOK
<1>5. ASSUME NEW q \in Callers PROVE RouteOK(q)'
  <2>1. CASE q = p
    BY <2>1 DEF RouteOK, Typed
  <2>2. CASE q # p /\ pc[q] = "route"
    <3>1. KeyOf[q] # KeyOf[p] /\ RouteOK(q)
      BY <2>2 DEF RouteOK
    <3>2. \A b \in Commands : Free(b)' = Free(b)
      BY DEF Free
    <3> QED
      BY <1>0, <2>2, <3>1, <3>2 DEF RouteOK, Typed
  <2>3. CASE q # p /\ pc[q] # "route"
    BY <2>3 DEF RouteOK, Typed
  <2> QED
    BY <2>1, <2>2, <2>3
<1>6. ASSUME NEW m \in Connections PROVE ReplyOK(m)'
  BY <1>2, RepliesKept
<1>7. ASSUME NEW d \in Commands PROVE EndOK(d)'
  BY <1>2 DEF Typed, Steady, EndOK, CallerOK
<1>8. ASSUME NEW q \in Callers PROVE CallerOK(q)'
  BY <1>2 DEF Typed, Steady, CallerOK, EndOK
<1> QED
  BY <1>1, <1>3, <1>4, <1>5, <1>6, <1>7, <1>8

LEMMA SendRaisesInv ==
    ASSUME IInv, NEW p \in Callers, SendRaises(p)
    PROVE  IInv'
<1> USE Values, DeviceAssumption DEF IInv, SendRaises, Goto, rowVars, gatewayVars, deviceVars, worldVars
<1>1. Typed'
  BY DEF Typed, Place
<1>2. Steady
  BY DEF Typed, Steady, Open, AfterTimeout, Lapsed
<1>3. ASSUME NEW d \in Commands PROVE FrameOK(d)'
  BY <1>2, SameFrames, FramesKept
<1>4. ASSUME NEW d \in Commands PROVE DeviceOK(d)'
  BY <1>2 DEF Typed, Steady, DeviceOK, Free, RouteOK
<1>5. ASSUME NEW q \in Callers PROVE RouteOK(q)'
  BY <1>2, SameFrames, RoutesKept DEF Typed
<1>6. ASSUME NEW m \in Connections PROVE ReplyOK(m)'
  BY <1>2, RepliesKept
<1>7. ASSUME NEW d \in Commands PROVE EndOK(d)'
  BY <1>2 DEF Typed, Steady, EndOK, CallerOK
<1>8. ASSUME NEW q \in Callers PROVE CallerOK(q)'
  BY <1>2 DEF Typed, Steady, CallerOK, EndOK
<1> QED
  BY <1>1, <1>3, <1>4, <1>5, <1>6, <1>7, <1>8

LEMMA NotCapableInv ==
    ASSUME IInv, NEW p \in Callers, NotCapable(p)
    PROVE  IInv'
<1> USE Values, DeviceAssumption DEF IInv, NotCapable, Goto, rowVars, gatewayVars, socketVars, deviceVars, worldVars
<1>1. Typed'
  BY DEF Typed, Place
<1>2. Steady
  BY DEF Typed, Steady, Open, AfterTimeout, Lapsed
<1>3. ASSUME NEW d \in Commands PROVE FrameOK(d)'
  BY <1>2, SameFrames, FramesKept
<1>4. ASSUME NEW d \in Commands PROVE DeviceOK(d)'
  BY <1>2 DEF Typed, Steady, DeviceOK, Free, RouteOK
<1>5. ASSUME NEW q \in Callers PROVE RouteOK(q)'
  BY <1>2, SameFrames, RoutesKept DEF Typed
<1>6. ASSUME NEW m \in Connections PROVE ReplyOK(m)'
  BY <1>2, RepliesKept
<1>7. ASSUME NEW d \in Commands PROVE EndOK(d)'
  BY <1>2 DEF Typed, Steady, EndOK, CallerOK
<1>8. ASSUME NEW q \in Callers PROVE CallerOK(q)'
  BY <1>2 DEF Typed, Steady, CallerOK, EndOK
<1> QED
  BY <1>1, <1>3, <1>4, <1>5, <1>6, <1>7, <1>8

LEMMA NoConnectionInv ==
    ASSUME IInv, NEW p \in Callers, NoConnection(p)
    PROVE  IInv'
<1> USE Values, DeviceAssumption DEF IInv, NoConnection, Goto, gatewayVars, socketVars, deviceVars, worldVars
<1>1. Typed'
  BY DEF Typed, Place
<1>2. Steady
  BY DEF Typed, Steady, Open, AfterTimeout, Lapsed
<1>3. ASSUME NEW d \in Commands PROVE FrameOK(d)'
  <2>1. pc[p] = "route" /\ RouteOK(p) /\ KeyOf[p] \in Commands
    OBVIOUS
  <2>2. CASE d = KeyOf[p]
    BY <2>1, <2>2, SameFrames DEF RouteOK, FrameOK
  <2>3. CASE d # KeyOf[p]
    <3>1. Free(d)' = Free(d) /\ FrameOK(d)
      BY <2>3 DEF Free, Typed
    <3> QED
      BY <3>1, SameFrames DEF FrameOK
  <2> QED
    BY <2>2, <2>3
<1>4. ASSUME NEW d \in Commands PROVE DeviceOK(d)'
  BY <1>2 DEF Typed, Steady, DeviceOK, Free, RouteOK
<1>5. ASSUME NEW q \in Callers PROVE RouteOK(q)'
  <2>1. CASE pc'[q] = "route"
    <3>1. q # p /\ pc[q] = "route" /\ RouteOK(q) /\ RouteOK(p)
      BY <2>1 DEF Typed
    <3>2. KeyOf[q] # KeyOf[p]
      BY <3>1 DEF RouteOK
    <3>3. Free(KeyOf[q])' = Free(KeyOf[q])
      BY <3>2 DEF Free, Typed
    <3> QED
      BY <3>1, <3>3, SameFrames DEF RouteOK, Typed
  <2>2. CASE pc'[q] # "route"
    BY <2>2 DEF RouteOK
  <2> QED
    BY <2>1, <2>2
<1>6. ASSUME NEW m \in Connections PROVE ReplyOK(m)'
  BY <1>2, RepliesKept
<1>7. ASSUME NEW d \in Commands PROVE EndOK(d)'
  BY <1>2 DEF Typed, Steady, EndOK, CallerOK
<1>8. ASSUME NEW q \in Callers PROVE CallerOK(q)'
  BY <1>2 DEF Typed, Steady, CallerOK, EndOK
<1> QED
  BY <1>1, <1>3, <1>4, <1>5, <1>6, <1>7, <1>8

LEMMA MarkSentInv ==
    ASSUME IInv, NEW p \in Callers, MarkSent(p)
    PROVE  IInv'
<1> USE Values, DeviceAssumption DEF IInv, MarkSent, Goto, SetStatus, gatewayVars, socketVars, deviceVars, worldVars
<1>1. Typed'
  BY DEF Typed, Place
<1>2. Steady
  BY DEF Typed, Steady, Open, AfterTimeout, Lapsed
<1>3. ASSUME NEW d \in Commands PROVE FrameOK(d)'
  BY <1>2, SameFrames, FramesKept
<1>4. ASSUME NEW d \in Commands PROVE DeviceOK(d)'
  BY <1>2 DEF Typed, Steady, DeviceOK, Free, RouteOK
<1>5. ASSUME NEW q \in Callers PROVE RouteOK(q)'
  BY <1>2, SameFrames, RoutesKept DEF Typed
<1>6. ASSUME NEW m \in Connections PROVE ReplyOK(m)'
  BY <1>2, RepliesKept
<1>7. ASSUME NEW d \in Commands PROVE EndOK(d)'
  BY <1>2 DEF Typed, Steady, EndOK, CallerOK
<1>8. ASSUME NEW q \in Callers PROVE CallerOK(q)'
  BY <1>2 DEF Typed, Steady, CallerOK, EndOK
<1> QED
  BY <1>1, <1>3, <1>4, <1>5, <1>6, <1>7, <1>8

LEMMA MarkConflictsInv ==
    ASSUME IInv, NEW p \in Callers, MarkConflicts(p)
    PROVE  IInv'
<1> USE Values, DeviceAssumption DEF IInv, MarkConflicts, Goto, Disconnect, rowVars, gatewayVars, deviceVars, worldVars
<1>1. Typed'
  BY DEF Typed, Place
<1>2. Steady
  BY DEF Typed, Steady, Open, AfterTimeout, Lapsed
<1>3. ASSUME NEW d \in Commands PROVE FrameOK(d)'
  BY <1>2, SameFrames, FramesKept
<1>4. ASSUME NEW d \in Commands PROVE DeviceOK(d)'
  BY <1>2 DEF Typed, Steady, DeviceOK, Free, RouteOK
<1>5. ASSUME NEW q \in Callers PROVE RouteOK(q)'
  BY <1>2, SameFrames, RoutesKept DEF Typed
<1>6. ASSUME NEW m \in Connections PROVE ReplyOK(m)'
  BY <1>2, RepliesKept
<1>7. ASSUME NEW d \in Commands PROVE EndOK(d)'
  BY <1>2 DEF Typed, Steady, EndOK, CallerOK
<1>8. ASSUME NEW q \in Callers PROVE CallerOK(q)'
  BY <1>2 DEF Typed, Steady, CallerOK, EndOK
<1> QED
  BY <1>1, <1>3, <1>4, <1>5, <1>6, <1>7, <1>8

LEMMA ScheduleTimeoutInv ==
    ASSUME IInv, NEW p \in Callers, ScheduleTimeout(p)
    PROVE  IInv'
<1> USE Values, DeviceAssumption DEF IInv, ScheduleTimeout, Goto, rowVars, socketVars, deviceVars, worldVars
<1>1. Typed'
  BY DEF Typed, Place
<1>2. Steady
  BY DEF Typed, Steady, Open, AfterTimeout, Lapsed
<1>3. ASSUME NEW d \in Commands PROVE FrameOK(d)'
  BY <1>2, SameFrames, FramesKept
<1>4. ASSUME NEW d \in Commands PROVE DeviceOK(d)'
  BY <1>2 DEF Typed, Steady, DeviceOK, Free, RouteOK
<1>5. ASSUME NEW q \in Callers PROVE RouteOK(q)'
  BY <1>2, SameFrames, RoutesKept DEF Typed
<1>6. ASSUME NEW m \in Connections PROVE ReplyOK(m)'
  BY <1>2, RepliesKept
<1>7. ASSUME NEW d \in Commands PROVE EndOK(d)'
  BY <1>2 DEF Typed, Steady, EndOK, CallerOK
<1>8. ASSUME NEW q \in Callers PROVE CallerOK(q)'
  BY <1>2 DEF Typed, Steady, CallerOK, EndOK
<1> QED
  BY <1>1, <1>3, <1>4, <1>5, <1>6, <1>7, <1>8

LEMMA FailDeliveryInv ==
    ASSUME IInv, NEW p \in Callers, FailDelivery(p)
    PROVE  IInv'
<1> USE Values, DeviceAssumption DEF IInv, FailDelivery, Goto, Return, SetStatus, Open, socketVars, deviceVars, worldVars
<1>1. Typed'
  BY DEF Typed, Place
<1>2. Steady
  BY DEF Typed, Steady, Open, AfterTimeout, Lapsed
<1>3. ASSUME NEW d \in Commands PROVE FrameOK(d)'
  BY <1>2, SameFrames, FramesKept
<1>4. ASSUME NEW d \in Commands PROVE DeviceOK(d)'
  BY <1>2 DEF Typed, Steady, DeviceOK, Free, RouteOK
<1>5. ASSUME NEW q \in Callers PROVE RouteOK(q)'
  BY <1>2, SameFrames, RoutesKept DEF Typed
<1>6. ASSUME NEW m \in Connections PROVE ReplyOK(m)'
  BY <1>2, RepliesKept
<1>7. ASSUME NEW d \in Commands PROVE EndOK(d)'
  <2>1. status'[KeyOf[p]] \in Terminal
    BY DEF Typed, Status, CallerOK
  <2>2. EndOK(d)
    OBVIOUS
  <2> QED
    BY <1>2, <2>1, <2>2 DEF EndOK, Steady
<1>8. ASSUME NEW q \in Callers PROVE CallerOK(q)'
  <2>1. status'[KeyOf[p]] \in Terminal /\ (IF Open(KeyOf[p]) THEN "failed" ELSE status[KeyOf[p]]) = status'[KeyOf[p]]
    BY DEF Typed, Status, CallerOK
  <2>2. CallerOK(q)
    OBVIOUS
  <2>3. CASE q = p
    BY <1>2, <2>1, <2>2, <2>3 DEF CallerOK, Steady, Typed
  <2>4. CASE q # p
    BY <1>2, <2>2, <2>4 DEF CallerOK, Steady, Typed
  <2> QED
    BY <2>3, <2>4
<1> QED
  BY <1>1, <1>3, <1>4, <1>5, <1>6, <1>7, <1>8

LEMMA GetInv ==
    ASSUME IInv, NEW p \in Callers, Get(p)
    PROVE  IInv'
<1> USE Values, DeviceAssumption DEF IInv, Get, Goto, Return, SetStatus, MarkTimeout, gatewayVars, socketVars, deviceVars, worldVars
<1>1. Typed'
  <2>1. MarkTimeout(KeyOf[p])
    BY DEF Get
  <2>2. status' \in [Commands -> Status] /\ UNCHANGED <<sentAt, offline>> /\ AfterTimeout(KeyOf[p]) \in Answer
    BY <2>1, TimeoutMarked
  <2> HIDE DEF MarkTimeout
  <2>3. pc' \in [Callers -> Place] /\ conn' = conn
    BY DEF Typed, Place
  <2>4. answer' \in [Callers -> Answer] /\ event' \in [Callers -> Callers \cup {None}]
    <3> HIDE DEF MarkTimeout
    <3>1. \/ /\ answer' = [answer EXCEPT ![p] = AfterTimeout(KeyOf[p])]
             /\ event' = [event EXCEPT ![p] = None]
          \/ UNCHANGED <<answer, event>>
      OBVIOUS
    <3> HIDE DEF Get
    <3>2. answer' \in [Callers -> Answer]
      <4>1. answer \in [Callers -> Answer] /\ AfterTimeout(KeyOf[p]) \in Answer
        BY <2>2 DEF Typed
      <4>2. CASE answer' = [answer EXCEPT ![p] = AfterTimeout(KeyOf[p])]
        <5> HIDE DEF IInv
        <5> QED
          BY <4>1, <4>2
      <4> QED
        BY <3>1, <4>1, <4>2
    <3>3. event' \in [Callers -> Callers \cup {None}]
      BY <3>1 DEF Typed
    <3> QED
      BY <3>2, <3>3
  <2>5. UNCHANGED <<gatewayVars, socketVars, deviceVars, worldVars>>
    BY DEF Get
  <2> HIDE DEF Get
  <2> QED
    BY <2>2, <2>3, <2>4, <2>5 DEF Typed
<1>2. Steady
  BY DEF Typed, Steady, Open, AfterTimeout, Lapsed
<1>3. ASSUME NEW d \in Commands PROVE FrameOK(d)'
  BY <1>2, SameFrames, FramesKept
<1>4. ASSUME NEW d \in Commands PROVE DeviceOK(d)'
  BY <1>2 DEF Typed, Steady, DeviceOK, Free, RouteOK
<1>5. ASSUME NEW q \in Callers PROVE RouteOK(q)'
  BY <1>2, SameFrames, RoutesKept DEF Typed
<1>6. ASSUME NEW m \in Connections PROVE ReplyOK(m)'
  BY <1>2, RepliesKept
<1>7. ASSUME NEW d \in Commands PROVE EndOK(d)'
  BY <1>2 DEF Typed, Steady, EndOK, CallerOK
<1>8. ASSUME NEW q \in Callers PROVE CallerOK(q)'
  BY <1>2 DEF Typed, Steady, CallerOK, EndOK
<1> QED
  BY <1>1, <1>3, <1>4, <1>5, <1>6, <1>7, <1>8

LEMMA JoinInv ==
    ASSUME IInv, NEW p \in Callers, Join(p)
    PROVE  IInv'
<1> USE Values, DeviceAssumption DEF IInv, Join, Goto, rowVars, socketVars, deviceVars, worldVars
<1>1. Typed'
  BY DEF Typed, Place
<1>2. Steady
  BY DEF Typed, Steady, Open, AfterTimeout, Lapsed
<1>3. ASSUME NEW d \in Commands PROVE FrameOK(d)'
  BY <1>2, SameFrames, FramesKept
<1>4. ASSUME NEW d \in Commands PROVE DeviceOK(d)'
  BY <1>2 DEF Typed, Steady, DeviceOK, Free, RouteOK
<1>5. ASSUME NEW q \in Callers PROVE RouteOK(q)'
  BY <1>2, SameFrames, RoutesKept DEF Typed
<1>6. ASSUME NEW m \in Connections PROVE ReplyOK(m)'
  BY <1>2, RepliesKept
<1>7. ASSUME NEW d \in Commands PROVE EndOK(d)'
  BY <1>2 DEF Typed, Steady, EndOK, CallerOK
<1>8. ASSUME NEW q \in Callers PROVE CallerOK(q)'
  BY <1>2 DEF Typed, Steady, CallerOK, EndOK
<1> QED
  BY <1>1, <1>3, <1>4, <1>5, <1>6, <1>7, <1>8

LEMMA LookAgainInv ==
    ASSUME IInv, NEW p \in Callers, LookAgain(p)
    PROVE  IInv'
<1> USE Values, DeviceAssumption DEF IInv, LookAgain, Goto, SetStatus, MarkTimeout, socketVars, deviceVars, worldVars
<1>1. Typed'
  <2>1. MarkTimeout(KeyOf[p])
    BY DEF LookAgain
  <2>2. status' \in [Commands -> Status] /\ UNCHANGED <<sentAt, offline>> /\ AfterTimeout(KeyOf[p]) \in Answer
    BY <2>1, TimeoutMarked
  <2> HIDE DEF MarkTimeout
  <2>3. pc' \in [Callers -> Place]
    BY DEF Typed, Place
  <2>4. fired' \in SUBSET Callers
    <3>1. event[p] \in Callers
      BY DEF Typed, CallerOK
    <3> QED
      BY <3>1 DEF Typed
  <2>5. UNCHANGED <<conn, event, answer, events, timer, notify, socketVars, deviceVars, worldVars>>
    BY DEF LookAgain
  <2> HIDE DEF LookAgain
  <2> QED
    BY <2>2, <2>3, <2>4, <2>5 DEF Typed
<1>2. Steady
  BY DEF Typed, Steady, Open, AfterTimeout, Lapsed
<1>3. ASSUME NEW d \in Commands PROVE FrameOK(d)'
  BY <1>2, SameFrames, FramesKept
<1>4. ASSUME NEW d \in Commands PROVE DeviceOK(d)'
  BY <1>2 DEF Typed, Steady, DeviceOK, Free, RouteOK
<1>5. ASSUME NEW q \in Callers PROVE RouteOK(q)'
  BY <1>2, SameFrames, RoutesKept DEF Typed
<1>6. ASSUME NEW m \in Connections PROVE ReplyOK(m)'
  BY <1>2, RepliesKept
<1>7. ASSUME NEW d \in Commands PROVE EndOK(d)'
  BY <1>2 DEF Typed, Steady, EndOK, CallerOK
<1>8. ASSUME NEW q \in Callers PROVE CallerOK(q)'
  BY <1>2 DEF Typed, Steady, CallerOK, EndOK
<1> QED
  BY <1>1, <1>3, <1>4, <1>5, <1>6, <1>7, <1>8

LEMMA WakeInv ==
    ASSUME IInv, NEW p \in Callers, Wake(p)
    PROVE  IInv'
<1> USE Values, DeviceAssumption DEF IInv, Wake, Goto, PopEvent, rowVars, socketVars, deviceVars, worldVars
<1>1. Typed'
  BY DEF Typed, Place
<1>2. Steady
  BY DEF Typed, Steady, Open, AfterTimeout, Lapsed
<1>3. ASSUME NEW d \in Commands PROVE FrameOK(d)'
  BY <1>2, SameFrames, FramesKept
<1>4. ASSUME NEW d \in Commands PROVE DeviceOK(d)'
  BY <1>2 DEF Typed, Steady, DeviceOK, Free, RouteOK
<1>5. ASSUME NEW q \in Callers PROVE RouteOK(q)'
  BY <1>2, SameFrames, RoutesKept DEF Typed
<1>6. ASSUME NEW m \in Connections PROVE ReplyOK(m)'
  BY <1>2, RepliesKept
<1>7. ASSUME NEW d \in Commands PROVE EndOK(d)'
  BY <1>2 DEF Typed, Steady, EndOK, CallerOK
<1>8. ASSUME NEW q \in Callers PROVE CallerOK(q)'
  BY <1>2 DEF Typed, Steady, CallerOK, EndOK
<1> QED
  BY <1>1, <1>3, <1>4, <1>5, <1>6, <1>7, <1>8

LEMMA WaitTimesOutInv ==
    ASSUME IInv, NEW p \in Callers, WaitTimesOut(p)
    PROVE  IInv'
<1> USE Values, DeviceAssumption DEF IInv, WaitTimesOut, Goto, Return, PopEvent, rowVars, socketVars, deviceVars, worldVars
<1>1. Typed'
  BY DEF Typed, Place
<1>2. Steady
  BY DEF Typed, Steady, Open, AfterTimeout, Lapsed
<1>3. ASSUME NEW d \in Commands PROVE FrameOK(d)'
  BY <1>2, SameFrames, FramesKept
<1>4. ASSUME NEW d \in Commands PROVE DeviceOK(d)'
  BY <1>2 DEF Typed, Steady, DeviceOK, Free, RouteOK
<1>5. ASSUME NEW q \in Callers PROVE RouteOK(q)'
  BY <1>2, SameFrames, RoutesKept DEF Typed
<1>6. ASSUME NEW m \in Connections PROVE ReplyOK(m)'
  BY <1>2, RepliesKept
<1>7. ASSUME NEW d \in Commands PROVE EndOK(d)'
  BY <1>2 DEF Typed, Steady, EndOK, CallerOK
<1>8. ASSUME NEW q \in Callers PROVE CallerOK(q)'
  BY <1>2 DEF Typed, Steady, CallerOK, EndOK
<1> QED
  BY <1>1, <1>3, <1>4, <1>5, <1>6, <1>7, <1>8

LEMMA ReadInv ==
    ASSUME IInv, NEW p \in Callers, Read(p)
    PROVE  IInv'
<1> USE Values, DeviceAssumption DEF IInv, Read, Goto, Return, SetStatus, MarkTimeout, gatewayVars, socketVars, deviceVars, worldVars
<1>1. Typed'
  <2>1. MarkTimeout(KeyOf[p])
    BY DEF Read
  <2>2. status' \in [Commands -> Status] /\ UNCHANGED <<sentAt, offline>> /\ AfterTimeout(KeyOf[p]) \in Answer
    BY <2>1, TimeoutMarked
  <2> HIDE DEF MarkTimeout
  <2> QED
    BY <2>2 DEF Typed, Place
<1>2. Steady
  BY DEF Typed, Steady, Open, AfterTimeout, Lapsed
<1>3. ASSUME NEW d \in Commands PROVE FrameOK(d)'
  BY <1>2, SameFrames, FramesKept
<1>4. ASSUME NEW d \in Commands PROVE DeviceOK(d)'
  BY <1>2 DEF Typed, Steady, DeviceOK, Free, RouteOK
<1>5. ASSUME NEW q \in Callers PROVE RouteOK(q)'
  BY <1>2, SameFrames, RoutesKept DEF Typed
<1>6. ASSUME NEW m \in Connections PROVE ReplyOK(m)'
  BY <1>2, RepliesKept
<1>7. ASSUME NEW d \in Commands PROVE EndOK(d)'
  BY <1>2 DEF Typed, Steady, EndOK, CallerOK
<1>8. ASSUME NEW q \in Callers PROVE CallerOK(q)'
  BY <1>2 DEF Typed, Steady, CallerOK, EndOK
<1> QED
  BY <1>1, <1>3, <1>4, <1>5, <1>6, <1>7, <1>8

LEMMA CutOffInv ==
    ASSUME IInv, NEW p \in Callers, CutOff(p)
    PROVE  IInv'
<1> USE Values, DeviceAssumption DEF IInv, CutOff, rowVars, gatewayVars, socketVars, deviceVars, worldVars
<1>0. /\ events' \in [Commands -> Callers \cup {None}]
      /\ \A d \in Commands : events'[d] \in {events[d], None}
  <2>1. CASE pc[p] = "wait"
    BY <2>1 DEF PopEvent, Typed
  <2>2. CASE pc[p] # "wait"
    BY <2>2 DEF Typed
  <2> QED
    BY <2>1, <2>2
<1>1. Typed'
  BY <1>0 DEF Typed, Place
<1>2. Steady
  BY DEF Typed, Steady, Open, AfterTimeout, Lapsed
<1>3. ASSUME NEW d \in Commands PROVE FrameOK(d)'
  BY <1>2, SameFrames, FramesKept
<1>4. ASSUME NEW d \in Commands PROVE DeviceOK(d)'
  BY <1>2 DEF Typed, Steady, DeviceOK, Free, RouteOK
<1>5. ASSUME NEW q \in Callers PROVE RouteOK(q)'
  BY <1>2, SameFrames, RoutesKept DEF Typed
<1>6. ASSUME NEW m \in Connections PROVE ReplyOK(m)'
  BY <1>2, RepliesKept
<1>7. ASSUME NEW d \in Commands PROVE EndOK(d)'
  BY <1>0, <1>2 DEF Typed, Steady, EndOK, CallerOK
<1>8. ASSUME NEW q \in Callers PROVE CallerOK(q)'
  BY <1>2 DEF Typed, Steady, CallerOK, EndOK
<1> QED
  BY <1>1, <1>3, <1>4, <1>5, <1>6, <1>7, <1>8

LEMMA CutOffMuteInv ==
    ASSUME IInv, NEW p \in Callers, CutOffMute(p)
    PROVE  IInv'
<1> USE Values, DeviceAssumption DEF IInv, CutOffMute, Goto, SetStatus, Open, gatewayVars, socketVars, deviceVars, worldVars
<1>1. Typed'
  BY DEF Typed, Place
<1>2. Steady
  BY DEF Typed, Steady, Open, AfterTimeout, Lapsed
<1>3. ASSUME NEW d \in Commands PROVE FrameOK(d)'
  BY <1>2, SameFrames, FramesKept
<1>4. ASSUME NEW d \in Commands PROVE DeviceOK(d)'
  BY <1>2 DEF Typed, Steady, DeviceOK, Free, RouteOK
<1>5. ASSUME NEW q \in Callers PROVE RouteOK(q)'
  BY <1>2, SameFrames, RoutesKept DEF Typed
<1>6. ASSUME NEW m \in Connections PROVE ReplyOK(m)'
  BY <1>2, RepliesKept
<1>7. ASSUME NEW d \in Commands PROVE EndOK(d)'
  BY <1>2 DEF Typed, Steady, EndOK, CallerOK
<1>8. ASSUME NEW q \in Callers PROVE CallerOK(q)'
  BY <1>2 DEF Typed, Steady, CallerOK, EndOK
<1> QED
  BY <1>1, <1>3, <1>4, <1>5, <1>6, <1>7, <1>8

LEMMA NotifyInv ==
    ASSUME IInv, NEW c \in Commands, Notify(c)
    PROVE  IInv'
<1> USE Values, DeviceAssumption DEF IInv, Notify, Announce, rowVars, callerVars, socketVars, deviceVars, worldVars
<1>1. Typed'
  BY DEF Typed, Place
<1>2. Steady
  BY DEF Typed, Steady, Open, AfterTimeout, Lapsed
<1>3. ASSUME NEW d \in Commands PROVE FrameOK(d)'
  BY <1>2, SameFrames, FramesKept
<1>4. ASSUME NEW d \in Commands PROVE DeviceOK(d)'
  BY <1>2 DEF Typed, Steady, DeviceOK, Free, RouteOK
<1>5. ASSUME NEW q \in Callers PROVE RouteOK(q)'
  BY <1>2, SameFrames, RoutesKept DEF Typed
<1>6. ASSUME NEW m \in Connections PROVE ReplyOK(m)'
  BY <1>2, RepliesKept
<1>7. ASSUME NEW d \in Commands PROVE EndOK(d)'
  BY <1>2 DEF Typed, Steady, EndOK, CallerOK
<1>8. ASSUME NEW q \in Callers PROVE CallerOK(q)'
  BY <1>2 DEF Typed, Steady, CallerOK, EndOK
<1> QED
  BY <1>1, <1>3, <1>4, <1>5, <1>6, <1>7, <1>8

LEMMA TimerFiresInv ==
    ASSUME IInv, NEW c \in Commands, TimerFires(c)
    PROVE  IInv'
<1> USE Values, DeviceAssumption DEF IInv, TimerFires, SetStatus, MarkTimeout, callerVars, socketVars, deviceVars, worldVars
<1>1. Typed'
  <2>1. MarkTimeout(c)
    BY DEF TimerFires
  <2>2. status' \in [Commands -> Status] /\ UNCHANGED <<sentAt, offline>> /\ AfterTimeout(c) \in Answer
    BY <2>1, TimeoutMarked
  <2> HIDE DEF MarkTimeout
  <2> QED
    BY <2>2 DEF Typed, Place
<1>2. Steady
  BY DEF Typed, Steady, Open, AfterTimeout, Lapsed
<1>3. ASSUME NEW d \in Commands PROVE FrameOK(d)'
  BY <1>2, SameFrames, FramesKept
<1>4. ASSUME NEW d \in Commands PROVE DeviceOK(d)'
  BY <1>2 DEF Typed, Steady, DeviceOK, Free, RouteOK
<1>5. ASSUME NEW q \in Callers PROVE RouteOK(q)'
  BY <1>2, SameFrames, RoutesKept DEF Typed
<1>6. ASSUME NEW m \in Connections PROVE ReplyOK(m)'
  BY <1>2, RepliesKept
<1>7. ASSUME NEW d \in Commands PROVE EndOK(d)'
  <2>1. MarkTimeout(c) /\ status[c] # "absent" /\ c \in overdue
    BY DEF EndOK
  <2>2. status'[c] \in Terminal
    BY <2>1, TimeoutMarked
  <2>3. EndOK(d)
    OBVIOUS
  <2> HIDE DEF MarkTimeout
  <2> QED
    BY <1>2, <2>2, <2>3 DEF EndOK, Steady
<1>8. ASSUME NEW q \in Callers PROVE CallerOK(q)'
  BY <1>2 DEF Typed, Steady, CallerOK, EndOK
<1> QED
  BY <1>1, <1>3, <1>4, <1>5, <1>6, <1>7, <1>8

LEMMA AdminReadsInv ==
    ASSUME IInv, NEW c \in Commands, AdminReads(c)
    PROVE  IInv'
<1> USE Values, DeviceAssumption DEF IInv, AdminReads, SetStatus, MarkTimeout, Open, callerVars, gatewayVars, socketVars, deviceVars, worldVars
<1>1. Typed'
  <2>1. MarkTimeout(c)
    BY DEF AdminReads
  <2>2. status' \in [Commands -> Status] /\ UNCHANGED <<sentAt, offline>> /\ AfterTimeout(c) \in Answer
    BY <2>1, TimeoutMarked
  <2> HIDE DEF MarkTimeout
  <2> QED
    BY <2>2 DEF Typed, Place
<1>2. Steady
  BY DEF Typed, Steady, Open, AfterTimeout, Lapsed
<1>3. ASSUME NEW d \in Commands PROVE FrameOK(d)'
  BY <1>2, SameFrames, FramesKept
<1>4. ASSUME NEW d \in Commands PROVE DeviceOK(d)'
  BY <1>2 DEF Typed, Steady, DeviceOK, Free, RouteOK
<1>5. ASSUME NEW q \in Callers PROVE RouteOK(q)'
  BY <1>2, SameFrames, RoutesKept DEF Typed
<1>6. ASSUME NEW m \in Connections PROVE ReplyOK(m)'
  BY <1>2, RepliesKept
<1>7. ASSUME NEW d \in Commands PROVE EndOK(d)'
  BY <1>2 DEF Typed, Steady, EndOK, CallerOK
<1>8. ASSUME NEW q \in Callers PROVE CallerOK(q)'
  BY <1>2 DEF Typed, Steady, CallerOK, EndOK
<1> QED
  BY <1>1, <1>3, <1>4, <1>5, <1>6, <1>7, <1>8

LEMMA CancelCommandInv ==
    ASSUME IInv, NEW c \in Commands, CancelCommand(c)
    PROVE  IInv'
<1> USE Values, DeviceAssumption DEF IInv, CancelCommand, SetStatus, Open, callerVars, socketVars, deviceVars
<1>1. Typed'
  BY DEF Typed, Place
<1>2. Steady
  BY DEF Typed, Steady, Open, AfterTimeout, Lapsed
<1>3. ASSUME NEW d \in Commands PROVE FrameOK(d)'
  BY <1>2, SameFrames, FramesKept
<1>4. ASSUME NEW d \in Commands PROVE DeviceOK(d)'
  BY <1>2 DEF Typed, Steady, DeviceOK, Free, RouteOK
<1>5. ASSUME NEW q \in Callers PROVE RouteOK(q)'
  BY <1>2, SameFrames, RoutesKept DEF Typed
<1>6. ASSUME NEW m \in Connections PROVE ReplyOK(m)'
  BY <1>2, RepliesKept
<1>7. ASSUME NEW d \in Commands PROVE EndOK(d)'
  <2>1. status'[c] \in Terminal
    BY DEF Typed, Status
  <2>2. EndOK(d)
    OBVIOUS
  <2> QED
    BY <1>2, <2>1, <2>2 DEF EndOK, Steady, Typed
<1>8. ASSUME NEW q \in Callers PROVE CallerOK(q)'
  BY <1>2 DEF Typed, Steady, CallerOK, EndOK
<1> QED
  BY <1>1, <1>3, <1>4, <1>5, <1>6, <1>7, <1>8

LEMMA SendCancelInv ==
    ASSUME IInv, NEW c \in Commands, SendCancel(c)
    PROVE  IInv'
<1> USE Values, DeviceAssumption DEF IInv, SendCancel, Announce, rowVars, callerVars, deviceVars
<1>0. /\ toDevice' \in [Connections -> Seq(ToDevice)]
      /\ \A m \in Connections, k \in Nat, d \in Commands : IsFrame(m, k, d)' => IsFrame(m, k, d)
  <2>1. CASE registered # 0 /\ socket[registered] = "open"
    <3>1. registered \in Connections /\ <<"cancel", c>> \in ToDevice /\ Typed
      BY <2>1 DEF Typed, ToDevice
    <3>2. toDevice' = [toDevice EXCEPT ![registered] = Append(@, <<"cancel", c>>)]
      BY <2>1
    <3>3. \A d \in Commands : <<"cancel", c>> # <<"execute", d>>
      OBVIOUS
    <3> HIDE DEF IInv, SendCancel
    <3> QED
      BY <3>1, <3>2, <3>3, AppendFrames
  <2>2. CASE ~(registered # 0 /\ socket[registered] = "open")
    <3>1. toDevice' = toDevice
      BY <2>2
    <3> QED
      BY <3>1, SameFrames DEF Typed
  <2> QED
    BY <2>1, <2>2
<1>1. Typed'
  BY <1>0 DEF Typed, Place
<1>2. Steady
  BY DEF Typed, Steady, Open, AfterTimeout, Lapsed
<1>3. ASSUME NEW d \in Commands PROVE FrameOK(d)'
  BY <1>0, <1>2, FramesKept
<1>4. ASSUME NEW d \in Commands PROVE DeviceOK(d)'
  BY <1>2 DEF Typed, Steady, DeviceOK, Free, RouteOK
<1>5. ASSUME NEW q \in Callers PROVE RouteOK(q)'
  <2>1. \A m \in Connections, k \in Nat, d \in Commands :
            IsFrame(m, k, d)' => \E l \in Nat : IsFrame(m, l, d)
    BY <1>0
  <2> QED
    BY <1>2, <2>1, RoutesKept
<1>6. ASSUME NEW m \in Connections PROVE ReplyOK(m)'
  BY <1>2, RepliesKept
<1>7. ASSUME NEW d \in Commands PROVE EndOK(d)'
  BY <1>2 DEF Typed, Steady, EndOK, CallerOK
<1>8. ASSUME NEW q \in Callers PROVE CallerOK(q)'
  BY <1>2 DEF Typed, Steady, CallerOK, EndOK
<1> QED
  BY <1>1, <1>3, <1>4, <1>5, <1>6, <1>7, <1>8

LEMMA ExecuteInv ==
    ASSUME IInv, NEW c \in Commands, Execute(c)
    PROVE  IInv'
<1> USE Values, DeviceAssumption DEF IInv, Execute, rowVars, callerVars, gatewayVars, worldVars
<1>0. /\ c \in Commands /\ c \in running /\ executed[c] = 0 /\ ~ Free(c) /\ status[c] # "absent" /\ ~ offline[c]
      /\ running' = running \ {c}
      /\ \A b \in Commands : executed'[b] = IF b = c THEN 1 ELSE executed[b]
      /\ executed' \in [Commands -> Nat]
      /\ \A b \in Commands : b # c => (Free(b)' <=> Free(b))
      /\ ~ Free(c)'
  <2>1. /\ c \in running /\ executed[c] = 0 /\ ~ Free(c) /\ status[c] # "absent" /\ ~ offline[c]
    BY DEF DeviceOK, Free
  <2>2. \A b \in Commands : executed'[b] = IF b = c THEN 1 ELSE executed[b]
    BY <2>1 DEF Typed
  <2>3. executed' \in [Commands -> Nat]
    BY DEF Typed
  <2>4. ASSUME NEW b \in Commands, b # c PROVE Free(b)' <=> Free(b)
    BY <2>2, <2>4 DEF Free
  <2>5. ~ Free(c)' /\ running' = running \ {c}
    BY <2>2 DEF Free
  <2> QED
    BY <2>1, <2>2, <2>3, <2>4, <2>5
<1>s. Steady
  BY DEF Typed, Steady
<1>r. toHub' \in [Connections -> Seq(ToHub)] /\ \A m \in Connections : ReplyOK(m)'
  <2>1. PICK o \in {"succeeded", "failed"} : Reply(<< <<o, c>> >>)
    OBVIOUS
  <2>2. << <<o, c>> >> \in Seq(ToHub)
    <3>1. <<o, c>> \in ToHub
      BY DEF ToHub
    <3> QED
      BY <3>1
  <2>3. \A b \in Commands : executed[b] = 1 => executed'[b] = 1
    BY <1>0
  <2>4. \A k \in 1..Len(<< <<o, c>> >>) :
           /\ status'[<< <<o, c>> >>[k][2]] # "absent"
           /\ << <<o, c>> >>[k][1] = "succeeded" => executed'[<< <<o, c>> >>[k][2]] = 1
    BY <1>0
  <2> HIDE DEF Execute, Reply
  <2>5. IInv
    OBVIOUS
  <2> HIDE DEF IInv
  <2> QED
    BY <1>s, <2>1, <2>2, <2>3, <2>4, <2>5, ReplyTrue
<1>1. Typed'
  BY <1>0, <1>r DEF Typed, Place
<1>2. Steady
  BY DEF Typed, Steady, Open, AfterTimeout, Lapsed
<1>3. ASSUME NEW d \in Commands PROVE FrameOK(d)'
  <2>1. CASE d = c
    BY <1>0, <2>1, SameFrames DEF FrameOK
  <2>2. CASE d # c
    <3>1. FrameOK(d) /\ (Free(d)' <=> Free(d))
      BY <1>0, <2>2
    <3> QED
      BY <3>1, SameFrames DEF FrameOK
  <2> QED
    BY <2>1, <2>2
<1>4. ASSUME NEW d \in Commands PROVE DeviceOK(d)'
  <2>1. DeviceOK(d)
    OBVIOUS
  <2> QED
    BY <1>0, <2>1 DEF DeviceOK, Free, Typed
<1>5. ASSUME NEW q \in Callers PROVE RouteOK(q)'
  <2>1. CASE pc[q] = "route"
    <3>1. RouteOK(q)
      OBVIOUS
    <3>2. KeyOf[q] # c
      BY <1>0, <2>1, <3>1 DEF RouteOK
    <3>3. Free(KeyOf[q])' <=> Free(KeyOf[q])
      BY <1>0, <3>2
    <3> QED
      BY <3>1, <3>3, SameFrames DEF RouteOK
  <2>2. CASE pc[q] # "route"
    BY <2>2 DEF RouteOK
  <2> QED
    BY <2>1, <2>2
<1>6. ASSUME NEW m \in Connections PROVE ReplyOK(m)'
  BY <1>r
<1>7. ASSUME NEW d \in Commands PROVE EndOK(d)'
  BY <1>2 DEF Typed, Steady, EndOK, CallerOK
<1>8. ASSUME NEW q \in Callers PROVE CallerOK(q)'
  BY <1>2 DEF Typed, Steady, CallerOK, EndOK
<1> QED
  BY <1>1, <1>3, <1>4, <1>5, <1>6, <1>7, <1>8

LEMMA ExpireInv ==
    ASSUME IInv, NEW c \in Commands, Expire(c)
    PROVE  IInv'
<1> USE Values, DeviceAssumption DEF IInv, Expire, Open, rowVars, callerVars, gatewayVars, socketVars, deviceVars
<1>1. Typed'
  BY DEF Typed, Place
<1>2. Steady
  BY DEF Typed, Steady, Open, AfterTimeout, Lapsed
<1>3. ASSUME NEW d \in Commands PROVE FrameOK(d)'
  BY <1>2, SameFrames, FramesKept
<1>4. ASSUME NEW d \in Commands PROVE DeviceOK(d)'
  BY <1>2 DEF Typed, Steady, DeviceOK, Free, RouteOK
<1>5. ASSUME NEW q \in Callers PROVE RouteOK(q)'
  BY <1>2, SameFrames, RoutesKept DEF Typed
<1>6. ASSUME NEW m \in Connections PROVE ReplyOK(m)'
  BY <1>2, RepliesKept
<1>7. ASSUME NEW d \in Commands PROVE EndOK(d)'
  BY <1>2 DEF Typed, Steady, EndOK, CallerOK
<1>8. ASSUME NEW q \in Callers PROVE CallerOK(q)'
  BY <1>2 DEF Typed, Steady, CallerOK, EndOK
<1> QED
  BY <1>1, <1>3, <1>4, <1>5, <1>6, <1>7, <1>8

LEMMA HandleFrameInv ==
    ASSUME IInv, NEW n \in Connections, HandleFrame(n)
    PROVE  IInv'
<1> USE Values, DeviceAssumption DEF IInv
<1>0. PICK c \in Commands, s \in Status :
        /\ status' = [status EXCEPT ![c] = s]
        /\ status[c] # "absent" /\ s # "absent"
        /\ status[c] \in Terminal => s = status[c]
        /\ s = "succeeded" => status[c] = "succeeded" \/ executed[c] = 1
        /\ notify' = notify \/ (notify' = notify \cup {c} /\ s \in Terminal)
        /\ toHub[n] # <<>> /\ toHub' = [toHub EXCEPT ![n] = Tail(@)]
        /\ UNCHANGED <<sentAt, offline, callerVars, events, fired, timer, socket, registered,
                       toDevice, deviceVars, worldVars>>
  <2> DEFINE f == Head(toHub[n])
  <2>1. toHub[n] # <<>> /\ toHub[n] \in Seq(ToHub) /\ ReplyOK(n)
    BY DEF HandleFrame, Typed
  <2>2. f = toHub[n][1] /\ 1 \in 1..Len(toHub[n]) /\ f \in ToHub
    BY <2>1
  <2>3. /\ f[1] \in {"ack", "succeeded", "failed"} /\ f[2] \in Commands
        /\ status[f[2]] # "absent"
        /\ f[1] = "succeeded" => executed[f[2]] = 1
    BY <2>1, <2>2 DEF ToHub, ReplyOK
  <2>4. /\ toHub' = [toHub EXCEPT ![n] = Tail(@)]
        /\ UNCHANGED <<callerVars, events, fired, timer, socket, registered, toDevice, deviceVars, worldVars>>
        /\ IF f[1] = "ack" THEN HandleAck(f[2]) ELSE HandleResult(f[2], f[1])
    BY DEF HandleFrame
  <2> HIDE DEF f
  <2>5. status[f[2]] \in Status \ {"absent"}
    <3>1. status \in [Commands -> Status]
      BY DEF Typed
    <3> HIDE DEF IInv
    <3> QED
      BY <2>3, <3>1
  <2>6. CASE f[1] = "ack"
    <3> DEFINE s == IF status[f[2]] # "sent" THEN status[f[2]]
                    ELSE IF f[2] \in overdue THEN Lapsed(f[2]) ELSE "acknowledged"
    <3>1. status' = [status EXCEPT ![f[2]] = s] /\ UNCHANGED <<sentAt, offline, notify>>
      BY <2>4, <2>6 DEF HandleAck, SetStatus
    <3>2. /\ s \in Status /\ s # "absent"
          /\ status[f[2]] \in Terminal => s = status[f[2]]
          /\ s = "succeeded" => status[f[2]] = "succeeded"
      BY <2>5 DEF Lapsed
    <3> HIDE DEF s
    <3> HIDE DEF IInv
    <3>3. s = "succeeded" => status[f[2]] = "succeeded" \/ executed[f[2]] = 1
      BY <2>3, <3>2
    <3>4. notify' = notify \/ (notify' = notify \cup {f[2]} /\ s \in Terminal)
      BY <3>1, <3>2
    <3>5. f[2] \in Commands /\ s \in Status
      BY <2>3, <3>2
    <3> QED
      BY <2>1, <2>3, <2>4, <3>1, <3>2, <3>3, <3>4, <3>5
  <2>7. CASE f[1] # "ack"
    <3> DEFINE s == IF ~Open(f[2]) THEN status[f[2]]
                    ELSE IF f[2] \in overdue THEN Lapsed(f[2])
                    ELSE IF status[f[2]] = "pending" THEN "pending" ELSE f[1]
    <3>1. /\ status' = [status EXCEPT ![f[2]] = s] /\ UNCHANGED <<sentAt, offline>>
          /\ notify' = IF status[f[2]] = "pending" /\ f[2] \notin overdue THEN notify
                       ELSE notify \cup {f[2]}
      BY <2>4, <2>7 DEF HandleResult, SetStatus
    <3>2. /\ s \in Status /\ s # "absent"
          /\ status[f[2]] \in Terminal => s = status[f[2]]
          /\ s = "succeeded" => status[f[2]] = "succeeded" \/ f[1] = "succeeded"
          /\ ~(status[f[2]] = "pending" /\ f[2] \notin overdue) => s \in Terminal
      BY <2>3, <2>5, <2>7 DEF Lapsed, Open, Status
    <3> HIDE DEF s
    <3> HIDE DEF IInv
    <3>3. s = "succeeded" => status[f[2]] = "succeeded" \/ executed[f[2]] = 1
      BY <2>3, <3>2
    <3>4. notify' = notify \/ (notify' = notify \cup {f[2]} /\ s \in Terminal)
      BY <3>1, <3>2
    <3>5. f[2] \in Commands /\ s \in Status
      BY <2>3, <3>2
    <3> QED
      BY <2>1, <2>3, <2>4, <3>1, <3>2, <3>3, <3>4, <3>5
  <2> QED
    BY <2>6, <2>7
<1> USE DEF callerVars, deviceVars, worldVars
<1>1. Typed'
  <2>1. toHub[n] \in Seq(ToHub) /\ Tail(toHub[n]) \in Seq(ToHub)
    BY <1>0 DEF Typed
  <2>2. toHub' \in [Connections -> Seq(ToHub)] /\ status' \in [Commands -> Status]
    BY <1>0, <2>1 DEF Typed
  <2> QED
    BY <1>0, <2>2 DEF Typed
<1>2. Steady
  BY <1>0 DEF Typed, Steady
<1>3. ASSUME NEW d \in Commands PROVE FrameOK(d)'
  BY <1>0, <1>2, SameFrames, FramesKept
<1>4. ASSUME NEW d \in Commands PROVE DeviceOK(d)'
  <2>1. DeviceOK(d) /\ (Free(d)' <=> Free(d))
    BY <1>0 DEF Free
  <2> QED
    BY <1>0, <1>2, <2>1 DEF DeviceOK, Steady
<1>5. ASSUME NEW q \in Callers PROVE RouteOK(q)'
  <2>1. \A m \in Connections, k \in Nat, b \in Commands :
            IsFrame(m, k, b)' => \E l \in Nat : IsFrame(m, l, b)
    BY <1>0, SameFrames
  <2> QED
    BY <1>0, <1>2, <2>1, RoutesKept
<1>6. ASSUME NEW m \in Connections PROVE ReplyOK(m)'
  <2> SUFFICES ASSUME NEW k \in 1..Len(toHub'[m])
               PROVE  /\ status'[toHub'[m][k][2]] # "absent"
                      /\ toHub'[m][k][1] = "succeeded" => executed'[toHub'[m][k][2]] = 1
    BY DEF ReplyOK
  <2>1. toHub[m] \in Seq(ToHub) /\ ReplyOK(m)
    BY DEF Typed
  <2>2. PICK l \in 1..Len(toHub[m]) : toHub'[m][k] = toHub[m][l]
    <3>1. CASE m = n
      <4>1. toHub'[m] = Tail(toHub[m]) /\ toHub[m] # <<>>
        BY <1>0, <3>1 DEF Typed
      <4>2. k \in 1..(Len(toHub[m]) - 1) /\ Tail(toHub[m])[k] = toHub[m][k + 1]
        BY <2>1, <4>1
      <4>3. k + 1 \in 1..Len(toHub[m])
        BY <2>1, <4>2
      <4> QED
        BY <4>1, <4>2, <4>3
    <3>2. CASE m # n
      <4>1. toHub'[m] = toHub[m]
        BY <1>0, <3>2 DEF Typed
      <4> QED
        BY <4>1
    <3> QED
      BY <3>1, <3>2
  <2>3. toHub[m][l] \in ToHub
    BY <2>1
  <2>4. toHub[m][l][2] \in Commands
    BY <2>3 DEF ToHub
  <2> QED
    BY <1>0, <1>2, <2>1, <2>2, <2>4 DEF ReplyOK, Steady
<1>7. ASSUME NEW d \in Commands PROVE EndOK(d)'
  <2>1. EndOK(d)
    OBVIOUS
  <2> QED
    BY <1>0, <1>2, <2>1 DEF EndOK, Steady, Typed
<1>8. ASSUME NEW q \in Callers PROVE CallerOK(q)'
  <2>1. CallerOK(q)
    OBVIOUS
  <2> QED
    BY <1>0, <1>2, <2>1 DEF CallerOK, Steady
<1> QED
  BY <1>1, <1>3, <1>4, <1>5, <1>6, <1>7, <1>8

LEMMA TakeCancelInv ==
    ASSUME IInv, NEW n \in Connections, TakeCancel(n)
    PROVE  IInv'
<1> USE Values, DeviceAssumption DEF IInv, TakeCancel, Take, rowVars, callerVars, gatewayVars, worldVars
<1>0. /\ toDevice' \in [Connections -> Seq(ToDevice)]
      /\ Head(toDevice[n]) \in ToDevice
      /\ \A b \in Commands : Head(toDevice[n]) = <<"execute", b>> => IsFrame(n, 1, b)
      /\ \A m \in Connections, k \in Nat, b \in Commands :
            IsFrame(m, k, b)' => IF m = n THEN k + 1 \in Nat /\ k >= 1 /\ IsFrame(n, k + 1, b)
                                 ELSE IsFrame(m, k, b)
  <2>1. Typed /\ toDevice[n] # <<>> /\ toDevice' = [toDevice EXCEPT ![n] = Tail(@)]
    OBVIOUS
  <2> HIDE DEF IInv, TakeCancel, Take
  <2> QED
    BY <2>1, TailFrames
<1>1. Typed'
  <2>1. Head(toDevice[n])[2] \in Commands
    BY <1>0 DEF ToDevice
  <2> QED
    BY <1>0, <2>1 DEF Typed, Place
<1>2. Steady
  BY DEF Typed, Steady, Open, AfterTimeout, Lapsed
<1>3. ASSUME NEW d \in Commands PROVE FrameOK(d)'
  <2>1. Free(d)' = Free(d) /\ FrameOK(d)
    BY DEF Free
  <2>2. ASSUME NEW m \in Connections, NEW k \in Nat, IsFrame(m, k, d)'
        PROVE  /\ Free(d)' /\ status'[d] # "absent"
               /\ \A o \in Connections, l \in Nat : IsFrame(o, l, d)' => o = m /\ l = k
    <3>1. PICK i \in Nat : IsFrame(m, i, d) /\ i = (IF m = n THEN k + 1 ELSE k)
      BY <1>0, <2>2
    <3>2. ASSUME NEW o \in Connections, NEW l \in Nat, IsFrame(o, l, d)' PROVE o = m /\ l = k
      <4>1. PICK j \in Nat : IsFrame(o, j, d) /\ j = (IF o = n THEN l + 1 ELSE l)
        BY <1>0, <3>2
      <4>2. o = m /\ j = i
        BY <2>1, <3>1, <4>1 DEF FrameOK
      <4> QED
        BY <3>1, <4>1, <4>2
    <3> QED
      BY <1>2, <2>1, <3>1, <3>2 DEF FrameOK, Steady
  <2> QED
    BY <2>2 DEF FrameOK
<1>4. ASSUME NEW d \in Commands PROVE DeviceOK(d)'
  BY <1>2 DEF Typed, Steady, DeviceOK, Free, RouteOK
<1>5. ASSUME NEW q \in Callers PROVE RouteOK(q)'
  <2>1. \A m \in Connections, k \in Nat, b \in Commands :
            IsFrame(m, k, b)' => \E l \in Nat : IsFrame(m, l, b)
    BY <1>0
  <2> QED
    BY <1>2, <2>1, RoutesKept
<1>6. ASSUME NEW m \in Connections PROVE ReplyOK(m)'
  BY <1>2, RepliesKept
<1>7. ASSUME NEW d \in Commands PROVE EndOK(d)'
  BY <1>2 DEF Typed, Steady, EndOK, CallerOK
<1>8. ASSUME NEW q \in Callers PROVE CallerOK(q)'
  BY <1>2 DEF Typed, Steady, CallerOK, EndOK
<1> QED
  BY <1>1, <1>3, <1>4, <1>5, <1>6, <1>7, <1>8

LEMMA BeginExecuteInv ==
    ASSUME IInv, NEW n \in Connections, BeginExecute(n)
    PROVE  IInv'
<1> USE Values, DeviceAssumption DEF IInv, BeginExecute, Take, Reply, rowVars, callerVars, gatewayVars, worldVars
<1>0. /\ toDevice' \in [Connections -> Seq(ToDevice)]
      /\ Head(toDevice[n]) \in ToDevice
      /\ \A b \in Commands : Head(toDevice[n]) = <<"execute", b>> => IsFrame(n, 1, b)
      /\ \A m \in Connections, k \in Nat, b \in Commands :
            IsFrame(m, k, b)' => IF m = n THEN k + 1 \in Nat /\ k >= 1 /\ IsFrame(n, k + 1, b)
                                 ELSE IsFrame(m, k, b)
  <2>1. Typed /\ toDevice[n] # <<>> /\ toDevice' = [toDevice EXCEPT ![n] = Tail(@)]
    OBVIOUS
  <2> HIDE DEF IInv, BeginExecute, Take
  <2> QED
    BY <2>1, TailFrames
<1>0a. /\ Head(toDevice[n])[2] \in Commands
       /\ Head(toDevice[n]) = <<"execute", Head(toDevice[n])[2]>>
       /\ IsFrame(n, 1, Head(toDevice[n])[2]) /\ Free(Head(toDevice[n])[2])
       /\ status[Head(toDevice[n])[2]] # "absent"
  <2>1. Head(toDevice[n])[2] \in Commands /\ Head(toDevice[n]) = <<"execute", Head(toDevice[n])[2]>>
    BY <1>0 DEF ToDevice
  <2>2. IsFrame(n, 1, Head(toDevice[n])[2])
    BY <1>0, <2>1
  <2> QED
    BY <2>1, <2>2 DEF FrameOK
<1>s. Steady
  BY DEF Typed, Steady
<1>r. toHub' \in [Connections -> Seq(ToHub)] /\ \A m \in Connections : ReplyOK(m)'
  <2>1. PICK frames \in Seq(ToHub) :
           /\ Reply(frames)
           /\ \A k \in 1..Len(frames) : frames[k][2] = Head(toDevice[n])[2] /\ frames[k][1] # "succeeded"
    <3>1. <<"ack", Head(toDevice[n])[2]>> \in ToHub
      BY <1>0a DEF ToHub
    <3>2. << <<"ack", Head(toDevice[n])[2]>> >> \in Seq(ToHub)
      BY <3>1
    <3> DEFINE frames == << <<"ack", Head(toDevice[n])[2]>> >>
    <3>3. Reply(frames) /\ frames \in Seq(ToHub)
      BY <3>2
    <3>4. \A k \in 1..Len(frames) : frames[k][2] = Head(toDevice[n])[2] /\ frames[k][1] # "succeeded"
      OBVIOUS
    <3> HIDE DEF frames
    <3> QED
      BY <3>3, <3>4
  <2>2. \A k \in 1..Len(frames) : /\ status'[frames[k][2]] # "absent"
                                  /\ frames[k][1] = "succeeded" => executed'[frames[k][2]] = 1
    BY <1>0a, <2>1
  <2>3. \A b \in Commands : executed[b] = 1 => executed'[b] = 1
    OBVIOUS
  <2> HIDE DEF BeginExecute, Take, Reply
  <2>4. IInv
    OBVIOUS
  <2> HIDE DEF IInv
  <2> QED
    BY <1>s, <2>1, <2>2, <2>3, <2>4, ReplyTrue
<1>1. Typed'
  BY <1>0, <1>0a, <1>r DEF Typed, Place
<1>2. Steady
  BY DEF Typed, Steady, Open, AfterTimeout, Lapsed
<1>3. ASSUME NEW d \in Commands PROVE FrameOK(d)'
  <2>1. CASE d = Head(toDevice[n])[2]
    <3>1. \A m \in Connections, k \in Nat : IsFrame(m, k, d) => m = n /\ k = 1
      BY <1>0a, <2>1 DEF FrameOK
    <3>2. \A m \in Connections, k \in Nat : ~ IsFrame(m, k, d)'
      BY <1>0, <3>1
    <3> QED
      BY <3>2 DEF FrameOK
  <2>2. CASE d # Head(toDevice[n])[2]
    <3>1. Free(d)' = Free(d) /\ FrameOK(d)
      BY <2>2 DEF Free
    <3>2. ASSUME NEW m \in Connections, NEW k \in Nat, IsFrame(m, k, d)'
          PROVE  /\ Free(d)' /\ status'[d] # "absent"
                 /\ \A o \in Connections, l \in Nat : IsFrame(o, l, d)' => o = m /\ l = k
      <4>1. PICK i \in Nat : IsFrame(m, i, d) /\ i = (IF m = n THEN k + 1 ELSE k)
        BY <1>0, <3>2
      <4>2. ASSUME NEW o \in Connections, NEW l \in Nat, IsFrame(o, l, d)' PROVE o = m /\ l = k
        <5>1. PICK j \in Nat : IsFrame(o, j, d) /\ j = (IF o = n THEN l + 1 ELSE l)
          BY <1>0, <4>2
        <5>2. o = m /\ j = i
          BY <3>1, <4>1, <5>1 DEF FrameOK
        <5> QED
          BY <4>1, <5>1, <5>2
      <4> QED
        BY <1>2, <3>1, <4>1, <4>2 DEF FrameOK, Steady
    <3> QED
      BY <3>2 DEF FrameOK
  <2> QED
    BY <2>1, <2>2
<1>4. ASSUME NEW d \in Commands PROVE DeviceOK(d)'
  <2>1. DeviceOK(d)
    OBVIOUS
  <2> QED
    BY <1>0a, <1>2, <2>1 DEF DeviceOK, Free, Steady, Typed
<1>5. ASSUME NEW q \in Callers PROVE RouteOK(q)'
  <2>1. CASE pc[q] = "route"
    <3>1. RouteOK(q)
      OBVIOUS
    <3>2. KeyOf[q] # Head(toDevice[n])[2]
      BY <1>0a, <2>1, <3>1 DEF RouteOK
    <3>3. Free(KeyOf[q])' = Free(KeyOf[q])
      BY <3>2 DEF Free
    <3>4. \A m \in Connections, k \in Nat : ~ IsFrame(m, k, KeyOf[q])'
      BY <1>0, <2>1, <3>1 DEF RouteOK
    <3> QED
      BY <2>1, <3>1, <3>3, <3>4 DEF RouteOK
  <2>2. CASE pc[q] # "route"
    BY <2>2 DEF RouteOK
  <2> QED
    BY <2>1, <2>2
<1>6. ASSUME NEW m \in Connections PROVE ReplyOK(m)'
  BY <1>r
<1>7. ASSUME NEW d \in Commands PROVE EndOK(d)'
  BY <1>2 DEF Typed, Steady, EndOK, CallerOK
<1>8. ASSUME NEW q \in Callers PROVE CallerOK(q)'
  BY <1>2 DEF Typed, Steady, CallerOK, EndOK
<1> QED
  BY <1>1, <1>3, <1>4, <1>5, <1>6, <1>7, <1>8

LEMMA RefuseExecuteInv ==
    ASSUME IInv, NEW n \in Connections, RefuseExecute(n)
    PROVE  IInv'
<1> USE Values, DeviceAssumption DEF IInv, RefuseExecute, Take, Reply, rowVars, callerVars, gatewayVars, deviceVars, worldVars
<1>0. /\ toDevice' \in [Connections -> Seq(ToDevice)]
      /\ Head(toDevice[n]) \in ToDevice
      /\ \A b \in Commands : Head(toDevice[n]) = <<"execute", b>> => IsFrame(n, 1, b)
      /\ \A m \in Connections, k \in Nat, b \in Commands :
            IsFrame(m, k, b)' => IF m = n THEN k + 1 \in Nat /\ k >= 1 /\ IsFrame(n, k + 1, b)
                                 ELSE IsFrame(m, k, b)
  <2>1. Typed /\ toDevice[n] # <<>> /\ toDevice' = [toDevice EXCEPT ![n] = Tail(@)]
    OBVIOUS
  <2> HIDE DEF IInv, RefuseExecute, Take
  <2> QED
    BY <2>1, TailFrames
<1>0a. /\ Head(toDevice[n])[2] \in Commands
       /\ Head(toDevice[n]) = <<"execute", Head(toDevice[n])[2]>>
       /\ IsFrame(n, 1, Head(toDevice[n])[2]) /\ Free(Head(toDevice[n])[2])
       /\ status[Head(toDevice[n])[2]] # "absent"
  <2>1. Head(toDevice[n])[2] \in Commands /\ Head(toDevice[n]) = <<"execute", Head(toDevice[n])[2]>>
    BY <1>0 DEF ToDevice
  <2>2. IsFrame(n, 1, Head(toDevice[n])[2])
    BY <1>0, <2>1
  <2> QED
    BY <2>1, <2>2 DEF FrameOK
<1>s. Steady
  BY DEF Typed, Steady
<1>r. toHub' \in [Connections -> Seq(ToHub)] /\ \A m \in Connections : ReplyOK(m)'
  <2>1. PICK frames \in Seq(ToHub) :
           /\ Reply(frames)
           /\ \A k \in 1..Len(frames) : frames[k][2] = Head(toDevice[n])[2] /\ frames[k][1] # "succeeded"
    <3>1. <<"ack", Head(toDevice[n])[2]>> \in ToHub /\ <<"failed", Head(toDevice[n])[2]>> \in ToHub
      BY <1>0a DEF ToHub
    <3>2. /\ << <<"failed", Head(toDevice[n])[2]>> >> \in Seq(ToHub)
          /\ << <<"ack", Head(toDevice[n])[2]>>, <<"failed", Head(toDevice[n])[2]>> >> \in Seq(ToHub)
      BY <3>1
    <3>3. CASE Reply(<< <<"failed", Head(toDevice[n])[2]>> >>)
      <4> DEFINE frames == << <<"failed", Head(toDevice[n])[2]>> >>
      <4>1. Reply(frames) /\ frames \in Seq(ToHub)
        BY <3>2, <3>3
      <4>2. \A k \in 1..Len(frames) : frames[k][2] = Head(toDevice[n])[2] /\ frames[k][1] # "succeeded"
        OBVIOUS
      <4> HIDE DEF frames
      <4> QED
        BY <4>1, <4>2
    <3>4. CASE Reply(<< <<"ack", Head(toDevice[n])[2]>>, <<"failed", Head(toDevice[n])[2]>> >>)
      <4> DEFINE frames == << <<"ack", Head(toDevice[n])[2]>>, <<"failed", Head(toDevice[n])[2]>> >>
      <4>1. Reply(frames) /\ frames \in Seq(ToHub)
        BY <3>2, <3>4
      <4>2. \A k \in 1..Len(frames) : frames[k][2] = Head(toDevice[n])[2] /\ frames[k][1] # "succeeded"
        OBVIOUS
      <4> HIDE DEF frames
      <4> QED
        BY <4>1, <4>2
    <3> QED
      BY <3>3, <3>4
  <2>2. \A k \in 1..Len(frames) : /\ status'[frames[k][2]] # "absent"
                                  /\ frames[k][1] = "succeeded" => executed'[frames[k][2]] = 1
    BY <1>0a, <2>1
  <2>3. \A b \in Commands : executed[b] = 1 => executed'[b] = 1
    OBVIOUS
  <2> HIDE DEF RefuseExecute, Take, Reply
  <2>4. IInv
    OBVIOUS
  <2> HIDE DEF IInv
  <2> QED
    BY <1>s, <2>1, <2>2, <2>3, <2>4, ReplyTrue
<1>1. Typed'
  BY <1>0, <1>0a, <1>r DEF Typed, Place
<1>2. Steady
  BY DEF Typed, Steady, Open, AfterTimeout, Lapsed
<1>3. ASSUME NEW d \in Commands PROVE FrameOK(d)'
  <2>1. Free(d)' = Free(d) /\ FrameOK(d)
    BY DEF Free
  <2>2. ASSUME NEW m \in Connections, NEW k \in Nat, IsFrame(m, k, d)'
        PROVE  /\ Free(d)' /\ status'[d] # "absent"
               /\ \A o \in Connections, l \in Nat : IsFrame(o, l, d)' => o = m /\ l = k
    <3>1. PICK i \in Nat : IsFrame(m, i, d) /\ i = (IF m = n THEN k + 1 ELSE k)
      BY <1>0, <2>2
    <3>2. ASSUME NEW o \in Connections, NEW l \in Nat, IsFrame(o, l, d)' PROVE o = m /\ l = k
      <4>1. PICK j \in Nat : IsFrame(o, j, d) /\ j = (IF o = n THEN l + 1 ELSE l)
        BY <1>0, <3>2
      <4>2. o = m /\ j = i
        BY <2>1, <3>1, <4>1 DEF FrameOK
      <4> QED
        BY <3>1, <4>1, <4>2
    <3> QED
      BY <1>2, <2>1, <3>1, <3>2 DEF FrameOK, Steady
  <2> QED
    BY <2>2 DEF FrameOK
<1>4. ASSUME NEW d \in Commands PROVE DeviceOK(d)'
  BY <1>2 DEF Typed, Steady, DeviceOK, Free, RouteOK
<1>5. ASSUME NEW q \in Callers PROVE RouteOK(q)'
  <2>1. \A m \in Connections, k \in Nat, b \in Commands :
            IsFrame(m, k, b)' => \E l \in Nat : IsFrame(m, l, b)
    BY <1>0
  <2> QED
    BY <1>2, <2>1, RoutesKept
<1>6. ASSUME NEW m \in Connections PROVE ReplyOK(m)'
  BY <1>r
<1>7. ASSUME NEW d \in Commands PROVE EndOK(d)'
  BY <1>2 DEF Typed, Steady, EndOK, CallerOK
<1>8. ASSUME NEW q \in Callers PROVE CallerOK(q)'
  BY <1>2 DEF Typed, Steady, CallerOK, EndOK
<1> QED
  BY <1>1, <1>3, <1>4, <1>5, <1>6, <1>7, <1>8

LEMMA ConnectInv ==
    ASSUME IInv, NEW n \in Connections, Connect(n)
    PROVE  IInv'
<1> USE Values, DeviceAssumption DEF IInv, Connect, rowVars, callerVars, gatewayVars, deviceVars
<1>1. Typed'
  <2>1. /\ socket' \in [Connections -> {"closed", "open", "broken"}]
        /\ toDevice' \in [Connections -> Seq(ToDevice)]
    BY DEF Typed
  <2>2. faults' \in 0..MaxFaults
    BY DEF Typed
  <2> QED
    BY <2>1, <2>2 DEF Typed
<1>2. Steady
  BY DEF Typed, Steady, Open, AfterTimeout, Lapsed
<1>3. ASSUME NEW d \in Commands PROVE FrameOK(d)'
  <2>1. \A k \in Connections : toDevice'[k] \in {toDevice[k], <<>>}
    BY DEF Typed
  <2>2. \A k \in Connections, l \in Nat, c \in Commands : IsFrame(k, l, c)' => IsFrame(k, l, c)
    BY <2>1 DEF IsFrame
  <2> QED
    BY <1>2, <2>2, FramesKept
<1>4. ASSUME NEW d \in Commands PROVE DeviceOK(d)'
  BY <1>2 DEF Typed, Steady, DeviceOK, Free, RouteOK
<1>5. ASSUME NEW q \in Callers PROVE RouteOK(q)'
  <2>1. \A k \in Connections : toDevice'[k] \in {toDevice[k], <<>>}
    BY DEF Typed
  <2>2. \A k \in Connections, l \in Nat, d \in Commands : IsFrame(k, l, d)' => IsFrame(k, l, d)
    BY <2>1 DEF IsFrame
  <2> QED
    BY <1>2, <2>2, RoutesKept
<1>6. ASSUME NEW m \in Connections PROVE ReplyOK(m)'
  BY <1>2, RepliesKept
<1>7. ASSUME NEW d \in Commands PROVE EndOK(d)'
  BY <1>2 DEF Typed, Steady, EndOK, CallerOK
<1>8. ASSUME NEW q \in Callers PROVE CallerOK(q)'
  BY <1>2 DEF Typed, Steady, CallerOK, EndOK
<1> QED
  BY <1>1, <1>3, <1>4, <1>5, <1>6, <1>7, <1>8

LEMMA SocketBreaksInv ==
    ASSUME IInv, NEW n \in Connections, SocketBreaks(n)
    PROVE  IInv'
<1> USE Values, DeviceAssumption DEF IInv, SocketBreaks, rowVars, callerVars, gatewayVars, deviceVars
<1>1. Typed'
  BY DEF Typed, Place
<1>2. Steady
  BY DEF Typed, Steady, Open, AfterTimeout, Lapsed
<1>3. ASSUME NEW d \in Commands PROVE FrameOK(d)'
  <2>1. \A k \in Connections : toDevice'[k] \in {toDevice[k], <<>>}
    BY DEF Typed
  <2>2. \A k \in Connections, l \in Nat, c \in Commands : IsFrame(k, l, c)' => IsFrame(k, l, c)
    BY <2>1 DEF IsFrame
  <2> QED
    BY <1>2, <2>2, FramesKept
<1>4. ASSUME NEW d \in Commands PROVE DeviceOK(d)'
  BY <1>2 DEF Typed, Steady, DeviceOK, Free, RouteOK
<1>5. ASSUME NEW q \in Callers PROVE RouteOK(q)'
  <2>1. \A k \in Connections : toDevice'[k] \in {toDevice[k], <<>>}
    BY DEF Typed
  <2>2. \A k \in Connections, l \in Nat, d \in Commands : IsFrame(k, l, d)' => IsFrame(k, l, d)
    BY <2>1 DEF IsFrame
  <2> QED
    BY <1>2, <2>2, RoutesKept
<1>6. ASSUME NEW m \in Connections PROVE ReplyOK(m)'
  BY <1>2, RepliesKept
<1>7. ASSUME NEW d \in Commands PROVE EndOK(d)'
  BY <1>2 DEF Typed, Steady, EndOK, CallerOK
<1>8. ASSUME NEW q \in Callers PROVE CallerOK(q)'
  BY <1>2 DEF Typed, Steady, CallerOK, EndOK
<1> QED
  BY <1>1, <1>3, <1>4, <1>5, <1>6, <1>7, <1>8

LEMMA NoticeClosedInv ==
    ASSUME IInv, NEW n \in Connections, NoticeClosed(n)
    PROVE  IInv'
<1> USE Values, DeviceAssumption DEF IInv, NoticeClosed, Disconnect, rowVars, callerVars, gatewayVars, deviceVars, worldVars
<1>1. Typed'
  BY DEF Typed, Place
<1>2. Steady
  BY DEF Typed, Steady, Open, AfterTimeout, Lapsed
<1>3. ASSUME NEW d \in Commands PROVE FrameOK(d)'
  BY <1>2, SameFrames, FramesKept
<1>4. ASSUME NEW d \in Commands PROVE DeviceOK(d)'
  BY <1>2 DEF Typed, Steady, DeviceOK, Free, RouteOK
<1>5. ASSUME NEW q \in Callers PROVE RouteOK(q)'
  BY <1>2, SameFrames, RoutesKept DEF Typed
<1>6. ASSUME NEW m \in Connections PROVE ReplyOK(m)'
  <2>1. \A k \in Connections : toHub'[k] \in {toHub[k], <<>>}
    BY DEF Typed
  <2> QED
    BY <1>2, <2>1, RepliesKept
<1>7. ASSUME NEW d \in Commands PROVE EndOK(d)'
  BY <1>2 DEF Typed, Steady, EndOK, CallerOK
<1>8. ASSUME NEW q \in Callers PROVE CallerOK(q)'
  BY <1>2 DEF Typed, Steady, CallerOK, EndOK
<1> QED
  BY <1>1, <1>3, <1>4, <1>5, <1>6, <1>7, <1>8

LEMMA RestartInv ==
    ASSUME IInv, Restart
    PROVE  IInv'
<1> USE Values, DeviceAssumption DEF IInv, Restart, rowVars, deviceVars
<1>1. Typed'
  BY DEF Typed, Place
<1>2. Steady
  BY DEF Typed, Steady, Open, AfterTimeout, Lapsed
<1>3. ASSUME NEW d \in Commands PROVE FrameOK(d)'
  <2>1. \A m \in Connections, k \in Nat, c \in Commands : ~ IsFrame(m, k, c)'
    BY DEF IsFrame
  <2> QED
    BY <1>2, <2>1, FramesKept
<1>4. ASSUME NEW d \in Commands PROVE DeviceOK(d)'
  BY <1>2 DEF Typed, Steady, DeviceOK, Free, RouteOK
<1>5. ASSUME NEW q \in Callers PROVE RouteOK(q)'
  BY DEF Typed, RouteOK
<1>6. ASSUME NEW m \in Connections PROVE ReplyOK(m)'
  BY <1>2, RepliesKept
<1>7. ASSUME NEW d \in Commands PROVE EndOK(d)'
  BY <1>2 DEF Typed, Steady, EndOK, CallerOK
<1>8. ASSUME NEW q \in Callers PROVE CallerOK(q)'
  BY <1>2 DEF Typed, Steady, CallerOK, EndOK
<1> QED
  BY <1>1, <1>3, <1>4, <1>5, <1>6, <1>7, <1>8

-----------------------------------------------------------------------------
(* The invariant holds of every step.                                      *)

LEMMA StutterInv == ASSUME IInv, UNCHANGED vars PROVE IInv'
<1> USE DEF IInv, vars, rowVars, callerVars, gatewayVars, socketVars, deviceVars, worldVars
<1>1. Typed'
  BY DEF Typed
<1>2. ASSUME NEW c \in Commands PROVE FrameOK(c)' /\ DeviceOK(c)' /\ EndOK(c)'
  BY DEF FrameOK, DeviceOK, EndOK, Free, IsFrame
<1>3. ASSUME NEW p \in Callers PROVE RouteOK(p)' /\ CallerOK(p)'
  BY DEF RouteOK, CallerOK, Free, IsFrame
<1>4. ASSUME NEW n \in Connections PROVE ReplyOK(n)'
  BY DEF ReplyOK
<1> QED
  BY <1>1, <1>2, <1>3, <1>4

LEMMA NextInv == IInv /\ [Next]_vars => IInv'
<1> SUFFICES ASSUME IInv, [Next]_vars PROVE IInv'
  OBVIOUS
<1>1. ASSUME NEW p \in Callers, CallerStep(p) \/ CutOff(p) \/ CutOffMute(p) PROVE IInv'
  BY <1>1, FindInv, InsertInv, RefuseDeviceInv, SendExecuteInv, SendRaisesInv, NotCapableInv,
     NoConnectionInv, MarkSentInv, MarkConflictsInv, ScheduleTimeoutInv, FailDeliveryInv, GetInv,
     JoinInv, LookAgainInv, WakeInv, WaitTimesOutInv, ReadInv, CutOffInv, CutOffMuteInv DEF CallerStep
<1>2. ASSUME NEW c \in Commands,
             \/ Notify(c) \/ TimerFires(c) \/ AdminReads(c) \/ CancelCommand(c)
             \/ SendCancel(c) \/ Execute(c) \/ Expire(c)
      PROVE  IInv'
  BY <1>2, NotifyInv, TimerFiresInv, AdminReadsInv, CancelCommandInv, SendCancelInv, ExecuteInv,
     ExpireInv
<1>3. ASSUME NEW n \in Connections,
             \/ HandleFrame(n) \/ TakeCancel(n) \/ BeginExecute(n) \/ RefuseExecute(n)
             \/ Connect(n) \/ SocketBreaks(n) \/ NoticeClosed(n)
      PROVE  IInv'
  BY <1>3, HandleFrameInv, TakeCancelInv, BeginExecuteInv, RefuseExecuteInv, ConnectInv,
     SocketBreaksInv, NoticeClosedInv
<1>4. CASE Restart
  BY <1>4, RestartInv
<1>5. CASE UNCHANGED vars
  BY <1>5, StutterInv
<1> QED
  BY <1>1, <1>2, <1>3, <1>4, <1>5 DEF Next

THEOREM Invariance == Spec => []IInv
BY InitInv, NextInv, PTL DEF Spec

-----------------------------------------------------------------------------
(* Theorems.                                                               *)

\* The variables have their types.
THEOREM TypeCorrect == Spec => []TypeOK
<1>1. IInv => TypeOK
  BY DEF IInv, Typed, TypeOK, Place, Answer
<1> QED
  BY <1>1, Invariance, PTL

\* A device carries a command out once at most (the unique idempotency key of
\* issue, and a frame that is never sent again).
THEOREM AtMostOnce == Spec => []ExecutedAtMostOnce
<1>1. IInv => ExecutedAtMostOnce
  BY DEF IInv, DeviceOK, ExecutedAtMostOnce
<1> QED
  BY <1>1, Invariance, PTL

\* A success was carried out, and what failed as device_offline was not.
THEOREM Honest == Spec => []StatusIsHonest
<1>1. IInv => StatusIsHonest
  BY DEF IInv, DeviceOK, StatusIsHonest
<1> QED
  BY <1>1, Invariance, PTL

\* All who wait for a command are told the same end (wait_for_terminal), and the
\* row keeps it.
THEOREM Agree == Spec => []AnswersAgree
<1>1. IInv => AnswersAgree
  <2> SUFFICES ASSUME IInv, NEW p \in Callers, NEW q \in Callers, KeyOf[p] = KeyOf[q],
                      answer[p] \notin {"none", "refused", "timeout"},
                      answer[q] \notin {"none", "refused", "timeout"}
               PROVE  answer[p] = answer[q] /\ answer[p] = status[KeyOf[p]] /\ answer[p] \in Terminal
    BY DEF AnswersAgree
  <2>1. CallerOK(p) /\ CallerOK(q)
    BY DEF IInv
  <2> QED
    BY <2>1 DEF CallerOK
<1> QED
  BY <1>1, Invariance, PTL

-----------------------------------------------------------------------------
(* What a step does to the rows.                                           *)

\* A step that is not the device's is one row's, if it is a row's at all.
LEMMA OneRow ==
    ASSUME IInv, [Next]_vars, \A c \in Commands : ~ Execute(c)
    PROVE  /\ executed' = executed
           /\ \/ status' = status /\ offline' = offline
              \/ \E c \in Commands :
                    /\ \A d \in Commands \ {c} : status'[d] = status[d] /\ offline'[d] = offline[d]
                    /\ status[c] \in Terminal => status'[c] = status[c]
                    /\ offline[c] => offline'[c]
<1> DEFINE Row(c) == /\ \A d \in Commands \ {c} : status'[d] = status[d] /\ offline'[d] = offline[d]
                     /\ status[c] \in Terminal => status'[c] = status[c]
                     /\ offline[c] => offline'[c]
<1> USE DEF rowVars, deviceVars
<1>1. ASSUME NEW c \in Commands, MarkTimeout(c) PROVE Row(c)
  BY <1>1, TimeoutMarked DEF IInv
<1>2. ASSUME NEW c \in Commands, NEW v, SetStatus(c, v), UNCHANGED offline,
             status[c] \in Terminal => v = status[c]
      PROVE  Row(c)
  BY <1>2 DEF IInv, Typed, SetStatus
<1>3. \A c \in Commands : Open(c) => status[c] \notin Terminal
  BY DEF Open, Terminal
<1>4. ASSUME NEW p \in Callers, CallerStep(p) \/ CutOff(p) \/ CutOffMute(p)
      PROVE  executed' = executed /\ ((status' = status /\ offline' = offline) \/ Row(KeyOf[p]))
  <2>0. KeyOf[p] \in Commands /\ "absent" \notin Terminal /\ "pending" \notin Terminal
    BY Values
  <2>1. CASE Insert(p)
    BY <1>2, <2>0, <2>1 DEF Insert
  <2>2. CASE NoConnection(p)
    BY <2>0, <2>2 DEF IInv, Typed, NoConnection
  <2>3. CASE MarkSent(p)
    BY <1>2, <2>0, <2>3 DEF MarkSent
  <2>4. CASE FailDelivery(p) \/ CutOffMute(p)
    BY <1>2, <1>3, <2>0, <2>4 DEF FailDelivery, CutOffMute
  <2>5. CASE Get(p) \/ LookAgain(p) \/ Read(p)
    BY <1>1, <2>0, <2>5 DEF Get, LookAgain, Read
  <2> QED
    BY <1>4, <2>1, <2>2, <2>3, <2>4, <2>5 DEF CallerStep, Find, RefuseDevice, SendExecute,
       SendRaises, NotCapable, MarkConflicts, ScheduleTimeout, Join, Wake, WaitTimesOut, CutOff
<1>5. ASSUME NEW c \in Commands,
             \/ Notify(c) \/ TimerFires(c) \/ AdminReads(c) \/ CancelCommand(c)
             \/ SendCancel(c) \/ Expire(c)
      PROVE  executed' = executed /\ ((status' = status /\ offline' = offline) \/ Row(c))
  <2>1. CASE CancelCommand(c)
    BY <1>2, <1>3, <2>1 DEF CancelCommand
  <2>2. CASE TimerFires(c) \/ AdminReads(c)
    BY <1>1, <2>2 DEF TimerFires, AdminReads
  <2> QED
    BY <1>5, <2>1, <2>2 DEF Notify, SendCancel, Expire
<1>6. ASSUME NEW n \in Connections, HandleFrame(n)
      PROVE  executed' = executed /\ \E c \in Commands : Row(c)
  <2>1. PICK c \in Commands : HandleAck(c) \/ \E outcome \in {"succeeded", "failed"} : HandleResult(c, outcome)
    <3>1. Head(toHub[n]) \in ToHub
      BY <1>6 DEF IInv, Typed, HandleFrame
    <3> QED
      BY <1>6, <3>1 DEF HandleFrame, ToHub
  <2>e. executed' = executed
    BY <1>6 DEF HandleFrame
  <2>2. CASE HandleAck(c)
    <3> DEFINE v == IF status[c] # "sent" THEN status[c]
                    ELSE IF c \in overdue THEN Lapsed(c) ELSE "acknowledged"
    <3>1. SetStatus(c, v) /\ UNCHANGED offline
      BY <2>2 DEF HandleAck
    <3>2. status[c] \in Terminal => v = status[c]
      BY DEF Terminal
    <3> HIDE DEF v
    <3> QED
      BY <1>2, <2>e, <3>1, <3>2
  <2>3. CASE \E outcome \in {"succeeded", "failed"} : HandleResult(c, outcome)
    <3>1. PICK v : SetStatus(c, v) /\ (~ Open(c) => v = status[c]) /\ UNCHANGED offline
      BY <2>3 DEF HandleResult
    <3> QED
      BY <1>2, <1>3, <2>e, <3>1
  <2> QED
    BY <2>1, <2>2, <2>3
<1>7. ASSUME NEW n \in Connections,
             \/ TakeCancel(n) \/ BeginExecute(n) \/ RefuseExecute(n) \/ Connect(n)
             \/ SocketBreaks(n) \/ NoticeClosed(n)
      PROVE  executed' = executed /\ status' = status /\ offline' = offline
  BY <1>7 DEF TakeCancel, BeginExecute, RefuseExecute, Connect, SocketBreaks, NoticeClosed
<1>8. ASSUME Restart \/ UNCHANGED vars
      PROVE  executed' = executed /\ status' = status /\ offline' = offline
  BY <1>8 DEF Restart, vars
<1> HIDE DEF Row
<1>9. executed' = executed /\ ((status' = status /\ offline' = offline) \/ \E c \in Commands : Row(c))
  <2>1. CASE \E p \in Callers : CallerStep(p) \/ CutOff(p) \/ CutOffMute(p)
    BY <1>4, <2>1, Values
  <2>2. CASE \E n \in Connections : HandleFrame(n)
    BY <1>6, <2>2
  <2>3. CASE \E c \in Commands : \/ Notify(c) \/ TimerFires(c) \/ AdminReads(c) \/ CancelCommand(c)
                                 \/ SendCancel(c) \/ Expire(c)
    BY <1>5, <2>3
  <2>4. CASE \E n \in Connections : \/ TakeCancel(n) \/ BeginExecute(n) \/ RefuseExecute(n)
                                    \/ Connect(n) \/ SocketBreaks(n) \/ NoticeClosed(n)
    BY <1>7, <2>4
  <2>5. CASE Restart \/ UNCHANGED vars
    BY <1>8, <2>5
  <2> QED
    BY <2>1, <2>2, <2>3, <2>4, <2>5 DEF Next
<1> QED
  BY <1>9 DEF Row

\* The end of a row is final, and so is that of a call that was cut off.
LEMMA EndsKept ==
    ASSUME IInv, [Next]_vars
    PROVE  /\ \A c \in Commands : status[c] \in Terminal => status'[c] = status[c]
           /\ \A p \in Callers : pc[p] = "mute" => pc'[p] = "mute"
<1>1. ASSUME NEW c \in Commands, status[c] \in Terminal PROVE status'[c] = status[c]
  <2>1. CASE \E d \in Commands : Execute(d)
    BY <2>1 DEF Execute, rowVars
  <2>2. CASE \A d \in Commands : ~ Execute(d)
    BY <1>1, <2>2, OneRow
  <2> QED
    BY <2>1, <2>2
<1>2. ASSUME NEW p \in Callers, pc[p] = "mute" PROVE pc'[p] = "mute"
  <2>1. ASSUME NEW q \in Callers, CallerStep(q) \/ CutOff(q) \/ CutOffMute(q) PROVE pc'[p] = "mute"
    BY <1>2, <2>1 DEF IInv, Typed, CallerStep, CutOff, CutOffMute, Find, Insert, RefuseDevice,
       SendExecute, SendRaises, NotCapable, NoConnection, MarkSent, MarkConflicts, ScheduleTimeout,
       FailDelivery, Get, Join, LookAgain, Wake, WaitTimesOut, Read, Return, Goto
  <2>2. CASE Restart
    BY <1>2, <2>2 DEF Restart
  <2>3. CASE UNCHANGED pc
    BY <1>2, <2>3
  <2> QED
    BY <2>1, <2>2, <2>3 DEF Next, vars, callerVars, Notify, TimerFires, AdminReads, CancelCommand,
       SendCancel, Execute, Expire, HandleFrame, TakeCancel, BeginExecute, RefuseExecute, Connect,
       SocketBreaks, NoticeClosed
<1> QED
  BY <1>1, <1>2

-----------------------------------------------------------------------------
(* No notification is lost between the looks of a caller.                  *)

Answered == {"succeeded", "failed", "cancelled"}

\* The places of a caller that has joined, or made, an event.
Joined == {"look", "wait", "read", "done", "cut", "mute", "dead"}

\* The coroutine that ended c has yet to notify.
Announcing(c) == c \in notify \/ cancelling[c] = "committed"

\* A call failed c, and was cut off before it notified.
Muted(c) == status[c] = "failed" /\ \E q \in Callers : pc[q] = "mute" /\ KeyOf[q] = c

\* An event is only held once the caller it is named by has made it, so that a
\* later caller never makes an event that others wait on already; who waits on
\* the event of an answered command is woken, or is about to be, unless who
\* should have done so was cut off.
Held(p) ==
    /\ event[p] # None => pc[event[p]] \in Joined
    /\ pc[p] = "wait" /\ events[KeyOf[p]] = event[p] /\ status[KeyOf[p]] \in Answered =>
           event[p] \in fired \/ Announcing(KeyOf[p]) \/ Muted(KeyOf[p])

Watched ==
    /\ \A c \in Commands : events[c] # None => pc[events[c]] \in Joined
    /\ \A p \in Callers : Held(p)

\* A step after which nobody waits who did not wait before, on events of before:
\* it answers a command only with the notification still to come.
LEMMA WakeKept ==
    ASSUME IInv, IInv', Watched, [Next]_vars,
           \A p \in Callers : pc[p] \in Joined => pc'[p] \in Joined,
           \A p \in Callers : pc'[p] = "wait" => pc[p] = "wait",
           \A p \in Callers : event'[p] \in {event[p], None},
           \A c \in Commands : events'[c] \in {events[c], None},
           fired \subseteq fired',
           \A c \in Commands : status'[c] \in Answered =>
               \/ Announcing(c)' \/ Muted(c)'
               \/ events[c] \in fired'
               \/ events[c] = None
               \/ status[c] \in Answered /\ ~ Announcing(c)
    PROVE  Watched'
<1>1. \A c \in Commands : events[c] \in Callers \cup {None}
  BY DEF IInv, Typed
<1>2. \A p \in Callers : event[p] \in Callers \cup {None} /\ KeyOf[p] \in Commands
  BY Values DEF IInv, Typed
<1>3. ASSUME NEW c \in Commands, events'[c] # None PROVE pc'[events'[c]] \in Joined
  BY <1>1, <1>3 DEF Watched
<1>4. ASSUME NEW p \in Callers, event'[p] # None PROVE pc'[event'[p]] \in Joined
  BY <1>2, <1>4 DEF Watched, Held
<1>5. ASSUME NEW p \in Callers, pc'[p] = "wait", events'[KeyOf[p]] = event'[p],
             status'[KeyOf[p]] \in Answered
      PROVE  event'[p] \in fired' \/ Announcing(KeyOf[p])' \/ Muted(KeyOf[p])'
  <2>1. event'[p] # None
    BY <1>5 DEF IInv, CallerOK
  <2>2. event'[p] = event[p] /\ events[KeyOf[p]] = event[p] /\ pc[p] = "wait"
    BY <1>2, <1>5, <2>1
  <2>0. Muted(KeyOf[p]) => Muted(KeyOf[p])'
    BY <1>2, EndsKept DEF Muted, Terminal
  <2>3. CASE status[KeyOf[p]] \in Answered /\ ~ Announcing(KeyOf[p])
    BY <2>0, <2>2, <2>3 DEF Watched, Held
  <2>4. CASE ~ (status[KeyOf[p]] \in Answered /\ ~ Announcing(KeyOf[p]))
    BY <1>2, <1>5, <2>1, <2>2, <2>4
  <2> QED
    BY <2>3, <2>4
<1> QED
  BY <1>3, <1>4, <1>5 DEF Watched, Held

LEMMA WakeJoin ==
    ASSUME IInv, IInv', Watched, [Next]_vars, NEW p \in Callers, Join(p)
    PROVE  Watched'
<1> DEFINE c == KeyOf[p]
<1>1. /\ pc[p] = "join" /\ pc' = [pc EXCEPT ![p] = "look"]
      /\ events' = [events EXCEPT ![c] = IF events[c] = None THEN p ELSE events[c]]
      /\ event' = [event EXCEPT ![p] = IF events[c] = None THEN p ELSE events[c]]
      /\ UNCHANGED <<status, fired, notify, cancelling>>
  BY DEF Join, Goto, rowVars, worldVars
<1>2. c \in Commands
  BY Values
<1>3. /\ \A d \in Commands : events[d] # None => events[d] # p /\ events[d] \in Callers
      /\ \A q \in Callers : event[q] # None => event[q] # p /\ event[q] \in Callers
  <2>1. pc[p] \notin Joined
    BY <1>1 DEF Joined
  <2>2. \A d \in Commands : events[d] # None => events[d] # p /\ events[d] \in Callers
    BY <2>1 DEF IInv, Typed, Watched
  <2>3. \A q \in Callers : event[q] # None => event[q] # p /\ event[q] \in Callers
    BY <2>1 DEF IInv, Typed, Watched, Held
  <2> QED
    BY <2>2, <2>3
<1>4. \A q \in Callers : pc[q] \in Joined => pc'[q] \in Joined
  BY <1>1 DEF IInv, Typed, Joined
<1>5. pc'[p] \in Joined
  BY <1>1 DEF IInv, Typed, Joined
<1>6. \A d \in Commands : events'[d] # None => pc'[events'[d]] \in Joined
  BY <1>1, <1>2, <1>3, <1>4, <1>5 DEF IInv, Typed, Watched
<1>7. \A q \in Callers : event'[q] # None => pc'[event'[q]] \in Joined
  BY <1>1, <1>2, <1>3, <1>4, <1>5 DEF IInv, Typed, Watched, Held
<1>8. ASSUME NEW q \in Callers, pc'[q] = "wait", events'[KeyOf[q]] = event'[q],
             status'[KeyOf[q]] \in Answered
      PROVE  event'[q] \in fired' \/ Announcing(KeyOf[q])' \/ Muted(KeyOf[q])'
  <2>1. q # p /\ pc[q] = "wait" /\ event'[q] = event[q]
    BY <1>1, <1>8 DEF IInv, Typed
  <2>2. event[q] # None
    BY <2>1 DEF IInv, CallerOK
  <2>3. KeyOf[q] \in Commands
    BY Values
  <2>4. events[KeyOf[q]] = event[q]
    BY <1>1, <1>2, <1>3, <1>8, <2>1, <2>2, <2>3 DEF IInv, Typed
  <2> QED
    BY <1>1, <1>4, <1>8, <2>1, <2>4 DEF Watched, Held, Announcing, Muted, IInv, Typed
<1> QED
  BY <1>6, <1>7, <1>8 DEF Watched, Held

LEMMA WakeLookAgain ==
    ASSUME IInv, IInv', Watched, [Next]_vars, NEW p \in Callers, LookAgain(p)
    PROVE  Watched'
<1>0. KeyOf[p] \in Commands
  BY Values
<1>1. /\ pc[p] = "look" /\ pc' = [pc EXCEPT ![p] = "wait"]
      /\ MarkTimeout(KeyOf[p])
      /\ fired' = IF AfterTimeout(KeyOf[p]) \in Terminal THEN fired \cup {event[p]} ELSE fired
      /\ UNCHANGED <<event, events, notify, cancelling>>
  BY DEF LookAgain, Goto, worldVars
<1>2. /\ \A d \in Commands : status'[d] = IF d = KeyOf[p] THEN AfterTimeout(KeyOf[p]) ELSE status[d]
      /\ AfterTimeout(KeyOf[p]) \in Answered => status[KeyOf[p]] \in Answered
  BY <1>0, <1>1, TimeoutMarked DEF IInv, AfterTimeout, Lapsed, Answered
<1>3. \A q \in Callers : pc[q] \in Joined => pc'[q] \in Joined
  BY <1>1 DEF IInv, Typed, Joined
<1>4. /\ \A d \in Commands : events'[d] # None => pc'[events'[d]] \in Joined
      /\ \A q \in Callers : event'[q] # None => pc'[event'[q]] \in Joined
  BY <1>1, <1>3 DEF IInv, Typed, Watched, Held
<1>5. ASSUME NEW q \in Callers, pc'[q] = "wait", events'[KeyOf[q]] = event'[q],
             status'[KeyOf[q]] \in Answered
      PROVE  event'[q] \in fired' \/ Announcing(KeyOf[q])' \/ Muted(KeyOf[q])'
  <2>1. CASE q = p
    BY <1>0, <1>1, <1>2, <1>5, <2>1, Values DEF Answered
  <2>2. CASE q # p
    <3>1. pc[q] = "wait" /\ KeyOf[q] \in Commands
      BY <1>1, <1>5, <2>2, Values DEF IInv, Typed
    <3>2. status[KeyOf[q]] \in Answered
      BY <1>2, <1>5, <3>1
    <3>3. Muted(KeyOf[q]) => Muted(KeyOf[q])'
      BY <3>1, EndsKept DEF Muted, Terminal
    <3> QED
      BY <1>1, <1>5, <2>2, <3>1, <3>2, <3>3 DEF Watched, Held, Announcing
  <2> QED
    BY <2>1, <2>2
<1> QED
  BY <1>4, <1>5 DEF Watched, Held

\* The other steps of a caller: only a failed delivery answers.
LEMMA WakeCaller ==
    ASSUME IInv, IInv', Watched, [Next]_vars, NEW p \in Callers,
           CallerStep(p) \/ CutOff(p) \/ CutOffMute(p)
    PROVE  Watched'
<1> USE DEF rowVars, gatewayVars, socketVars, deviceVars, worldVars
<1>0. KeyOf[p] \in Commands
  BY Values
<1>1. ASSUME MarkTimeout(KeyOf[p])
      PROVE  \A c \in Commands : status'[c] \in Answered => status[c] \in Answered
  BY <1>0, <1>1, TimeoutMarked DEF IInv, AfterTimeout, Lapsed, Answered
<1>2. ASSUME NEW to \in Place, pc' = [pc EXCEPT ![p] = to], to # "wait",
             pc[p] \in Joined => to \in Joined,
             event' = event \/ event' = [event EXCEPT ![p] = None],
             events' = events \/ PopEvent(p),
             fired' = fired, notify' = notify, cancelling' = cancelling,
             \A c \in Commands : status'[c] \in Answered => status[c] \in Answered
      PROVE  Watched'
  <2>1. \A q \in Callers : pc[q] \in Joined => pc'[q] \in Joined
    BY <1>2 DEF IInv, Typed
  <2>2. \A q \in Callers : pc'[q] = "wait" => pc[q] = "wait"
    BY <1>2 DEF IInv, Typed
  <2>3. \A q \in Callers : event'[q] \in {event[q], None}
    BY <1>2 DEF IInv, Typed
  <2>4. \A c \in Commands : events'[c] \in {events[c], None}
    BY <1>0, <1>2 DEF IInv, Typed, PopEvent
  <2> QED
    BY <1>2, <2>1, <2>2, <2>3, <2>4, WakeKept DEF Announcing
<1>3. CASE FailDelivery(p)
  <2>1. /\ pc[p] = "fail" /\ pc' = [pc EXCEPT ![p] = "done"]
        /\ event' = [event EXCEPT ![p] = None]
        /\ notify' = notify \cup {KeyOf[p]}
        /\ status' = [status EXCEPT ![KeyOf[p]] = IF Open(KeyOf[p]) THEN "failed" ELSE status[KeyOf[p]]]
        /\ UNCHANGED <<events, fired, cancelling>>
    BY <1>3 DEF FailDelivery, SetStatus, Return, Goto
  <2>2. \A q \in Callers : /\ pc[q] \in Joined => pc'[q] \in Joined
                           /\ pc'[q] = "wait" => pc[q] = "wait"
                           /\ event'[q] \in {event[q], None}
    BY <2>1 DEF IInv, Typed, Joined
  <2>3. ASSUME NEW c \in Commands, status'[c] \in Answered
        PROVE  Announcing(c)' \/ (status[c] \in Answered /\ ~ Announcing(c))
    BY <1>0, <2>1, <2>3 DEF IInv, Typed, Announcing
  <2> QED
    BY <2>1, <2>2, <2>3, WakeKept
<1>4. CASE Find(p) \/ RefuseDevice(p) \/ SendExecute(p) \/ SendRaises(p) \/ NotCapable(p)
           \/ NoConnection(p) \/ MarkConflicts(p) \/ ScheduleTimeout(p) \/ Wake(p) \/ WaitTimesOut(p)
  BY <1>2, <1>4 DEF Find, RefuseDevice, SendExecute, SendRaises, NotCapable, NoConnection,
     MarkConflicts, ScheduleTimeout, Wake, WaitTimesOut, Return, Goto, Place, Joined
<1>5. CASE Insert(p) \/ MarkSent(p)
  <2>1. \A c \in Commands : status'[c] \in Answered => status[c] \in Answered
    BY <1>0, <1>5 DEF IInv, Typed, Insert, MarkSent, SetStatus, Answered
  <2> QED
    BY <1>2, <1>5, <2>1 DEF Insert, MarkSent, Goto, Place, Joined
<1>6. CASE Get(p) \/ Read(p)
  <2>1. \A c \in Commands : status'[c] \in Answered => status[c] \in Answered
    BY <1>1, <1>6 DEF Get, Read
  <2> QED
    BY <1>2, <1>6, <2>1 DEF Get, Read, Return, Goto, Place, Joined
<1>7. CASE CutOffMute(p)
  <2>1. /\ pc[p] = "fail" /\ pc' = [pc EXCEPT ![p] = "mute"]
        /\ status' = [status EXCEPT ![KeyOf[p]] = IF Open(KeyOf[p]) THEN "failed" ELSE status[KeyOf[p]]]
        /\ UNCHANGED <<event, events, notify, fired, cancelling>>
    BY <1>7 DEF CutOffMute, SetStatus, Goto
  <2>2. \A q \in Callers : /\ pc[q] \in Joined => pc'[q] \in Joined
                           /\ pc'[q] = "wait" => pc[q] = "wait"
    BY <2>1 DEF IInv, Typed, Joined
  <2>3. ASSUME NEW c \in Commands, status'[c] \in Answered
        PROVE  \/ Announcing(c)' \/ Muted(c)' \/ (status[c] \in Answered /\ ~ Announcing(c))
    BY <1>0, <2>1, <2>3 DEF IInv, Typed, Announcing, Muted
  <2> QED
    BY <2>1, <2>2, <2>3, WakeKept
<1>8. CASE CutOff(p)
  BY <1>2, <1>8 DEF CutOff, Place, Joined
<1> QED
  BY <1>3, <1>4, <1>5, <1>6, <1>7, <1>8, WakeJoin, WakeLookAgain DEF CallerStep

\* A notification fires the event of its command.
LEMMA Announced ==
    ASSUME NEW c \in Commands, Announce(c)
    PROVE  fired \subseteq fired' /\ (events[c] # None => events[c] \in fired')
  BY DEF Announce

\* Steps that leave the callers and their events alone.
LEMMA WakeElsewhere ==
    ASSUME IInv, IInv', Watched, [Next]_vars, UNCHANGED callerVars, UNCHANGED events,
           fired \subseteq fired',
           \A c \in Commands : status'[c] \in Answered =>
               \/ Announcing(c)' \/ Muted(c)'
               \/ events[c] \in fired'
               \/ events[c] = None
               \/ status[c] \in Answered /\ ~ Announcing(c)
    PROVE  Watched'
  BY WakeKept DEF callerVars

\* The coroutines behind an end, the timers, and who cancels or reads a command.
LEMMA WakeCommand ==
    ASSUME IInv, IInv', Watched, [Next]_vars, NEW c \in Commands,
           \/ Notify(c) \/ TimerFires(c) \/ AdminReads(c) \/ CancelCommand(c)
           \/ SendCancel(c) \/ Execute(c) \/ Expire(c)
    PROVE  Watched'
<1> USE DEF rowVars, gatewayVars, deviceVars, worldVars
<1>1. CASE Notify(c)
  <2>1. \A d \in Commands : Announcing(d) => Announcing(d)' \/ d = c
    BY <1>1 DEF Notify, Announcing
  <2> QED
    BY <1>1, <2>1, Announced, WakeElsewhere DEF Notify
<1>2. CASE SendCancel(c)
  <2>1. \A d \in Commands : Announcing(d) => Announcing(d)' \/ d = c
    BY <1>2 DEF IInv, Typed, SendCancel, Announcing
  <2> QED
    BY <1>2, <2>1, Announced, WakeElsewhere DEF SendCancel
<1>3. CASE TimerFires(c) \/ AdminReads(c)
  <2>1. \A d \in Commands : status'[d] \in Answered => status[d] \in Answered
    BY <1>3, TimeoutMarked DEF IInv, TimerFires, AdminReads, AfterTimeout, Lapsed, Answered
  <2>2. \A d \in Commands : Announcing(d) => Announcing(d)'
    BY <1>3 DEF TimerFires, AdminReads, Announcing
  <2> QED
    BY <1>3, <2>1, <2>2, WakeElsewhere DEF TimerFires, AdminReads
<1>4. CASE CancelCommand(c)
  <2>1. \A d \in Commands : status'[d] \in Answered => status[d] \in Answered \/ Announcing(d)'
    BY <1>4 DEF IInv, Typed, CancelCommand, SetStatus, Announcing, Answered
  <2>2. \A d \in Commands : Announcing(d) => Announcing(d)'
    BY <1>4 DEF IInv, Typed, CancelCommand, Announcing
  <2> QED
    BY <1>4, <2>1, <2>2, WakeElsewhere DEF CancelCommand
<1>5. CASE Execute(c) \/ Expire(c)
  BY <1>5, WakeElsewhere DEF Execute, Expire, Announcing
<1> QED
  BY <1>1, <1>2, <1>3, <1>4, <1>5

\* What the connections bring: a result that ends a command is notified.
LEMMA WakeConnection ==
    ASSUME IInv, IInv', Watched, [Next]_vars, NEW n \in Connections,
           \/ HandleFrame(n) \/ TakeCancel(n) \/ BeginExecute(n) \/ RefuseExecute(n)
           \/ Connect(n) \/ SocketBreaks(n) \/ NoticeClosed(n)
    PROVE  Watched'
<1> USE DEF rowVars, gatewayVars, deviceVars, worldVars
<1>1. CASE HandleFrame(n)
  <2>1. PICK c \in Commands : HandleAck(c) \/ \E outcome \in {"succeeded", "failed"} : HandleResult(c, outcome)
    <3>1. Head(toHub[n]) \in ToHub
      BY <1>1 DEF IInv, Typed, HandleFrame
    <3> QED
      BY <1>1, <3>1 DEF HandleFrame, ToHub
  <2>2. UNCHANGED <<callerVars, events, fired, cancelling>>
    BY <1>1 DEF HandleFrame
  <2>3. \A d \in Commands : Announcing(d) => Announcing(d)'
    BY <2>1, <2>2 DEF HandleAck, HandleResult, Announcing
  <2>4. \A d \in Commands : status'[d] \in Answered => status[d] \in Answered \/ Announcing(d)'
    BY <2>1, <2>2 DEF IInv, Typed, HandleAck, HandleResult, SetStatus, Announcing, Answered,
       Lapsed
  <2> QED
    BY <2>2, <2>3, <2>4, WakeElsewhere
<1>2. CASE ~ HandleFrame(n)
  BY <1>2, WakeElsewhere DEF TakeCancel, BeginExecute, RefuseExecute, Connect, SocketBreaks,
     NoticeClosed, Announcing
<1> QED
  BY <1>1, <1>2

LEMMA WakeStep ==
    ASSUME IInv, IInv', Watched, [Next]_vars
    PROVE  Watched'
<1>1. CASE Restart
  BY <1>1 DEF Restart, Watched, Held, IInv, Typed
<1>2. CASE UNCHANGED vars
  BY <1>2, WakeElsewhere DEF vars, rowVars, gatewayVars, worldVars, Announcing
<1> QED
  BY <1>1, <1>2, WakeCaller, WakeCommand, WakeConnection DEF Next

\* Whoever times out on an event the gateway still holds does so on a command
\* that nobody answered, cancelled or failed, or that was failed by a call that
\* was cut off right then (wait_for_terminal, _notify_terminal).
THEOREM NoWakeupLost == Spec => NoLostWakeup
<1> DEFINE Woken == \A p \in Callers :
                       answer[p] = "none" /\ answer'[p] = "timeout" /\ events[KeyOf[p]] = event[p] =>
                           \/ status[KeyOf[p]] \notin {"succeeded", "failed", "cancelled"}
                           \/ status[KeyOf[p]] = "failed"
                              /\ \E q \in Callers : pc[q] = "mute" /\ KeyOf[q] = KeyOf[p]
<1>1. Init => Watched
  BY Values DEF Init, Watched, Held
<1>2. IInv /\ IInv' /\ Watched /\ [Next]_vars => Watched'
  BY WakeStep
<1>3. ASSUME IInv, Watched, [Next]_vars PROVE [Woken]_vars
  <2> SUFFICES ASSUME NEW p \in Callers, answer[p] = "none", answer'[p] = "timeout",
                      events[KeyOf[p]] = event[p]
               PROVE  status[KeyOf[p]] \notin {"succeeded", "failed", "cancelled"} \/ Muted(KeyOf[p])
    BY DEF Muted
  <2>1. ASSUME UNCHANGED answer PROVE FALSE
    BY <2>1
  <2>2. ASSUME NEW q \in Callers, NEW from, NEW value, Return(q, from, value), value # "timeout"
        PROVE  FALSE
    BY <2>2 DEF IInv, Typed, Return
  <2>3. "timeout" \notin Status
    BY DEF Status, Terminal
  <2>4. PICK q \in Callers : CallerStep(q)
    BY <1>3, <2>1 DEF Next, vars, callerVars, CutOff, CutOffMute, Notify, TimerFires, AdminReads, CancelCommand, SendCancel,
       Execute, Expire, HandleFrame, TakeCancel, BeginExecute, RefuseExecute, Connect,
       SocketBreaks, NoticeClosed, Restart
  <2>5. KeyOf[q] \in Commands /\ status[KeyOf[q]] \in Status
    BY Values, <1>3 DEF IInv, Typed
  <2>6. WaitTimesOut(q)
    <3>1. ASSUME MarkTimeout(KeyOf[q]) PROVE AfterTimeout(KeyOf[q]) \in Status
      BY <1>3, <2>5, <3>1, TimeoutMarked DEF IInv
    <3>2. ~ RefuseDevice(q)
      BY <2>2 DEF RefuseDevice
    <3>3. ~ FailDelivery(q)
      <4>1. (IF Open(KeyOf[q]) THEN "failed" ELSE status[KeyOf[q]]) # "timeout"
        BY <2>3, <2>5
      <4> QED
        BY <2>2, <4>1 DEF FailDelivery
    <3>4. ~ Get(q)
      BY <2>1, <2>2, <2>3, <3>1 DEF Get
    <3>5. ~ Read(q)
      BY <2>2, <2>3, <3>1 DEF Read
    <3> QED
      BY <2>1, <2>4, <3>2, <3>3, <3>4, <3>5 DEF CallerStep, Find, Insert, SendExecute, SendRaises,
         NotCapable, NoConnection, MarkSent, MarkConflicts, ScheduleTimeout, Join, LookAgain, Wake
  <2>7. q = p
    BY <1>3, <2>6 DEF IInv, Typed, WaitTimesOut, Return
  <2> QED
    BY <1>3, <2>6, <2>7 DEF Watched, Held, Announcing, Answered, WaitTimesOut, Return, Goto
<1>4. IInv /\ Watched /\ [Next]_vars => [Woken]_vars
  BY <1>3
<1> QED
  BY <1>1, <1>2, <1>4, Invariance, PTL DEF Spec, NoLostWakeup
-----------------------------------------------------------------------------
(* The gateway implements OnceOnly: a command is an occurrence, carrying it *)
(* out is sending it, and the end of its row is what its callers are told.  *)

\* A command that failed as device_offline was not carried out and will not be;
\* any other end without a success says nothing about the device.
Told(c) ==
    IF status[c] = "succeeded" THEN "yes"
    ELSE IF status[c] \notin Terminal THEN "open"
    ELSE IF offline[c] THEN "no"
    ELSE "maybe"

Once == INSTANCE OnceOnly WITH
    Occurrences <- Commands,
    sent <- {c \in Commands : executed[c] > 0},
    told <- [c \in Commands |-> Told(c)]

\* A step that carries nothing out and touches the row of one command at most.
LEMMA TellStep ==
    ASSUME IInv, IInv', NEW c \in Commands, executed' = executed,
           \A d \in Commands \ {c} : status'[d] = status[d] /\ offline'[d] = offline[d],
           status[c] \in Terminal => status'[c] = status[c],
           offline[c] => offline'[c]
    PROVE  [Once!Next]_(Once!onceVars)
<1> DEFINE said == [d \in Commands |-> Told(d)]
           out == {d \in Commands : executed[d] > 0}
<1>1. out' = out
  OBVIOUS
<1>2. \A d \in Commands \ {c} : Told(d)' = Told(d)
  BY DEF Told
<1>3. \A d \in Commands : Told(d)' \in Once!Answers
  BY DEF Told, Once!Answers
<1>4. ASSUME Told(c)' # Told(c) PROVE Once!MayTell(c, Told(c)')
  <2>1. /\ Told(c)' = "yes" => status'[c] = "succeeded"
        /\ Told(c)' = "no" => offline'[c]
        /\ Told(c)' \in {"open", "maybe", "yes", "no"}
    BY DEF Told
  <2>2. /\ Told(c)' = "yes" => c \in out
        /\ Told(c)' = "no" => c \notin out
    BY <2>1 DEF IInv, DeviceOK
  <2>3. Told(c)' # "open" /\ Told(c) \in {"open", "maybe"} /\ (Told(c)' = "maybe" => Told(c) = "open")
    BY <1>4 DEF Told, Terminal, IInv, DeviceOK
  <2> QED
    BY <2>1, <2>2, <2>3 DEF Once!MayTell
<1>5. said' \in [Commands -> Once!Answers]
  BY <1>3
<1>6. \A d \in Commands : said'[d] # said[d] => Once!MayTell(d, said'[d])
  BY <1>2, <1>4
<1>7. Once!Tell
  BY <1>1, <1>5, <1>6 DEF Once!Tell
<1> QED
  BY <1>7 DEF Once!Next

\* The device sends, and nobody was told that it would not.
LEMMA ExecuteSends ==
    ASSUME IInv, NEW c \in Commands, Execute(c)
    PROVE  Once!Next
<1>1. executed[c] = 0 /\ ~ offline[c] /\ executed' = [executed EXCEPT ![c] = @ + 1]
  BY DEF IInv, DeviceOK, Execute
<1>2. Told(c) \in {"open", "maybe"}
  BY <1>1 DEF IInv, DeviceOK, Told
<1>3. [d \in Commands |-> Told(d)]' = [d \in Commands |-> Told(d)]
  BY DEF Execute, rowVars, Told
<1>4. {d \in Commands : executed[d] > 0}' = {d \in Commands : executed[d] > 0} \cup {c}
  BY <1>1 DEF IInv, Typed
<1> QED
  BY <1>1, <1>2, <1>3, <1>4 DEF Once!Send, Once!Next

\* Issuing, acknowledging, timing out, cancelling and executing a command, with
\* every loss and restart between, keep the promise of OnceOnly: it is carried
\* out once at most, and what its callers were told of that stays true.
THEOREM ImplementsOnceOnly == Spec => Once!Spec
<1>1. Init => Once!Init
  <2> SUFFICES ASSUME Init PROVE Once!Init
    OBVIOUS
  <2>1. \A c \in Commands : executed[c] = 0 /\ Told(c) = "open"
    BY Values DEF Init, Told, Terminal
  <2> QED
    BY <2>1 DEF Once!Init
<1>2. ASSUME IInv, IInv', [Next]_vars PROVE [Once!Next]_(Once!onceVars)
  <2>1. CASE \E c \in Commands : Execute(c)
    BY <1>2, <2>1, ExecuteSends
  <2>2. CASE \A c \in Commands : ~ Execute(c)
    <3>1. CASE executed' = executed /\ status' = status /\ offline' = offline
      BY <3>1 DEF Once!onceVars, Told
    <3> QED
      BY <1>2, <2>2, <3>1, OneRow, TellStep
  <2> QED
    BY <2>1, <2>2
<1>3. IInv /\ IInv' /\ [Next]_vars => [Once!Next]_(Once!onceVars)
  BY <1>2
<1> QED
  BY <1>1, <1>3, Invariance, PTL DEF Spec, Once!Spec
=============================================================================
