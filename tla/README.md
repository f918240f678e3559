# Verification of the companion hub

This directory holds TLA+ models of the hub in `server/app` (below `src/`), the
TLC configurations that check them on small instances, and proofs, checked by
TLAPS, of their main theorems. `PROJECT.json` relates every definition to the
lines it models and lists components, runs, findings, hazards and theorems.

The hub is one asyncio process per deployment on PostgreSQL (or SQLite in
tests). Its background loops, HTTP requests and websocket handlers interleave at
every `await`; what they share is rows of the database, and each touches them
in short transactions. That is how the models are cut: **one action per
transaction or external call**, and everything else may run between two of them.

## 1. Inventory

| component | state | operations | interacts with | what is hard | what makes it correct |
|---|---|---|---|---|---|
| job engine (`jobs/engine.py`) | `job`, `job_step`, the run of a job | submit, claim, renew, release, start/complete/fail step, cancel, confirm, succeed, two sweeps | every worker, run store, admin API | leases that lapse under a living worker, late answers, the last attempt, cancel against everything | one live claim per job, dead claims stay dead, outcomes final, job and run agree |
| maintenance worker (`jobs/maintenance.py`, `db/claims.py`) | current claim, renewal task | claim, check, handler, finish or fail | engine, memory, workflows, plan reports | seven awaits per cycle, killed at any, exceptions that mean three things | no live claim is left behind, nothing is derived after a cancel, every job ends |
| delegated worker (`jobs/delegated.py`) | current claim | the same without renewal, plus a report | engine, chat, output | handlers slower than their lease, the report outside any transaction | one report at most, none for a withdrawn delegation |
| task runs (`runs/store.py`, ...) | `task_run`, `task_step` | transition, cancel_work, cancel_background | engine, chat, plans, deliveries | one user action cancels rows of four owners | a run and its work never disagree |
| budgets (`runs/budget.py`, `harness`) | `model_call`, `tool_call`, reservations | reserve, settle, reconcile | every model and tool call | concurrent reservations, calls that never settle | never more reserved than allowed, all settled once |
| event bus (`bus`) | `event`, `outbox`, `consumer_inbox`, `dead_letter` | append, claim batch, publish, mark, retry, dead-letter | ingress, API | markings without a lock, crashes inside a publication, the clock | writes effectively once, nothing lost, nothing settled twice |
| confirmed mutations (`confirmation.py`, mail, calendar, workflow tools) | `pending_mutation` | prepare, confirm, cancel, prune | chat turn, user's clicks, SMTP | several clicks at once, an unknown outcome of the send, exceptions between two transactions | sent at most once, only what was shown, told honestly |
| bounded delivery (`runs/delivery.py`, `delivery_sources.py`, `harness/guarded_call.py`) | the run of a delivery, its step, what the source tells | admit, start, transmit, finish, recover | scheduler, reports, output channels, push | crash between start and receipt, calls given up that go on, sweeps against slow deliveries | at most once, unknown never retried, source and run tell one story |
| turn coordinator, voice lease (`runtime`) | turns in memory, `session_lease` | begin, interrupt, finish; acquire, renew, expire | voice and chat | epochs, interruption over three transactions | one turn per session, one holder per epoch |
| device commands (`devices/commands.py`, `api/device_commands.py`, `desktop`) | `device_command`; connections, timers and completion events in memory | issue, wait, ack, result, timeout, cancel, connect, disconnect | tools and plans that issue, devices, admin | an answer before the frame is marked sent, ends from four sides, waiters of one event, reconnects | carried out once, one end that every caller is told, a waiter whose event is held is woken by it |
| reminders, goals (`tasks`) | `task` with its next firing and last run | claim due, deliver, finish, recover, complete, cancel, snooze | bounded delivery, user | a claim conditional on an older read, a process that dies in firing, two schedulers | no occurrence sent twice, none stuck in firing, a closed one stays closed |
| action plans (`cognition/action_plan.py`, `action_runner.py`, `runs/outcomes.py`) | plan, its steps, undo plan | create, confirm, cancel, execute, undo | runs, deletion, tools, devices | stops against a step in execution, effects after a time-out, interruption at any await | no step twice or after a stop, the end is final, what is told of an effect is true |
| safety escalation (`safety`) | `safety_alert` | raise, escalate, acknowledge, recover | output, contacts | acknowledgement against the next level | never escalates after an acknowledgement |
| conversation, memory, skills, tools, workflows, calendar and mail, meetings, perception, voice, model providers, home, integrations, output, configuration, identity, ingress, API, wiring, observability, persistence, clients, deployment | as named | mostly sequential requests, data transformation and I/O | the components above | little of their own beyond what the rows above share | listed one by one in `PROJECT.json` with the reason they are left out |

The behaviours a test hardly reaches are listed in `PROJECT.json` under
`hazards`, each at its line and with the properties about it.

## 2. Modules

```
FencedJob <== refinement == JobEngine <-- EXTENDS -- MaintenanceWorker, DelegatedWorker
                                |                           |                |
                         JobEngineProofs <-- EXTENDS -- MaintenanceProofs, DelegatedProofs

OnceOnly <== refinement == DeliverOnce <-- EXTENDS -- Reminders <-- ReminderProofs
         <== refinement == Confirmation   (in ConfirmationProofs)
         <== refinement == DeviceCommand  (in DeviceCommandProofs)

OutboxBus <-- OutboxBusProofs           ActionPlan <-- ActionPlanProofs
```

The `MC` modules only declare model values, routes and symmetry sets for TLC.
Definitions whose comment says *Mutant* are plausible mistakes; each is used to
see that the property it is paired with in `PROJECT.json` would notice.

**JobEngine** - the table `job` with one field of the step of each attempt and
of the job's own run. Actions bear the method's name; `w` and `v` are the
`worker_id` and `claim_version` a caller passes, drawn from every worker and
version, so that a late caller is nothing special. `Submit` stands for the three
submit methods, `CancelRun` for what `RunStore.cancel_work` does to a job,
`LinkRun` for what `job_model_budget` does to its run. Times are compared with
now and nothing else, so a lease is *none*, *live* or *expired* and `due` is a
flag; the actions `LeaseLapses` and `BackoffElapses` are the clock. A renewal
that succeeds does not show in this abstraction (live stays live): it is the
enabling condition `MayRenew` that a mutant breaks. One instance holds the jobs
of one `resource_class`, because claims never look across them.

**FencedJob** - what the engine promises without leases, retries or steps: at
most `MaxGrants` grants per job, each with a new token, a job is settled only while
it is held, a stop request is honoured, an outcome is final. `Settle` names no
caller and asks for no token: that late answers are refused is what the action
properties `ClaimNeverRevives` and `CancelStopsWork` of JobEngine are about, not
this refinement. `Promise` in JobEngine instantiates it with `Phase(j)`, the
claim version as the token and `lease_owner` as the holder.

**MaintenanceWorker**, **DelegatedWorker** - one action per await of
`process_ready`, and of `_run`, `_execute`, `_report`. `pc` is the await a worker
is at; `cur` and `ver` are the local variables that survive it. A worker is a
process *incarnation*, as `worker_id` is drawn at construction; a restart is the
start of another one. `asked`, `gone` and `reports` record what the user and the
outside saw; `unservable` holds the delegated jobs whose payload or kind no
worker can serve. Handlers are their outcomes: derived writes under the claim fence
(`CommitDerived`), success, a retryable or a final exception, a lost claim.

**OutboxBus** - an outbox row is named by its id, `EventOf` gives its event and
`Route` the consumers subscribed to its topic, in order. `ClaimBatch` is
`claim_batch`; `Publish` is one consumer's transaction inside `publish`;
`ReadRow` and `MarkSuccess`, `MarkRetry`, `MarkDead` are the read and the write
of a marking transaction, which takes no lock in between. `seen` is the
`attempts` it read. `Current`, `batch` and `next` are the loop variables of
`dispatch_once` and `publish`. `Conflicting` names consumers whose own writes
may raise an `IntegrityError`. The repository subscribes handlers to the
publisher in its tests only; the model is of the bus with any handlers.

**Confirmation** - the rows of `pending_mutation`. A member of `Turns` is a user,
a chat turn and a kind: `prepare` replaces the previews of its own turn and counts
those of all. `BeginPrepare` is the first transaction of `prepare`. The second
counts under READ COMMITTED without a lock and inserts later, so it is two
actions, `CountRows` and `Prepare`, and any other turn may count, insert or be
pruned between them; `PrepareNothing` is its rollback. From the count on it holds
the locks of the previews it makes void (`Locked`), and who would write those
waits for its commit. A request goes through `ConfirmClick`
(the read of `claim`), `ClaimRow` (its conditional update), `Gather`, `Send`,
`MarkUsed`, `Complete` or `MarkUnknown`; or `CancelClick`, `CancelRow`. `sends`
counts what the mail server accepted, `clicked` what the user confirmed.

**OnceOnly** - what a delivery promises, without runs, leases or sweeps: an
occurrence is sent at most once, what is told of it afterwards is true, and what
was told is not taken back. `Tell` may settle several occurrences, as one
transaction may (pruning ends many previews). An occurrence is a firing of a
source, a preview of a mail, or a device command; *yes*, *no* and *maybe* are
what `outcome()`, the status of a preview, or the status and error of a command
say of it (`Told` in the proof modules). A pruned preview tells nothing any
more; it is mapped to the answer that was true of it, so that the promise covers
its future too.

**DeliverOnce** - `deliver_once` and its recovery over the run of an occurrence
(`<source, firing>`) and the row of its source. `Admit`, `StartDispatch`,
`Transmit`, `CallReturns`, `FinishSource`, `Finish` are the transactions and
awaits in order, `Refuse`, `DenyDispatch`, `CallFails` the early returns;
`LateTransmit` is the operation that `guarded_call` has given up but not stopped,
`RecoverRun` the sweep `recover_expired_deliveries`. It leaves the source to the
module that EXTENDS it.

**Reminders** - the scheduler's processes around DeliverOnce: `SweepRun` and
`SweepTask` are one row of the two recoveries of a tick, `SelectDue` the read
and `Claim` the conditional update of `claim_due`; a report enters by
`CallReport` and has no claim. `CloseTask` stands for complete and cancel, which
cancel the run of the reminder even when they find it closed; `SnoozeTask` and
`CancelWork` are the user's other ways to intervene. A snooze between a claim and
the registration of its run does not stop that delivery. The legacy path of the
scheduler (`scheduler.py:179-200`) is never taken, because `_claim` always sets
a run id.

**DeviceCommand** - the rows of `device_command`, the memory of the gateway
(`registered`, `events`, `timer`), the sockets with what is under way in both
directions, and the device. A caller goes through `Find`, `Insert`, `SendExecute`,
`MarkSent`, `ScheduleTimeout` (`issue`), then `Get`, `Join`, `LookAgain`, `Wake`,
`Read` (`wait_for_terminal`). The commit of an end and the notification of the
waiters by the coroutine that made it are two actions (`notify`, `cancelling`).
`CutOff` cancels the task of a call at any of its awaits, as the time limit of a
tool (`tools/executor.py:74`) or of a plan's step (`action_plan.py:546`) does;
`except Exception` does not catch that, and an exception of `get_device` ends the
call the same way. `CutOffMute` is the same after the commit of a failed delivery,
before it is notified. A waiter that is cut off takes the shared event away.
The clock of the device is its own: it may refuse a frame as expired at any
time. Left out is `completedKeys`, as the hub sends each command once.

**ActionPlan** - a plan, the plan that undoes it, and calls of `execute_plan`
and `create_undo_plan`. `pc` is the await an executor is at: `ClaimStep`,
`StartTool`/`RefuseTool`, `ToolReturns`, `FinishStep`, `CheckStop`, `AskStop`,
`CompletePlan`, `CancelRest`, `FailRest`, with `Interrupt` for a cancellation of
the task and `ExecutorDies` for a crash or an exception nobody catches. `CancelRun`
and `EraseSource` are what `cancel_work` and `purge_conversation` do to a plan.
`world` is the effect of each step: once its tool was started it may come at any
time (`EffectHappens`), also when the tool was given up. `SideEffect` is what
`action_outcome` tells of a step that changes something. Whether a compensation
must be confirmed is the policy of its own action (`UndoNeedsConfirm`), as
`create_undo_plan` compiles it like any other step.

## 3. Runs

TLC with these bounds; every bound is a CONSTANT of the `.cfg`. Deadlock is
checked in `reminders`, where some process can always take a tick. It is not in
the other instances, which have finitely many jobs, deliveries, clicks or
commands and come to rest when they are done.

| run | instance | shows |
|---|---|---|
| `job_engine` | 2 jobs, 2 workers, 2 attempts, symmetric | `LeaseMatchesStatus`, `RetryAccounting`, `RunFollowsJob`, `ClaimNeverRevives`, `CancelStopsWork`, and `FencedJobSpec`: the engine implements its promise |
| `maintenance` | 1 job, 2 incarnations (one may be killed), 2 attempts, fair | `NoLiveClaimLeaks`, `SucceededCompletedItsStep`, `CancelStopsDerivation`, `EveryJobEnds` |
| `delegated` | 1 job, servable or not, 2 incarnations, 2 attempts, fair | `ReportedAtMostOnce`, `EveryJobEnds` |
| `bus` | 1 event on 2 topics that share a consumer, 2 overlapping dispatchers, batches of 2, 2 attempts | `EffectivelyOnce`, `DispatchedWasConsumed`, `SendingIsReclaimable`, `DeadIsAccounted` |
| `bus_live` | 2 events, one without subscriber, one process at a time, batches of 1, fair | `EveryDeliverySettles` |
| `bus_conflict` | 2 events, a consumer that may conflict | *violated* `DispatchedWasConsumed`: the consumer's own error passes for a duplicate |
| `confirmation` | 4 previews, 2 turns at once, 2 contents, limit 2, 2 clicks (the hub may crash under either), symmetric | `SentAtMostOnce`, `StatusIsHonest`, `SentAsShown`, `OverrunIsBounded`, `ClaimIsKept` |
| `reminders` | 1 source (one-shot, periodic or a report), 2 firings, 2 processes (one may be stopped or killed), fair | `HonestOutcome`, `StoriesAgree`, `ClosedStaysClosed`, `EveryFiringEnds`, `EveryRunEnds`, and `OnceOnlySpec`: the delivery implements its promise |
| `reminders_snooze` | the same | *violated* `SnoozeIsKept`: a snooze between the scheduler's read and its claim is lost |
| `device_command` | 1 command, 2 callers of its key (one may be cut off), 1 connection, 1 broken socket or restart, fair | `ExecutedAtMostOnce`, `StatusIsHonest`, `AnswersAgree`, `NoLostWakeup`, `EveryCommandEnds` |
| `device_offline` | 2 commands, no fault | *violated* `OfflineMeansDisconnected`: a cancellation costs a live connection its registration |
| `action_plan` | 3 steps (one to be confirmed, two reversible, one of whose compensations must be confirmed) and their undo plan, 2 executors, 2 requests to undo, fair | `SideEffectIsHonest`, `CompletedIsWhole`, `CalledOnceInOrder`, `UndoneInReverse`, `StopIsObeyed`, `EndIsFinal`, `EveryExecutionEnds` |

The type invariants (`TypeOK`) are theorems (section 4) and take no part in the
runs; those of the two workers and of DeviceCommand state the types of the
variables for the reader and TLC confirms them when they are added to a
configuration.

Why the bounds are enough to be worth something: two attempts distinguish the
first, the last and the one too many; two workers, or two incarnations, are what
any race of the code needs, as every transaction names one row and at most one
caller; two jobs are needed only for the sweeps, which treat rows one by one. On
the bus a second topic is what can reach a consumer twice, and a second delivery
in a batch what a crash or an abort leaves behind. In the confirmations two turns
that both count one preview overrun the limit of two to three, which is the bound,
and the fourth row is there to be one too many; two clicks are a claim and its
competitor, another confirmation or a cancel. A reminder needs two firings for an old
delivery to meet a new one, and two processes for a sweep to meet a delivery. Of
a device command, two callers are the one who issues and the one who finds the
row; one fault puts a break or a restart at every await of both, while with one
connection at a time a replaced socket is one that broke. Three steps are the
step before, the step and the step after, and the outer two, undone, have an
order. The theorems below
drop the bounds for the properties they state.

Disagreements the runs show with the repository's own comments, documents or
tests are listed in `PROJECT.json` under `findings` with the lines they quote.

Others were seen and not kept as a run:

* The table `_TRANSITIONS` above the engine (`engine.py:69`), which nothing
  consults, allows neither `admitted` to `succeeded` nor `running` back to
  `queued`, both of which the code makes.
* A second cancel of a cancelling job takes the branch for a waiting job and ends
  it under a worker with a live lease (`engine.py:547`). Owner and lease stay on
  the cancelled row, which `LeaseMatchesStatus` permits and so does not notice; the
  worker's answers and derived writes are refused because of the status
  (`CancelStopsWork`, `CancelStopsDerivation`).
* A lease that lapses under a living handler raises the exception of a deleted
  source (`maintenance.py:33`, `116`): the job is cancelled, not retried.
* A delegated report is sent after `succeed` committed; a crash or an error there
  loses it (`delegated.py:244`).
* A stale marking of an overlapping dispatcher can revive a dead delivery
  (`dispatcher.py:103`): with overlap nothing settles for good, and the order
  within a conversation is not kept across a back-off.
* An exception between the claim of a preview and its send, or after it, leaves
  the row saving (`mail/tools.py:199`, `223`): not pruned, not offered, counted.
* Turns that run at once overrun the limit of previews: `prepare` counts without a
  lock and inserts afterwards (`confirmation.py:220`). `OverrunIsBounded` says by
  how much; the limit itself is what only one turn at a time keeps.
* A device may answer before `mark_sent` committed; its result is refused
  (`commands.py:147`) and the command times out although it was carried out. A
  command cancelled before its frame is sent is sent all the same.
* Callers that wait for one command share an event, and the first that times out
  or is cancelled removes it for all (`api/device_commands.py:1297`). Another one
  then misses an end that comes later, until its own time-out; two callers are
  enough. `NoLostWakeup` speaks of callers whose event is still held.
* A call of `issue` that is cancelled between `create` and `_schedule_timeout`, by
  the time limit of its tool or with its run, leaves the row pending or sent
  without a timer, as `except Exception` (`api/device_commands.py:1219`) does not
  catch a cancellation; so does an exception of `get_device` (1175). Such a command
  has no end until somebody reads its row, though the hub stays alive:
  `EveryCommandEnds` excuses exactly that (`Abandoned`), and a restart. Cut off after the commit of
  a failed delivery, the call does not notify those who wait.
* A crash, or an exception a tool raises (`action_plan.py:591`), leaves a plan
  executing for ever: nothing takes it up again, and a stop is then only recorded.
  The properties describe what such a plan tells of its steps, not that it ends.
  A stop accepted between `_cancel_requested` and the completion is recorded on a
  plan that completes (`action_plan.py:727`) and lost; no property forbids it, and
  `CompletedIsWhole` says that it can only come when every step was carried out.
  An undo plan that expired cannot be made again, as its key is taken.

### Fairness

* A live worker, dispatcher or incarnation takes its next step
  (`WF` on `WorkerStep`, `Dispatch`): the event loop runs every task, and the
  loops of the code catch what their cycles raise. Handlers are assumed to
  return or raise: they consist of model and tool calls, which have time limits
  of their own (`delegated.py:289`, `harness`).
* Back-offs end (`WF` on `Elapse`, `BackoffElapses`): time passes.
* A lease lapses when it is not renewed. A maintenance lease lapses fairly only
  while no worker renews it (`Renewing`), though it *may* lapse at any time;
  delegated and outbox leases are never renewed and lapse.
* A scheduler process takes its next step (`WF` on `ProcessStep`), and its tick
  comes to every row (`SF` on the sweeps, which a claim may disable for a while);
  deadlines and grace periods pass.
* The event loop of the gateway runs what is ready (`WF` on `HubStep`) and
  commands expire. Nothing makes the device answer or connect. Callers wait at
  least one second longer than the command lives (30/31 s in the browser and
  screen tools, 8/9 s for notifications, `ttl + 1` elsewhere), which is why
  `WaitTimesOut` waits for timer and notification. Nothing makes a call be cut off;
  one that was takes no further step.
* An executor takes its next step (`WF` on `Execute`): a tool call is bounded by
  the timeout of its step. It may be interrupted at any time, and is fair after
  that as well. `EveryExecutionEnds` says nothing once an executor died, as
  nobody takes up a plan that one left.
* Nothing makes a process die, a user cancel or a source be deleted. One
  incarnation is not killed (`w2` is not in `Mortal`): with every incarnation
  killed there would be nobody left to finish anything.
* `bus_live` runs one dispatcher process at a time (`Overlap = FALSE`), as the
  composition root starts one; the safety runs and the theorems let them overlap.

## 4. Proofs

All of them hold for any sets of jobs, workers, deliveries, routes, previews,
clicks, processes, sources, callers and commands, any number of steps, and any
positive limits; the assumptions are the named ASSUMEs of the modules
(`EngineAssumption`, `BusAssumption`, `ConfirmationAssumption`,
`DeliveryAssumption`, `DeviceAssumption`, `PlanAssumption`): the null values are
not members, limits are positive, row ids are numbers. No theorem assumes
fairness.

**JobEngineProofs**: `TypeCorrect` by cases over the transactions. `InvCorrect`
shows `Inv`, the conjunction of `LeaseMatchesStatus`, `CancelIsRemembered`,
`RunFollowsJob` and `RetryAccounting`, inductive relative to `TypeOK`
(`InvStep`): none is inductive alone - to know that an expiring job is not in
`retry_wait` takes the lease, to know that a run may be cancelled takes the
request. `LeaseCorrect`, `RetryCorrect`, `RunCorrect` and `CancelCorrect` are its
parts; `Fencing`, `CancelIsHonoured` and `OutcomeIsFinal` are action properties
that follow from `Inv` by the lemma `RowStep`.

`EngineKeepsPromise`, that is `Spec => FencedJobSpec`, names the step of the
promise each transaction is (`SubmitStep`, `GrantStep`, `ExpireStep`, ...);
`PromiseStep` puts them together.

**MaintenanceProofs**, **DelegatedProofs**: the engine with its workers.
`CycleInv` is `Typed`, the engine's own `Inv`, `HoldsOwn` (a live claim of a living
process is the one its cycle is about, the cycle has not passed the call that
ends it, and the step of that attempt is as far as the place in the cycle says),
`AskedIsRecorded` (once the user asked, the row says cancelling or cancelled) and
`SucceededCompletedItsStep`. The worker ignores the answer of `complete_step`, so
the last holds only because the engine refuses to succeed a claim it would also
have refused to complete; that needs `HoldsOwn`, which needs the lease discipline
of `Inv`. `NoLeak`, `SuccessIsEarned` and `CancelStopsDerived` follow. The
delegated worker sends its report after the transaction and never renews, so
`CycleInv` there also has `OwesReport` (a worker at its report works on a succeeded
job not yet reported, alone) and `Reported`; `ReportedOnce` is
`ReportedAtMostOnce`. `MaintenanceUsesEngine` and `DelegatedUsesEngine`, that is
`WorkerSpec => Spec`, say that a worker, its death and its user move the engine's
tables by the engine's transactions only; every theorem about the engine carries
over, and the two `...KeepsPromise` conclude `WorkerSpec => FencedJobSpec`.

**OutboxBusProofs**: `TypeCorrect` needs that a batch has a first delivery
(`LeastDelivery`, by well-foundedness of the numbers) to see that a publication
stays within its route. `Once`, `Reclaimable` and `DeadAccounted` follow from
`Inv`, whose fourth part `ReadStaysTrue` is the strengthening: what a marking read
remains a lower bound of the row's attempts, whoever took the row over since.
`DispatchedIsServed` says that every consumer of a dispatched delivery consumed
the event or may conflict: `ServedInv` adds that every consumer a dispatcher has
passed is served, which no other process undoes, since nothing leaves the inbox.
`DispatchedIsConsumed` is `DispatchedWasConsumed` under the hypothesis
`Conflicting = {}`; the code does not justify it as an assumption on the bus, so it
is a hypothesis of this theorem alone, and `bus_conflict` shows what happens
without it.

**ConfirmationProofs**: `TypeCorrect`; `AtMostOnce` and `Honest` from the
inductive `IInv`: `Exclusive` (a request between claim and outcome works on a
saving row, alone) and `Ledger` (what has been sent, told from where that request
is). `ClaimKept` is an action property from the same invariant. `Shown` adds
`ShownInv`, that the request that will send confirmed the content the row still
has, as nothing rewrites a row in between. `OverrunBounded`
(`OverrunIsBounded`) is about counts that are stale when they are used. Its
`CountInv` charges every turn that has counted and not inserted with a row: the
rows present and those turns together are at most the limit and the other turns.
A count that finds room adds a turn, and the turns that have counted by then are
`Turns` at most; an insert turns one into a row; nothing else makes either
(cardinalities from the library's FiniteSetTheorems). `ImplementsOnceOnly` is
`Spec => Once!Spec`.

**ReminderProofs**: the inductive `IInv` is `TypeOK`, `ProcOK` (what a process
inside `deliver_once` may rely on: until it transmits, nothing was sent for its
occurrence), `KeyOK` (the state of the run against what was sent, and against the
operation given up in `loose`) and `OneHolder` (no two processes deliver the same
occurrence). `AtMostOnce` and `Honest` are parts of it, `ClosedForGood` and
`ImplementsOnceOnly`, that is `Spec => OnceOnlySpec`, follow step by step.
`StoriesAlwaysAgree` (`StoriesAgree`) needs more than the run: `Story` says that a
reminder names its latest firing or none, that a firing not yet claimed and one
swept before it had a run never get one from the past, and that an outcome is
only written of a run that is over or overdue, so that no late step of its
process starts it again.

**ActionPlanProofs**: one invariant carries all properties. `Exclusive` (a plan
in execution has one executor), `RowOK` and `EffectOK` (what the status of a plan
says of its steps, and a step of its call and effect), `HeldOK` and `WalkOK` (the
step an executor is at, and the steps around it, from the await it is at),
`InOrder`, and `UndoOK` for the plan that undoes. The step that inserts an undo
plan needs a fact about numbering a finite set of positions downwards
(`PlacesRight`, from `LeastNumber`, `NthLess` and `NthNext`). `Honest` is not
inductive without `HeldOK`: that a completed step took effect comes from what the
tool returned two awaits before. `StopObeyed` and `EndFinal` are action
properties from the same invariant.

**DeviceCommandProofs**: `AtMostOnce` rests on one token for each command. Only
one of these exists at a time: a caller that has not sent its frame (`RouteOK`),
an execute frame on its way on one connection (`FrameOK`), the device at work, or
one execution (`DeviceOK`). `EndOK`, `CallerOK` and `ReplyOK` carry `Honest` and
`Agree`: whoever wakes a waiter, or notifies, does so after an end was committed.
`NoWakeupLost` (`NoLostWakeup`) rests on `Watched`: an event is held only after the
caller it is named by has made it, so a later caller never replaces an event that
others wait on, and who waits on the event of an answered command is woken, or the
coroutine that answered it has yet to notify, or it was cut off in between
(`Muted`). A call that is cut off drops its connection and event, so that the other
parts of the invariant lose a case and gain none. `ImplementsOnceOnly` is
`Spec => Once!Spec` with the command as the occurrence.

The strengthened invariants were model-checked as invariants of the instances of
section 3, and the two refinements of `OnceOnly` that no run checks as properties
of them (for DeviceCommand with one key), before they were proved.

Only model-checked: liveness (`EveryJobEnds` of both workers,
`EveryDeliverySettles`, `EveryFiringEnds`, `EveryRunEnds`, `EveryCommandEnds`,
`EveryExecutionEnds`), because it needs fairness and ENABLED, which TLAPS does not
support here. The violated properties are counterexamples of TLC and no theorem
speaks of them. Every invariant, action property and refinement of a passing run
is a theorem, `DispatchedWasConsumed` under the hypothesis named above.

## 5. What is abstracted or left out

* Clocks are flags (section 2); `attempts` of a delivery is compared with
  `max_attempts` only and saturates there.
* Database errors other than the constraint violations named above: a failed
  transaction is one that did not happen, and for every loop the same as its
  caller dying or retrying in the next cycle. Rows deleted with their user or
  by retention are left out. Transactions are atomic, except the markings of
  the bus, whose read and write are apart.
* `SKIP LOCKED` and batch limits of the engine's sweeps: a sweep takes any set
  of rows it may take.
* Graceful shutdown; a kill at any await covers what it leaves behind.
* The in-memory `PendingMutationStore`, and the calendar and workflow clients of
  the same store, are not modelled. A chat turn prepares one preview at a time,
  as only tools that read run side by side.
* Of the reminders: `claim_event`, goals and the parents of their model budgets,
  mirrors of calendar entries, and the reservation of a firing's channel. Of the
  device commands: pairing, heartbeats, and the messages of the pet and of
  satellites. Of the plans: how they are proposed and compiled
  (`action_registry.py`, `propose.py`), the listeners, and `plan_delivery.py`.
* What the handlers, tools and models compute.
* The components listed as `not_modelled` in `PROJECT.json`, for the reason
  given there: mostly I/O, data transformation, or their turn in the plan below.

## 6. Plan

What a next step of this development would add, in the order of what it
protects:

1. `TaskRun` (`runs/store.py`): `cancel_work` over runs, jobs, plans and
   deliveries together, composed with JobEngine, DeliverOnce and ActionPlan; each
   now has its own share of it.
2. `ModelBudget` (`runs/budget.py`): reservations, settlement, reconciliation.
3. `TurnLease` (`runtime/turn_coordinator.py`, `runtime/lease.py`): epochs after
   expiry, interruption in three transactions.
4. `SafetyEscalation` (`safety/store.py`), the claims of meetings, configuration
   versions, the ingress buffer.

Theorems to add: ActionPlan as an implementation of `OnceOnly`, a step of a plan
being the occurrence and `action_outcome` what is told of it; lemmas that bound
how often a job is granted to delegated workers before it fails; what an abstract
queue would promise of OutboxBus (each event to each consumer, at most
`MaxAttempts` deliveries).
