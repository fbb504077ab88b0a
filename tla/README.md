# Rovai: a TLA+ model of the execution core

Rovai is a local workspace in which agent *members* work together in *Threads*
(`camp` in the code). A Rust core (`crates/rovai-core`) keeps everything in one
SQLite database and hands messages to external coding agents, the *Runtimes*
(Codex, Claude Code, Pi, ACP agents and others), which run as child processes.
The core is concurrent (tokio tasks, one database mutex), it may be stopped or
crash at any point, and the processes it talks to may answer late, never, or
after the core has given up on them. A message must nevertheless be executed at
most once, a member must never run twice at the same time, and a process must
never be forgotten. The modules here follow one execution from the command that
asks for it (gateway, Single Chat, automation) through the queue and the launch
to the process that serves it (fleet), the retries it may need (network
recovery), the card that shows it in an external chat, and the two ends it may
meet: the shutdown of the core and the deletion of its Thread.

Paths below are relative to `crates/rovai-core/src/` unless they start with
`docs/` or `apps/`.

## 1. Inventory

| Component | State | Operations | Hard behaviour | What makes it correct |
|---|---|---|---|---|
| Message Delivery queue (`delivery_queue.rs`) | `camp_message_delivery`, `agent_run`, `agent_run_input` rows | enqueue, claim a batch, reject a batch, expire continuations, settle at a terminal | claims race steers, recalls, terminals and recovery | one open run per lane; every claimed Delivery has a run that will settle it; the lane is served |
| Active input, "steer" (`steer.rs`, `application/steer.rs`) | `requested_mode`, `target_execution_epoch`, steer rows of `runtime_input_delivery` | route to a live execution, check, prepare, submit, acknowledge, return, reconcile | the availability is read, the lock is released, things change; replies get lost | an input is consumed once; it never moves to another execution |
| Run continuation (`run_continuation.rs`) | `camp_run_continuation` | continue an ended run | the source may disappear while the continuation waits | a continuation runs alone and only for an eligible source |
| Run lifecycle (`runtime.rs`, `context.rs`, `action.rs`, `db.rs`) | `agent_run.status`, `wait_reason`, `execution_epoch`, `cancel_*`; start rows of `runtime_input_delivery` | claim, dispatch, acknowledge, mark unknown, succeed, fail, stop, lose, recover | crash between submit and evidence; late evidence after a terminal | nothing in doubt is dispatched again; a terminal leaves no open input |
| Execution task and cleanup worker (`application.rs`) | launch tasks, active registry, cleanup candidates | launch, hand off, release, stop the Host, acknowledge | cleanup and launch of the same run overlap | no acknowledged cleanup while a launch may still create a process |
| Planned shutdown (`planned_shutdown.rs`) | phase, three RwLocks, active and settled maps | launch, terminal and route admission; barrier, drain | permits race the closing of their gate | a stable snapshot, one terminal per execution, nothing settles behind the cutoff, the shutdown ends |
| Runtime fleet (`runtime_fleet.rs`) | leases, processes, idle LRU, fences, owner records | acquire, start, release, stop, retire, sweep, fence, shut down | a start that ends after its lease was stopped; a stop that times out | the tables agree; limits hold; a proven cleanup is true; one writer per session; waiters are answered |
| Network recovery (`network_recovery.rs`, `application.rs`) | in-memory queue of retries | register, take due, hint, complete, defer | stale epochs, repeated reports, hints, restart | a waiting run is never forgotten; late workers are inert; every recovery ends |
| Execution wake (`execution_wake.rs`) | one `Notify` per consumer | wake after a commit | lost wakes | every commit that creates work wakes its consumer |
| Command gateway (`command.rs`) | receipts in `event_log` | execute, replay, reject, erase a withdrawn publication | repeated commands on several connections | a command takes effect once; its receipt is for ever; a Thread under deletion is frozen |
| Thread deletion (`camp_deletion.rs`, `application/mission.rs`, `application.rs`) | operation row, journal, worktree row, lifecycle gate | accept, stop, delete the rows, clean up, retry; prepare and remove a worktree | crashes and failures between the steps; a second owner of the worktree | what was accepted happens: kept worktrees survive, promised removals complete |
| Automations (`automation.rs`, `automation_clock.rs`, `automation_control.rs`, the driver of `execution_driver.rs`) | definitions, occurrences, clock sample, boundary, scheduler control | create, edit, run now, claim due, settle, enforce a limit, recover, pause and resume | sleep, restarts, a corrected clock, edits between selection and claim | an occurrence runs once or is recorded as skipped, for the right reason; what is due is consumed |
| Execution cards of Channels (`channel.rs`, `apps/desktop/src/main/channel-settings.ts`) | `channel_execution_console`, `channel_delivery` rows; the pump of the Desktop | project, seal, supersede, claim, send, settle | an update in flight when the console is sealed or recalled; leases that expire; lost answers | a card shows its sealed snapshot or its failure is recorded; nothing follows a recall |
| Single Chats (`single_chat.rs`, the driver of `execution_driver.rs`) | drafts, pending inputs, edit session, messages | send, edit, take back, delete, publish, record a failure, end | publication races edits and the end of the chat | each input is published once and in order; the queue never stalls without a reason |
| Legacy dispatch, notifications, compaction observers, Missions, other parts of Channels, attachments, context, memory, skills, adapters, schema, desktop and web clients | see `PROJECT.json` | | mostly data, single transactions or external protocols | not modelled, or only where they touch the above |

How they interact: a command commits a transaction through the gateway and wakes
a consumer; a scheduler task scans rows, claims and starts launch tasks; a
launch task acquires a process from the fleet and binds its route; launch tasks
and Runtime handlers write evidence and terminals in their own transactions; a
terminal may leave a *cleanup debt* (`cancel_requested_at` without
`cancel_acknowledged_at`) that blocks the next claim of the lane until the
cleanup worker proves, through the fleet, that the process is gone; a network
failure parks the run in the recovery queue, which dispatches it as a new epoch;
automations and Single Chats enqueue the same kind of runs; the Channel outbox
mirrors the state of runs to an external chat; a deletion stops the executions of
a Thread and fences the fleet; the shutdown coordinator closes admissions of all
of them; a start of the core recovers the rows.

The hazards of this code are listed in `PROJECT.json` at the line where they
bite, each with the properties that cover it, or with the reason why none does.

## 2. Modules

| Module | Lines | What it is |
|---|---|---|
| `AdmissionGate` | 47 | abstract specification of one admission: open, closed, drained |
| `PlannedShutdown` | 901 | the coordinator with its callers; refines `AdmissionGate` three times |
| `PlannedShutdown_proofs` | 1471 | TLAPS proofs about it |
| `InputOnce` | 41 | abstract specification of what happens to an input: queue, run, closed, consumed at most once |
| `DeliveryQueue` | 917 | one lane: queue, batch runs, inputs, supplements, terminals, cleanup, recovery; refines `InputOnce` |
| `DeliveryQueue_proofs` | 3198 | TLAPS proofs of the lane's invariants, that `DeliveryQueue` implements `InputOnce`, and that one turn at most is live |
| `RuntimeFleet` | 963 | leases, Hosts, starts, stops, fences, with their callers |
| `RuntimeFleet_proofs` | 6296 | TLAPS proofs about it |
| `NetworkRecovery` | 613 | the retry queue, its coordinator and workers, the row, the launch of each epoch, the event loop |
| `NetworkRecovery_proofs` | 3121 | TLAPS proofs about it |
| `CommandGateway` | 243 | receipts and their replay |
| `ThreadDeletion` | 566 | acceptance, coordinator, journal, the worktree with its worker |
| `ThreadDeletion_proofs` | 2908 | TLAPS proofs about it |
| `AutomationRuns` | 554 | definitions, occurrences, driver, clock, sleep and control |
| `AutomationRuns_proofs` | 2616 | TLAPS proofs about it |
| `ExecutionConsole` | 500 | execution cards, their outbox and the Host's pump |
| `GatewayConsole_proofs` | 4769 | TLAPS proofs about `CommandGateway` and about `ExecutionConsole`, one after the other |
| `SingleChatQueue` | 307 | the inputs of one conversation and the driver that publishes them |
| `SingleChatQueue_proofs` | 1902 | TLAPS proofs about it |
| `MC...` | | the instances of each for TLC: model values, symmetry, small functions, constraints |

In every module an action is a region between two await points, one transaction,
or what happens under one lock; a crash is an action wherever state outlives the
process. Definitions keep the names of the functions they stand for; `map` in
`PROJECT.json` gives the lines.

### PlannedShutdown

An element of `Execution` is one AgentRun at one epoch (`ActiveExecutionKey`).
The state is the coordinator's own (`phase`, `routesOpen`, `active`, `route`,
`plannedStop`, `recorded`, `settled`), the cancellation flags it shares with a
launch permit (`cancelled`, `launching`, `launchGuards`), the row of the run
(`run`), and a program counter for each actor: `task` (the launch task,
`dispatch_agent_run_candidate`), `cleaner` (the cleanup worker), `observer`
(handlers of Runtime terminals and callbacks) and `shutdown` (the procedure in
`run_core`). `*Abort` actions are the task aborts of the shutdown. tokio's
`RwLock` is fair, so a writer that waits stops new readers (`LaunchReadable`,
`GateReadable`). The two maps are copied at the release of an entry, in two
steps, because `remove_active_inner` drops the first lock before it takes the
second.

Documented behaviours that the model keeps: a cancelled handoff keeps the launch
guard; the claim and the registration happen under one database lock but the
registration awaits the registry mutex; `release_active_execution` reads the
cleanup debt under the database lock; candidates of the cleanup worker come only
from keys the registry owns; a cleanup is proven only by a stop that began after
the launch ended; every wait of the shutdown procedure has a deadline.

### DeliveryQueue

One *lane* is a member in a Thread. `delivery`, `source`, `recall`, `run`,
`input`, `start`, `steer`, `steerRun` are rows; `launch`, `sender`, `owned`,
`recovering` are memory that a crash forgets; `startFate`, `steerFate` and
`host` are the Runtime's own view, which the program cannot read and the
properties use to say what *really* happened. Each action is one transaction:

* users: `SendMessage`, `SendSupplement` (`route_user_message`), `Withdraw`,
  `Continue`, `Stop`, `CompleteMission`;
* scheduler: `ClaimBatch`, `RejectBatch`, `CancelContinuations`, `ClaimRun`,
  `RejectDispatch`;
* launch: `PrepareStart`, `DispatchStart`, `LaunchDone`, `FailLaunch`;
* evidence and terminals: `AckStart`, `StartRefused`, `StartUnknown`, `Succeed`,
  `FailNative`, `ReconcileLoss`;
* network recovery: `MarkNetworkRecovery`, `ArmNetworkRecovery`;
* cleanup: `StopHost`, `AckCleanup`;
* supplements: `PickSupplement`, `CheckSupplement`, `PrepareSupplement`,
  `PreparationFails`, `DispatchSupplement`, the three answers and
  `ReconcileSupplement`;
* `Crash`: the loss of memory and `prepare_v2_recovery`, which runs before
  anything else of the next generation;
* external: `StartHost`, `NativeStart`, `NativeSteer`, `NativeTurnEnds`,
  `HostExit`.

`EndRun` is what every terminal does to its run, inputs and Deliveries
(`settle_run_deliveries` with `settle_execution`); `CloseStarts` is added by the
terminals that a Runtime did not report (`close_abortive_run_effects`).
`Codex` is a constant because it changes the protocol: every Codex terminal owes
a cleanup, a Codex launch with an input in doubt is lost rather than failed, a
Codex supplement can be reconciled, and network recovery is for the others.

Abstractions. A message and its Delivery are one. Payload limits only shorten
the prefix a batch takes, so the claim chooses any prefix. The protocol and
version checks of a steer are a choice of the sender between `SendMessage` and
`SendSupplement`. A run has one launch future at a time. Success is reported by
a Host that is still there. Processes of an earlier generation may survive a
crash: an open input of theirs may still be taken, which is why `OneLiveTurn`
speaks of the runs of one generation only.

### RuntimeFleet

A `Lease` is one AgentRun at one epoch, a `Process` the identity of one
reservation and of the process spawned for it (`entry`, `os`). `byRun`, `idleLru`,
`fence`, `deleting` and `shutdown` are the tables under the fleet's mutex; the
fleet's own tasks are `start` and `stop`; `launch`, `release` and `cleaner` are
the callers that wait for it. Reservation, spawn and commit of a start are
separate steps, so its lease may be stopped, its Thread fenced or the fleet shut
down in between; a stop may time out and is then repeated by the sweeper; an
eviction gives the place of an idle Host away before that Host is reaped.
A launch whose policy changed plans the stop of every idle Host of its binding under
the lock (`RetireIncompatible`: these Hosts are `Stopping` and their stops "planned"),
and then dispatches and awaits them one after another in any order, because the code
walks a hash map (`AwaitRetirement`). It fails at the first one that was not reaped
(`Unretired`), and what it had planned after that is never dispatched: the stop is
*abandoned*. `plan_stop` shares an open stop with whoever comes later, so a launch,
a cleanup, a fence and the sweeper (`sweeping`: it awaits its stops without a
deadline) can wait for an abandoned stop for ever; so does a caller of
`invalidate_matching`, whose wait the model leaves out because nothing of the fleet
depends on it. `StopsFinish` states the promise of the documents and fails; the
liveness properties that hold name `Abandoned` as their only exception: any
abandoned stop for `StopsEnd`, one of the same Thread for `DeletionFences`, and for
`LaunchEnds` and `CleanupSettles` one of the same binding that a launch awaits.
`kind` chooses the adapter because the adapters differ in what they demand: a
Codex cleanup needs evidence that outlives the process (owner records), and
pooled Hosts are retired when the policy changed. A Codex run that a crash ended
before any process was recorded has no such evidence, so `CleanupSettles` is
stated for a core that keeps running. Left out: the wire protocol of the Hosts and the
priorities among waiting starts.

`SingleWriter` and `ResidentBound` say what holds for any number of Hosts, which the
proofs found to be less than it looks on a small instance. Of a Hermes binding two
Hosts may live at once, one warm or being stopped and one at work, when a member
may keep more than one. The limits count a Host that an eviction stops with the
start that takes its place, so the living residents stay within the limit of the
core, but a member may have one more alive than its limit until the evicted one is
reaped, and for ZCode, whose bursts can be kept and evicted like residents, neither
limit holds. `ResidentQuota` is what the documents say; section 3 has the two
counterexamples.

### NetworkRecovery

`entry` is the queue, `worker` the tasks of the coordinator, `run` the row,
`active` the binding, `task` the launch task of every epoch, `prompt` and `acp`
the Host and the loop that handles its events one by one. The row is marked, the
execution released and the retry registered in three steps, as in the loop.
`DeliveryQueue` has the same rows, with the queue reduced to `recovering`.
An answer or the exit of a Host may come before the launch task has recorded its
handoff, and a prompt that cannot be written (`PromptUnsent`) leaves its input in
doubt and fails the launch. Two runs suffer from that order: the one whose launch
fails at its handoff after its prompt had failed and been registered, which takes the
check out (`overtaken`), and the one whose launch binds the route of a Host that
is dead (`deadRoute`). The two variables are history: no action reads them. The
properties name those two runs as their only exceptions, and without the exceptions
they fail (two findings below). The classifier of failures and the lengths of the
delays are left out.

### CommandGateway

A request has the fields that the gateway looks at: id, type, actor, draft
editor, Thread, epoch, and the publication that a withdrawal names. `log` is the
receipts, `call` what each connection is in the middle of: it looks the command
up, and later commits the receipt with the effects in one transaction, or rolls
back because another connection was first. An answer may be lost. `effects` and
`answers` are history. Commands whose envelope names no Thread are not refused
while it is deleted; `ThreadFrozen` says so, and `ThreadDeletion` shows where
that matters. The names that `ExecutionConsole` has too (`GatewayInit`, `GatewaySpec`,
`ApplyCommand`, ...) carry a prefix, because one module proves about both. Left out:
the contents of results and the digests.

### ThreadDeletion

One Thread with one worktree. `camp` and `journal` are the two stages of an
operation with their attempts and attention flags, `ws` the worktree row and its
owner, `disk` what is really there, `exec` the executions, one of them with no
recorded adapter, so that it can never be a target of a stop. `gate` is the
lifecycle gate shared by preparation, worker and coordinator. Preparation and
removal are split at their Git calls; a failure or a crash may come at each, and
`WorkerFails` also stands for a failure of the updates that record the worktree and
the branch as removed. The last of these may leave a row that has failed with
nothing left to remove, which no retry takes up: `FailedCanRetry` states what the
contract says of it, and `DeletionCompletes` leaves that history out.
Abstractions: the generation and the token of a preparation are dropped (there
is one), names do not collide, and a batch delete is handled Thread by Thread.

### AutomationRuns

Time is a small number, a schedule the set of times it names (calendar arithmetic
is left to unit tests). `def` and `occ` are rows; `driver` is the loop of
`execution_driver.rs` with its clock sample, recovery boundary, reminder and
permit: it observes a sleep, settles, claims one row at a time and computes when
to wake. `control`, `desk` and `mail` are the scheduler control that a Desktop
sends, applied in any order. `device` and `slept` let the device sleep between
any two steps. `awakeAt`, `since` and `gone` are history. Settlements of one pass
are one step; claims are one step each. Commands with a stale version change
nothing and are stutters. Occurrences of the legacy ThreadTurn kind are left out.
A wall clock that is set back upsets what the code decides by it: a slot that
already has a row may come due again. `Accounted`, `OnlyAwake`,
`DispatchedOnce` and `DueConsumed` leave those histories out, and `AutomationRunsBack.cfg` shows why;
`OnlyAwake` is about systems whose clock tells a sleep (`Native`): on the others the
boundary moves only when the Desktop says so.

### ExecutionConsole

`console` and `rows` are the rows of the Core, `host` the pump of one Desktop
Host: a tick is one Core transaction that projects, seals, supersedes, expires
leases and claims; then it sends and settles one claim after the other. `chat`
is what the external chat really shows. `faults` is the history of what went
wrong: a tick of the Host of another provider, a refused call, an unclear one
(effect without answer), a dropped settlement, a slow send, a restart of the
Desktop. Properties that cannot hold after such a fault name it with `Suffered`.
A settlement as sent is made inside the `try` of `#deliverNow`: if its request
fails, or the Core rejects it because the row is no longer the attempt of this
worker, the claim is settled again as failed; if that throws too, the rest of the claims
is given up (`Thrown`). Left out: a recall that the provider refuses because the
message is gone, which is settled as sent outside the `try`.
Abstractions: the runs of one member, created before the first starts, at most
one by a CampTurn; claims in any order within a priority; the limit of 20 claims
is not reached; 2 attempts stand for 5; a call of a dead process does not land
later; card actions, pages and unpublished Bots are left out.

### SingleChatQueue

`draft` is the composer of each client, `items` the pending inputs, `session`
the edit session, `chat` the messages, `run` and `turns` the runs, `driver` and
`wake` the driver that lists the head, publishes it and records a failure, each
under the database lock, which it gives up in between. A text stands for an
input with its attachments and quotes. Commands that are refused change nothing
and are left out. A head whose edit session belongs to a client that went away
waits until that client returns or the chat ends (a hazard without a property).
The successor of a chat and its history are left out.

## 3. What is checked

Deadlock is not checked in these modules: each bounded instance whose messages
are all done, like a core that has exited, really stops.

| Run | Instance | Shows |
|---|---|---|
| `shutdown_drain` | 1 execution, 2 handlers with 2 different terminals | `PlannedTerminalsAgree`, `StableSnapshot`, `SettlementCutoff`, `OwnedUntilClean`, `AdmissionsKept` (the three refinements of `AdmissionGate`) |
| `shutdown_live` | 1 execution with a pooled Host, fair tasks | `LaunchBarrier`, `CleanAfterLaunch`, `CleanupConfirmed` |
| `queue_codex` | 2 Deliveries, 2 runs, Codex, fair | `OneLiveTurn`, `ClaimedIsOwned`, `LaneServed` |
| `queue_recovery` | 2 Deliveries, 2 runs, 2 epochs, 1 crash, not Codex | `OneOpenRun`, `InputsSettled`, `ConsumedOnce` (the refinement of `InputOnce`) |
| `fleet_hosts` | 2 executions of one binding, 2 processes, room for 1, Codex, Hermes and ZCode, 1 crash | `FleetAgrees`, `CleanupProven`, `SingleWriter`, `NoLateWork` |
| `fleet_live` | 1 Codex execution with stops, fences, a shutdown and exits; 3 DSH executions of one binding with eviction, failed stops, a change of policy and an abandoned stop; fair | `CleanupSettles`, `WaitersAnswered` |
| `net_recovery` | 1 run, 3 epochs, 1 restart, fair | `RecoveryAgrees`, `Watched`, `OlderWorkerInert`, `RecoveryEnds` |
| `gateway` | 3 ids, 2 connections, users, an agent, a draft editor | `AnsweredOnce`, `ReceiptsKept`, `ThreadFrozen` |
| `deletion` | 2 deletes (keep, clean), 2 cleanups of the user, 2 executions, 3 faults, 1 crash, fair | `PromiseKept`, `RetainedSurvives`, `DeletesInOrder`, `DeletionCompletes` |
| `automation` | 1 definition, times up to 2, schedules of two times or a single one, run now, 1 sleep, 1 crash, 1 clock correction, fair | `OccurrencesAgree`, `ClaimedRightly`, `DueConsumed`, `LimitEnforced` |
| `console` | 2 runs, 1 change of the evidence or 1 fault of any of 6 kinds, fair | `CardsAgree`, `SealedIsCarried`, `FinalCardShown` |
| `single_chat` | 2 clients, 4 texts, 3 sends, 1 restart, fair | `QueueAgrees`, `ChatSettles` |

Properties with several parts are conjunctions of named ones, each with its own
comment: for example `FleetAgrees` is `TypeOK`, `LeaseBookkeeping`,
`ResidentBound` and `FencedQuiet`.

Further instances answer narrower questions and are not part of the list:
`PlannedShutdownExit` (only the deadlines are fair; the shutdown completes),
`DeliveryQueueCrash` (Codex with a crash), `ExecutionConsoleTwo`, `...Single` and
`...Faults` (two runs in any order, without the constraint).

### Bounds, and why they are enough

The shutdown properties relate one execution to one or two handlers, or a launch
to one barrier; further executions only repeat that, and the proofs cover any
number. In the queue, a Delivery that a batch run claims never returns, so
`MaxRun = MaxDelivery` runs suffice; two give a supplement of a run and its
successor; two epochs give a retry with an older input; one crash is enough
because recovery leaves the same kinds of states as the first generation. In the
fleet two executions compete for one binding and one place, the second process is
the replacement; `Focused` asks the questions about policies, other adapters,
and crashes one at a time. `fleet_live` needs three DSH executions, the least that leave
two Hosts of an old policy whose stops expired to a third launch with a new one:
`Staged` fixes in which order they come and cuts steps that need never happen, or
puts off a cleanup until its launch is over; `Reserved` keeps a reservation for every
launch that may need it (a launch without one would be stuck by the bound, not by the
code), and `InOrder` uses the reservations in order. The exceptions of `LaunchEnds` and
`CleanupSettles` would need a fourth execution; the instance shows that nothing else
stalls a launch. Three epochs are the least in which a worker of an
old epoch, a failed retry and its successor meet (`MaxEpoch` ends the model, not
the code). `TwoDisturbances` leaves out more than two of a Stop, a lost
authorisation, a shutdown and a restart in one behaviour; none of these is fair. Three commands are a publication, its withdrawal and one more; two
connections race. A deletion meets at most one other owner before it and one
after it; `Limit = 2` attempts are exhausted and renewed with three faults. Two
times give an occurrence that is late and one that overlaps; `OneMore` is the first
definition and one more edit, sleep, end, correction or untrusted sample.
`OneEvent` lets either the evidence change once or one fault happen, with one run
after the other. Three sends give a head, its successor and a direct send.

### Fairness

`PlannedShutdown!Fairness`: the event loop continues a task it
started, a launch future is bounded by its timeouts, the cleanup worker retries
and a stop that is retried succeeds at last. `DeadlineSpec` assumes only the
timers of the shutdown procedure. `DeliveryQueue!LaneFairness`: the scheduler is
woken by a commit and by a fallback tick (`process_agent_run_scheduler`); a
launch and every request have a timeout, and a launch does not prepare refused
inputs for ever (strong fairness of its end); terminals and exits that the
Runtime reports are processed; the cleanup worker retries. Of a Runtime only
this is assumed: a turn that began ends.

`RuntimeFleet`: the fleet's tasks run and the sweeper ticks when its last sweep has
ended, a launch that began goes on (whether one begins is not assumed), a process that is
stopped again and again is reaped at last (strong fairness of the stop), an
unproven cleanup and a deletion are retried. `NetworkRecovery`: loops, timers and
tasks run; the database does not fail every check of a run nor every read of its
row, and capacity is not refused for ever. `ThreadDeletion`: coordinator and worker have ticks, a preparation and
a stop end, and the user answers notices of attention; failures are finitely many
(`MaxFaults`). `AutomationRuns`: the driver runs, a sleeping device wakes, an
ended core is started again, a control message that was sent is handled.
`ExecutionConsole`: the pump steps, leases and backoffs run out, the text
writer ends. `SingleChatQueue`: the driver runs. Nothing is assumed of users
otherwise, of agents, of supplements or of a Host that never starts.

### Disagreements between documents and code

Each counterexample is a behaviour of the code that a document or a comment
excludes (quoted in `PROJECT.json`, "findings"). The configuration and the
property that TLC finds violated:

| Configuration, property | What happens |
|---|---|
| `DeliveryQueueRefusedSupplement`, `RefusedSupplementReturns` | A Codex run succeeds, which sets `cancel_requested_at` for its cleanup; an explicit refusal of a supplement is read afterwards; `return_to_queue` requires `cancel_requested_at IS NULL`, so the message stays failed although it was not accepted. |
| `DeliveryQueueSourceError`, `SettledByOwnRun` | While a supplement's attachments are read, its run succeeds, the message returns to the queue and the next batch run claims it; the late error of the worker (`fail_preparation`) fails the Delivery of the new run. |
| `DeliveryQueueResume`, `CrashedRunResumes` | A crash after the claim of a batch run and before its input is prepared leaves it in `runtime_recovery`; the batch scheduler lists queued runs only. |
| `DeliveryQueuePiLaunch`, `LaunchFailureEndsRun` | Reading the images of a Pi input fails after the input is prepared: the failure is rejected because the prepared input counts as unsettled, and the run stays running without a launch. |
| `RuntimeFleetEvict`, `ResidentQuota` | A warm ZCode burst whose background tasks ended is evicted (`reserve_idle_eviction`), and the new Host is registered as a resident though the victim held no place: more residents live than the core allows. |
| `RuntimeFleetMembers`, `ResidentQuota` | The idle Host of a member is evicted for another member; while it is being stopped, its own member takes the freed place: the member has more living residents than its limit, for good if the stop expires. |
| `RuntimeFleetAbandoned`, `StopsFinish` | A launch that retires two Hosts of an old policy fails at the first whose stop expires; the stop of the second is planned but never dispatched, its Host stays `Stopping`, and everyone who stops it later shares a completion that nobody drives; the idle sweeper never sweeps again. |
| `NetworkRecoveryLate`, `WatchedAlways` | The network terminal of an epoch is handled before its launch completes the handoff; the late failure of the launch removes the retry, and its own terminal is rejected: the run waits for the network until a restart. |
| `NetworkRecoveryLate`, `DeadHostAlways` | A Host dies between the send of the prompt and the handoff: its exit is dropped as the business of the launch, which binds the route of the dead Host and ends; the run stays running until a Stop or a restart. |
| `NetworkRecoveryShown`, `AcceptedShowsProgress` | After a restart the accepted run keeps showing the network failure, because the display is cleared only for entries of the queue, which is empty. |
| `ThreadDeletionOwner`, `OwnerKept` | A cleanup command of the user names no Thread and is not refused during a deletion; it takes the worktree row over, and the deletion never finds its row again. |
| `ThreadDeletionOwner`, `FailedCanRetry` | A worktree whose branch was already gone is removed and recorded, and the last update of its row fails: the row is `cleanup_failed` with nothing left to remove, which no retry takes up, and the deletion never completes. |
| `AutomationRunsLate`, `MissedBeforeBoundary` | After a wake, an occurrence that came due while the device was awake is recorded as missed, because `claim_due` judges the stored time and consumes the latest one. |
| `AutomationRunsBack`, `DueConsumedAlways` | After the clock was set back and the definition reopened, a slot that has a row comes due again; its claim fails on the unique index at every pass. |
| `ExecutionConsoleLost`, `AlwaysCarried` | A console is sealed while its first update is in flight; the update reports no message id and nothing is queued after it: the card is never shown and no failure is recorded. |

The listed runs check what does hold: where one of these histories would break a
property, the property names the exception (`TakenOver`, `SetBackOnce`,
`FailedCanRetry`, `FirstUpdateLost`, `overtaken`, `deadRoute`, `Abandoned`, the Hosts that
`ResidentBound` counts).

## 4. What is proved

The theorems hold for every value of the constants that satisfies the
assumptions of the module (`ShutdownAssumption`, `BoundsAssumption`, ...): any
number of executions, Deliveries, epochs, crashes. Every inductive invariant was
checked with TLC on the instance of its run, or on a smaller one, before it was
proved.

`PlannedShutdown_proofs`:

* `TypeCorrect`: `Spec => []TypeOK`, one step per action;
* `BarrierHolds` and `SnapshotStable`: `LaunchBarrier` and `StableSnapshot`. They
  are not inductive. `SnapshotInv` adds that the barrier was acquired only when no
  guard was held (`BarrierHeld`), that every task between its permit and the end
  of its launch still holds its guard (`GuardKept`), and that a launch that handed
  over has its final route (`HandedOverBound`). With them no step behind the
  barrier can come from a task that could register, bind or dispatch.
* `CleanAfterLaunchHolds` and `OwnershipKept`: `CleanAfterLaunch` and
  `OwnedUntilClean`. `CleanupInv` adds that a worker works only for entries of the
  registry (`WorkerOwns`) and that a claimed task's row is not queued any more
  (`ClaimedNotQueued`), so a stop that is acknowledged at once is never one of a
  claimed run.
* `PlannedTerminalsAgreeHolds`, `SettlementIsCutOff` and `AdmissionsAreKept`, the
  refinement of `AdmissionGate` by the launches, the terminals and the routes.
  `GateInv` has what the gates need: a terminal that got a planned permit is the
  one its entry records (`AdmittedRecorded`), how far the shutdown is tells what
  it has closed (`CutoffInv`), and behind a drained gate no handler owns a permit
  (`DrainedInv`). A handler may still get the read guard behind the drain: it
  finds the admission closed and gives the guard back, which is a stutter of the
  abstract gate.

`DeliveryQueue_proofs`, for both kinds of Runtime:

* `TypeCorrect`. The row types carry what the later proofs need: `DeliveryRow`,
  `RunRow` and `SenderRow` say which columns are empty in which status.
* `OneOpenRunHolds`: by `RunMoves`, what a step may do to a run row: only a batch
  claim opens a run, what ends a run closes its Deliveries, epochs only grow.
* `ClaimedIsOwnedHolds`: with `DeliveryMoves` (only a supplement's arrival and a
  batch claim give a Delivery to a run) and `InputMoves` (the messages of a run
  are written once).
* `UnknownStartWaitsHolds`, `OldEpochsSettledHolds`, `TerminalInputsClosedHolds`,
  and `InputsSettledHolds` for the three together. The inductive invariant is
  `InputInv`: only a dispatched epoch has a start input
  (`StartsDispatched`), the network coordinator only remembers runs that wait on a
  refused prompt (`RecoveringSafe`), an input that is prepared or sent belongs to
  an execution (`OpenStarts`, `OpenSteers`). Without `RecoveringSafe` a retry could
  be claimed for a run whose last epoch is in doubt; without `StartsDispatched` a
  new epoch could begin with an old row.

Its second part proves what the lane does to the Runtime:

* `ConsumedOnceHolds`, `Spec => ConsumedOnce`: every step
  of the lane is a step of `InputOnce` or a stutter under the mapping `Place`,
  `Consumed`. Its invariant `FateInv` links the rows to what the Runtime did: an
  input the Runtime holds or took is recorded as possibly delivered (`StartFate`,
  `SteerFate`), one epoch of a run at most ever is (`OneUncertainStart`, which needs
  `InputInv`), and a sender works on its own Delivery as long as its run executes
  (`SenderOwns`). `DeliverySteps` lists what a step may do to a Delivery; that a
  Delivery is given back only when the Runtime neither holds nor took it is the
  case that the code's guards in `return_to_queue` and `settle_execution` are for.
* `OneLiveTurnHolds`. `TurnInv` says that every run of this generation is *busy* (it
  executes or owes its cleanup) or *quiet* (it has no turn, and either its process
  is proven gone or the Runtime holds none of its inputs), that one run is busy
  at most, and that a turn took an input (`TurnTaken`). A run becomes quiet
  in one of two ways, and both need `FateInv`: by a terminal that the Runtime
  reported, or by a cleanup.

`GatewayConsole_proofs`, about `CommandGateway`: `GatewayTypeCorrect`,
`AnsweredOnceHolds`, `ReceiptsAreKept`, `ThreadIsFrozen`. `GatewayInv` counts an answer from the moment it is composed.
Every answer comes from the receipt of its command (`ResultsFromReceipts`), a
handler had an effect at most once and only together with a receipt
(`EffectsReceipted`), and any two answers agree (`ResultsAgree`). The last does not
follow from the first, because a withdrawal erases the content of the receipt
between two answers.

`NetworkRecovery_proofs`, for any runs, epochs, restarts and order of the runs:

* `TypeCorrect` and `OlderWorkerInertHolds`, from `EpochInv`: for each run, nothing
  is ahead of its row, and what may still move it is of its epoch
  (`EpochsKnown`, `EventKnown`, `WorkerKnown`). A check or a worker of the epoch of a run
  that is running would be able to dispatch it again; that both are older while
  it runs is the core of the invariant.
* `WatchedHolds` and `RecoveryAgreesHolds`, for every order of the handoff, the
  answers and the exits. `CycleInv` adds to `EpochInv` what the stage of a launch says
  of the input of its run (`LaunchKnown`), who settles a dead Host (`PromptKnown`), that the
  attempt of the check and the failure under way count the failures of the cycle,
  or the cycle is about to close (`CountKnown`, `Closing`), and that a check
  remembers its hint (`HintKnown`). The queue keeps no history, so the count can
  only be followed through the three steps in which the loop parks the run,
  releases the execution and registers the check.

`SingleChatQueue_proofs`: `QueueAgreesHolds` and `EndIsFinalHolds`. `ChatInv` numbers every
input with its send (`Numbered`): the queue, the chat and the active run are in the
order of these numbers, which gives the order of publication; texts in drafts,
open inputs and the chat are apart (`Apart`), which gives that none is published
twice or lost to two places; and what the driver remembers of the head is not
ahead of it (`DriverKnows`), so a failure is never recorded for another revision.

`ThreadDeletion_proofs`: `PromiseKeptHolds`, `RetainedSurvivesHolds` and
`DeletesInOrderHolds`, from `DeletionInv` (`InvariantHolds`). The protocol knows the
operation only from receipts, marker and journal, so `Stages` first says which of
them agree at which stage, `OperationIs` which command they mean; `GateHeld` says who
is behind the lifecycle gate and `RetriesLeft` that a failed stage is not tried again
before the user answered, which bounds the attempts. A kept worktree survives
because a removal under way when the command is accepted is one the user asked
for, of a tree that is gone (`NobodyAsked`, `WorkerKnown`); a promised removal
completes because the row stays with the operation until the tree and the branch
are gone (`RowOwned`, `RemovedIsGone`, `RowOfTree`, `CompletedAfter`), or a second
command of the user took it over (`TakenOver`).

`AutomationRuns_proofs`, for any definitions, schedules, sleeps and corrections of the
clock: `OccurrencesAgreeHolds` and `ClaimedRightlyHolds`, from `AutomationInv`
(`InvariantHolds`). Nobody records why an occurrence was skipped, so the invariant ties
the boundary of the driver to the history of the device: the core ran on an awake
device at every time between the boundary and now (`AwakeSince`), and so at every
time a batch may claim as due (`TickAwake`). A batch holds only what is due
(`BatchDue`) and was settled before (`BatchWorks`), so at most one occurrence is
active (`ActiveOnce`); a time that has a row lies before the next one (`PastSlots`),
which is why none is dispatched twice. What depends on the clock is claimed of
histories in which it was never set back (`ClockInv`): with a correction backwards TLC
refutes it (section 3). `NextFacts` and `LatestFacts` prove of the two `CHOOSE`s over a
schedule that they have a value and that it is the least or the greatest.

`RuntimeFleet_proofs`, for any executions, reservations, bindings, members, limits
and crashes, and every adapter. The fleet has some forty actions on one table, so the
proof has three layers. For each action a lemma says what happens to a row
(`RetireIncompatibleRows`, `StopReapedRows`, ...: it rests, is marked, cancelled,
stopped, taken, warmed, committed or removed); `LeaseSteps`, `CapacitySteps` and the
like sum up what any step may do to an execution, a caller or the capacity; and each
part of an invariant has a lemma for the step that uses only those.

* `TypeCorrect`, with `LeaseBookkeeping`: `HostInv` adds `Stage`, that an entry, its
  start, its stop and its process tell the same story, `Recorded`, and `Plans`, that what a
  launch holds as planned is a stop nobody drives, which no other launch holds.
* `NoLateWorkHolds`: a fleet that shuts down has cancelled every reservation
  (`ShutdownCancels`); a fence does not need this, because the commit of a start looks
  at `deleting` itself.
* `CleanupProvenHolds`, from `CleanupInv`. A proof of the worker speaks of a lease, so
  the invariant says which launches may still ask for a Host (`LaunchStages`), that
  nothing is leased to an execution whose cleanup is proven (`CleanedUp`), which
  execution a living process without an entry belongs to (`LeasesKnown`), and that a
  Codex execution has one Host and one record (`OneHost`), which is why a receipt on
  disk proves anything. `Reaped` says that an entry is removed only of a dead process
  while the core runs.
* `SingleWriterHolds`, from `WriterInv`: a launch that comes to `plan_acquire` has heard
  of the end of every Host of another policy (`PolicyRetired`, for the adapters that
  retire before they acquire), a reservation belongs to a launch that waits for it
  (`StartsWaited`), and of two Hosts in the table `OneWriter` holds, the dead that are
  not yet reaped included.
* `FleetAgreesHolds` and its part `ResidentBoundHolds`, from `QuotaInv`. The table of the
  residents alone cannot be the invariant: an eviction takes the victim out before it
  is dead, and an expired stop puts it back. `Counted` therefore counts each start that
  waits for its eviction as the victim it replaces. `ResidentTable` says that every
  resident Host is in the table or such a victim, and no two starts share one; what is
  counted never exceeds the table, a living resident is always counted, and `CountedStep`
  shows that a reservation keeps the limit and every other step lowers the count or
  keeps it. `WarmResident` is what the code gives for every adapter but ZCode: what is warm was
  registered as resident, so evicting it frees a place.

`GatewayConsole_proofs`, about `ExecutionConsole`, for any runs, faults, bounds and
order of the calls: `ConsoleTypeCorrect`, `CardsAgreeHolds` and `SealedIsCarriedHolds`, from
`ConsoleInv` (`ConsoleInvHolds`), which TLC checked as an invariant first. It has three layers.

* A tick takes all runs in one transaction, but treats each by itself: its *view* is the
  console row with its outbox rows. `ViewInv` is stated of a view, and each operation
  of the tick (projection, seal, supersession, expiry, claim) and the settlement is a lemma
  about views. Its core is `Newest`: the update that is open has the highest key of all
  updates of its console, so that queueing another one, which reuses a row that is pending and adds one
  after a row in flight, leaves one open. `SealQueued` says what is open once a
  console is sealed: the update for the sealed sequence. Without it the settlement of an older
  update would leave the seal uncarried; it is lost exactly by the histories that
  `FirstUpdateLost` names (a finding above).
* `HandInv` relates the claims in the hand of the Host to the rows. That each claim has
  its row and each row in flight its claim (`HandExact`) is true only while no settlement was
  dropped, no lease ran out under a slow call and the Desktop did not restart (`Stray`); after one of these, only what
  `settle_delivery` checks itself remains: a claim whose row is still owned says
  what the row says (`ClaimsAgree`). A rejected settlement comes only after such a fault
  (`ThrownKeeps`).
* `CardsInv` relates the cards of the chat to both: what is about to be sent or was sent for the
  sealed sequence shows the sealed snapshot (`SendInv`, `SentInv`), and unless a call had an effect
  that nobody heard of (`Blurred`), a console has one card, which it knows or the
  settlement under way brings (`ChatInv`), so that a recall leaves none.

`LatestStarted` proves that the `CHOOSE` of the successor has a value.

Every safety invariant and every action property that a run checks is stated by a
theorem. Out of the prover's reach, because they are liveness properties under fairness:
`CleanupConfirmed`, `LaneServed`, `CleanupSettles`, `WaitersAnswered`,
`RecoveryEnds`, `DeletionCompletes`, `DueConsumed`, `LimitEnforced`,
`FinalCardShown` and `ChatSettles`.

## 5. Not modelled

`PROJECT.json` lists every component with its status. In short: text assembly,
files, schemas, adapters' wire protocols, presentation and provider protocols
are data or external. CampTurn budgets, approvals, action executions and
the legacy dispatch of Deliveries are state machines of their own that touch the
lane only through its terminals. Notifications and compaction observers are
monotone counters and leases in single transactions. The map covers a small
share of the repository: most of its lines are SQL schemas and migrations, data
views, protocol clients, user interface and tests, which carry no protocol that
a model checker could say something about.

## 6. Plan

1. `AdmissionGate`, `PlannedShutdown`, `InputOnce`, `DeliveryQueue`, `CommandGateway`,
   `NetworkRecovery`, `SingleChatQueue`, `ThreadDeletion`, `AutomationRuns`, `RuntimeFleet`,
   `ExecutionConsole`: their safety properties are checked and proved.
2. Next: approvals and action executions (`action.rs`), notifications and the legacy
   dispatch, each a module of its own.
