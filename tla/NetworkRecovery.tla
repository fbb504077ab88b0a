--------------------------- MODULE NetworkRecovery ---------------------------
(***************************************************************************)
(* Recovery of an agent run whose ACP prompt failed for want of a network: *)
(* the in-memory queue of retries, its coordinator and the workers, the    *)
(* durable row of the run, the launch task of every execution epoch and    *)
(* the one loop that handles the events of the Runtimes.                   *)
(***************************************************************************)
EXTENDS Naturals, FiniteSets

CONSTANTS
    Run,            \* agent runs of ACP Runtimes
    MaxEpoch,       \* bound: execution epochs of a run
    MaxRestart      \* bound: restarts of the core

ASSUME BoundsAssumption == MaxEpoch \in Nat \ {0} /\ MaxRestart \in Nat

VARIABLES
    run,        \* rows of agent_run: marked is its last_error_code, shown its public failure,
                \* input the Start input of its epoch
    allowed,    \* the member is active and authorised
    active,     \* planned_shutdown.active: epoch and whether its route is bound
    task,       \* the launch task of each epoch
    host,       \* AcpRuntime registered for a run: its epoch, 0 for none
    prompt,     \* the prompt as its Runtime sees it
    acp,        \* process_acp_events: what the loop is in the middle of
    entry,      \* NetworkRecoveryQueue
    worker,     \* the attempt a worker or the coordinator holds for a run
    coordinator,
    shutdown,   \* planned_shutdown.shutdown_started
    restarts,
    failures,   \* history: network failures since the failure cycle began
    hints,      \* history: connectivity hints that moved a check of this cycle
    overtaken,  \* history: the epoch whose launch, failing after its prompt had ended, took
                \* out the check of its run in this cycle, 0 for none
    deadRoute   \* history: the epoch whose launch bound the route of a dead Host, 0 for none

store == <<run, allowed>>
core == <<active, task, host, prompt>>
queue == <<entry, worker, coordinator>>
life == <<shutdown, restarts>>
history == <<failures, hints, overtaken, deadRoute>>
vars == <<store, core, acp, queue, life, history>>

Epoch == 1 .. MaxEpoch
Wait == {"none", "network_recovery", "runtime_recovery", "network_recovery_blocked"}
RunState == [status : {"running", "waiting", "ended"}, wait : Wait, epoch : Epoch,
             input : {"none", "dispatched", "unknown", "not_accepted", "accepted"},
             marked : BOOLEAN, shown : BOOLEAN, cancelled : BOOLEAN]
NoEntry == [epoch |-> 0, attempt |-> 0, due |-> FALSE, inFlight |-> FALSE, woken |-> FALSE]
Entry == [epoch : Epoch, attempt : Epoch, due : BOOLEAN, inFlight : BOOLEAN, woken : BOOLEAN]
Idle == [at |-> "none", epoch |-> 0]
Worker == [at : {"begin", "rejected", "admitted", "dispatched"}, epoch : Epoch]
NoEvent == [at |-> "idle"]
Event == [at : {"acked", "stopAccepted", "mark", "release", "register",
                "stopTerminal", "settle", "lost"}, run : Run, epoch : Epoch]
NotActive == [epoch |-> 0, bound |-> FALSE]

Init ==
    /\ run = [r \in Run |-> [status |-> "running", wait |-> "none", epoch |-> 1,
                             input |-> "none", marked |-> FALSE, shown |-> FALSE, cancelled |-> FALSE]]
    /\ allowed = [r \in Run |-> TRUE]
    /\ active = [r \in Run |-> [epoch |-> 1, bound |-> FALSE]]
    /\ task = [r \in Run |-> [e \in Epoch |-> IF e = 1 THEN "starting" ELSE "none"]]
    /\ host = [r \in Run |-> 0]
    /\ prompt = [r \in Run |-> "none"]
    /\ acp = NoEvent
    /\ entry = [r \in Run |-> NoEntry]
    /\ worker = [r \in Run |-> Idle]
    /\ coordinator = "running" /\ shutdown = FALSE /\ restarts = 0
    /\ failures = [r \in Run |-> 0] /\ hints = [r \in Run |-> 0]
    /\ overtaken = [r \in Run |-> 0] /\ deadRoute = [r \in Run |-> 0]

(***************************************************************************)
(* The row.                                                                *)
(***************************************************************************)

\* load_agent_run_execution finds the run of this epoch.
Loads(r, e) == run[r].status # "ended" /\ run[r].epoch = e

\* A terminal state replaces the error and the public failure of the row.
EndedRow(r) ==
    [run EXCEPT ![r].status = "ended", ![r].wait = "none",
                ![r].marked = FALSE, ![r].shown = FALSE]

\* validate_terminal_target: only a running run takes a terminal state.
Terminal(r, e) == IF Loads(r, e) /\ run[r].status = "running" THEN EndedRow(r) ELSE run

\* network_recovery_input_is_safe
InputSafe(r) == run[r].input \in {"none", "not_accepted"}

\* release_active_execution: a cancelled execution stays with the cleanup worker.
Released(r, e) ==
    IF active[r].epoch = e /\ ~run[r].cancelled THEN [active EXCEPT ![r] = NotActive] ELSE active

(***************************************************************************)
(* NetworkRecoveryQueue                                                    *)
(***************************************************************************)

\* A failure of the same epoch is a duplicate, one of an older epoch is stale.
Registered(r, e) ==
    IF entry[r].epoch >= e THEN entry
    ELSE [entry EXCEPT ![r] = [epoch |-> e, attempt |-> entry[r].attempt + 1, due |-> FALSE,
                               inFlight |-> FALSE, woken |-> entry[r].woken]]

Contains(r, e) == entry[r] # NoEntry /\ entry[r].epoch <= e

\* mutant: an older epoch closes a newer one
CompleteAny(r, e) == [entry EXCEPT ![r] = NoEntry]

Completed(r, e) == IF Contains(r, e) THEN [entry EXCEPT ![r] = NoEntry] ELSE entry

\* mutant: a terminal of the recovery epoch leaves its check behind
KeptAfterTerminal(r, e) == entry

CompletedAfterTerminal(r, e) ==
    IF Contains(r, e) /\ entry[r].epoch < e THEN [entry EXCEPT ![r] = NoEntry] ELSE entry

\* mutant: a check that could not be made counts as an attempt
DeferAsAttempt(r, e) ==
    IF entry[r].epoch = e /\ entry[r].inFlight
    THEN [entry EXCEPT ![r].inFlight = FALSE, ![r].due = FALSE, ![r].attempt = @ + 1]
    ELSE entry

\* defer_check: the same attempt, later.
Deferred(r, e) ==
    IF entry[r].epoch = e /\ entry[r].inFlight
    THEN [entry EXCEPT ![r].inFlight = FALSE, ![r].due = FALSE]
    ELSE entry

Present(r) == entry[r] # NoEntry
Wakeable == {r \in Run : Present(r) /\ ~entry[r].inFlight /\ ~entry[r].woken /\ ~entry[r].due}
TakenDue == {r \in Run : Present(r) /\ ~entry[r].inFlight /\ entry[r].due}

\* The retry becomes due: its delay has passed.
DelayPasses(r) ==
    /\ Present(r) /\ ~entry[r].inFlight /\ ~entry[r].due
    /\ entry' = [entry EXCEPT ![r].due = TRUE]
    /\ UNCHANGED <<store, core, acp, worker, coordinator, life, history>>

\* runtime.networkRecovery.wake: the renderer is online again or the system resumed.
Wake ==
    /\ Wakeable # {}
    /\ entry' = [r \in Run |-> IF r \in Wakeable
                               THEN [entry[r] EXCEPT !.due = TRUE, !.woken = TRUE]
                               ELSE entry[r]]
    /\ hints' = [r \in Run |-> IF r \in Wakeable THEN hints[r] + 1 ELSE hints[r]]
    /\ UNCHANGED <<store, core, acp, worker, coordinator, life, failures, overtaken, deadRoute>>

(***************************************************************************)
(* process_network_recovery                                                *)
(***************************************************************************)

At(stages) == {r \in Run : worker[r].at \in stages}

TakeDue ==
    /\ coordinator = "running" /\ At({"begin", "rejected", "admitted", "dispatched"}) = {}
    /\ TakenDue # {}
    /\ entry' = [r \in Run |-> IF r \in TakenDue THEN [entry[r] EXCEPT !.inFlight = TRUE]
                                                 ELSE entry[r]]
    /\ worker' = [r \in Run |-> IF r \in TakenDue
                                THEN [at |-> "begin", epoch |-> entry[r].epoch] ELSE Idle]
    /\ UNCHANGED <<store, core, acp, coordinator, life, history>>

\* arm_network_recovery_attempt accepts the run as a candidate of the coordinator.
Armable(r, e) ==
    Loads(r, e) /\ run[r].status = "waiting"
      /\ run[r].wait \in {"network_recovery", "runtime_recovery"}

\* The run may be dispatched, or its attempt is no longer safe and needs a user.
Armed(r, e) ==
    [run EXCEPT ![r].wait = IF allowed[r] /\ InputSafe(r) THEN "runtime_recovery"
                                                          ELSE "network_recovery_blocked"]

\* begin_network_recovery_attempt
BeginAttempt(r) ==
    LET e == worker[r].epoch IN
    /\ worker[r].at = "begin"
    /\ run' = IF Armable(r, e) THEN Armed(r, e) ELSE run
    /\ worker' = [worker EXCEPT ![r].at =
                    IF Armable(r, e) /\ run'[r].wait = "runtime_recovery"
                    THEN "admitted" ELSE "rejected"]
    /\ UNCHANGED <<allowed, core, acp, entry, coordinator, life, history>>

\* The check fails (an error of the database) or its worker dies.
CheckFails(r) ==
    /\ worker[r].at = "begin"
    /\ entry' = Deferred(r, worker[r].epoch)
    /\ worker' = [worker EXCEPT ![r] = Idle]
    /\ UNCHANGED <<store, core, acp, coordinator, life, history>>

\* claim_agent_run: the execution of the next epoch. Admission is open until shutdown.
Claimable(r) ==
    /\ run[r].status = "waiting" /\ run[r].wait = "runtime_recovery"
    /\ allowed[r] /\ ~shutdown /\ run[r].epoch < MaxEpoch

ClaimRun(r) ==
    /\ run' = [run EXCEPT ![r].status = "running", ![r].wait = "none",
                          ![r].epoch = @ + 1, ![r].input = "none"]
    /\ active' = [active EXCEPT ![r] = [epoch |-> run[r].epoch + 1, bound |-> FALSE]]
    /\ task' = [task EXCEPT ![r][run[r].epoch + 1] = "starting"]

\* dispatch_agent_runs_by_id, once every worker of the batch has answered: the run is
\* claimed, refused before its launch, or left for later.
DispatchTurn(r) == worker[r].at = "admitted" /\ At({"begin", "rejected"}) = {}

DispatchClaims(r) ==
    /\ DispatchTurn(r) /\ Claimable(r) /\ ClaimRun(r)
    /\ worker' = [worker EXCEPT ![r].at = "dispatched"]
    /\ UNCHANGED <<allowed, host, prompt, acp, entry, coordinator, life, history>>

DispatchRejects(r) ==
    /\ DispatchTurn(r) /\ run[r].wait = "runtime_recovery"
    /\ run' = EndedRow(r)
    /\ worker' = [worker EXCEPT ![r].at = "dispatched"]
    /\ UNCHANGED <<allowed, core, acp, entry, coordinator, life, history>>

DispatchDefers(r) ==
    /\ DispatchTurn(r)
    /\ worker' = [worker EXCEPT ![r].at = "dispatched"]
    /\ UNCHANGED <<store, core, acp, entry, coordinator, life, history>>

\* The scheduler of the other runs may claim an armed run first.
SchedulerClaims(r) ==
    /\ Claimable(r) /\ ClaimRun(r)
    /\ UNCHANGED <<allowed, host, prompt, acp, queue, life, history>>

\* mutant: a run that was only deferred is forgotten
StopUnlessNewer(r, e) ==
    IF run[r].epoch > e /\ run[r].status # "ended" THEN entry ELSE Completed(r, e)

\* A newer epoch owns its own check.
FinishedDispatch(r, e) ==
    IF run[r].epoch > e /\ run[r].status # "ended" THEN entry
    ELSE IF Armable(r, e) THEN Deferred(r, e) ELSE Completed(r, e)

\* finish_network_recovery_dispatch
FinishTurn(r) ==
    /\ \/ worker[r].at = "rejected"
       \/ worker[r].at = "dispatched" /\ At({"begin", "rejected", "admitted"}) = {}
    /\ worker' = [worker EXCEPT ![r] = Idle]
    /\ UNCHANGED <<store, core, acp, coordinator, life, history>>

FinishDispatch(r) == FinishTurn(r) /\ entry' = FinishedDispatch(r, worker[r].epoch)

\* The run could not be read: the check is made again later.
FinishUnread(r) == FinishTurn(r) /\ entry' = Deferred(r, worker[r].epoch)

(***************************************************************************)
(* The launch task of an epoch.                                            *)
(***************************************************************************)

\* fail_claimed_agent_run: it first ends the recovery of the run through its epoch.
FailClaimed(r, e) ==
    /\ entry' = Completed(r, e)
    /\ task' = [task EXCEPT ![r][e] = "failing"]
    /\ UNCHANGED <<run, active>>

LaunchFails(r, e) ==
    /\ task[r][e] \in {"starting", "unsent"} /\ ~run[r].cancelled
    /\ FailClaimed(r, e)
    /\ UNCHANGED <<allowed, host, prompt, acp, worker, coordinator, life, history>>

PersistFailure(r, e) ==
    /\ task[r][e] = "failing"
    /\ run' = Terminal(r, e)
    /\ active' = Released(r, e)
    /\ task' = [task EXCEPT ![r][e] = "done"]
    /\ UNCHANGED <<allowed, host, prompt, acp, queue, life, history>>

\* begin_agent_run_input_dispatch and start_prompt
Prompted(r, e, input, opened, stage) ==
    /\ task[r][e] = "starting" /\ Loads(r, e)
    /\ run' = [run EXCEPT ![r].input = input]
    /\ host' = [host EXCEPT ![r] = e]
    /\ prompt' = [prompt EXCEPT ![r] = opened]
    /\ task' = [task EXCEPT ![r][e] = stage]
    /\ UNCHANGED <<allowed, active, acp, queue, life, history>>

SendPrompt(r, e) == Prompted(r, e, "dispatched", "open", "sent")

\* The prompt could not be written: mark_input_delivery_unknown, and the launch fails. Of such
\* a prompt the loop of the events can only see the exit of its Host.
PromptUnsent(r, e) == Prompted(r, e, "unknown", "unsent", "unsent")

\* complete_active_runtime_route_handoff: it fails when the execution was released.
Handoff(r, e) ==
    /\ task[r][e] = "sent" /\ ~run[r].cancelled
    /\ IF active[r].epoch = e
       THEN /\ active' = [active EXCEPT ![r].bound = TRUE]
            /\ task' = [task EXCEPT ![r][e] = "done"]
            /\ deadRoute' = [deadRoute EXCEPT ![r] = IF prompt[r] = "dead" THEN e ELSE @]
            /\ UNCHANGED <<run, entry, overtaken>>
       ELSE /\ FailClaimed(r, e)
            /\ overtaken' = [overtaken EXCEPT ![r] = IF Contains(r, e) THEN e ELSE @]
            /\ UNCHANGED deadRoute
    /\ UNCHANGED <<allowed, host, prompt, acp, worker, coordinator, life, failures, hints>>

\* A launch that finds itself cancelled leaves the rest to the cleanup worker.
LaunchCancelled(r, e) ==
    /\ task[r][e] \in {"starting", "unsent", "sent"} /\ run[r].cancelled
    /\ task' = [task EXCEPT ![r][e] = "done"]
    /\ UNCHANGED <<store, active, host, prompt, acp, queue, life, history>>

(***************************************************************************)
(* process_acp_events: one event at a time.                                *)
(***************************************************************************)

\* An answer may come before the launch task has bound the route.
Answers(r) == acp = NoEvent /\ prompt[r] = "open"

Goes(r, stage) == acp' = [at |-> stage, run |-> r, epoch |-> host[r]]
Continues(stage) == acp' = [acp EXCEPT !.at = stage]

\* process_acp_input_accepted: acknowledge_runtime_input
InputAccepted(r) ==
    /\ Answers(r) /\ run[r].input = "dispatched" /\ host[r] = run[r].epoch
    /\ run' = [run EXCEPT ![r].input = "accepted"]
    /\ Goes(r, "acked")
    /\ UNCHANGED <<allowed, core, queue, life, history>>

\* complete_network_recovery
Progressed(r) == [run EXCEPT ![r].marked = FALSE, ![r].shown = FALSE]

\* complete_network_recovery_after_input_acceptance
CompleteAccepted ==
    LET r == acp.run IN
    /\ acp.at = "acked"
    /\ \/ /\ Contains(r, acp.epoch)
          /\ run' = IF Loads(r, acp.epoch) /\ run[r].marked THEN Progressed(r) ELSE run
          /\ Continues("stopAccepted")
       \/ ~Contains(r, acp.epoch) /\ acp' = NoEvent /\ UNCHANGED run
    /\ failures' = IF run'[r].marked THEN failures ELSE [failures EXCEPT ![r] = 0]
    /\ hints' = IF run'[r].marked THEN hints ELSE [hints EXCEPT ![r] = 0]
    /\ overtaken' = IF run'[r].marked THEN overtaken ELSE [overtaken EXCEPT ![r] = 0]
    /\ UNCHANGED <<allowed, core, queue, life, deadRoute>>

StopAccepted ==
    /\ acp.at = "stopAccepted"
    /\ entry' = Completed(acp.run, acp.epoch)
    /\ acp' = NoEvent
    /\ UNCHANGED <<store, core, worker, coordinator, life, history>>

\* The prompt ends. A terminal releases the Host unless the core shuts down.
PromptEnds(r) ==
    /\ prompt' = [prompt EXCEPT ![r] = "closed"]
    /\ host' = IF shutdown THEN host ELSE [host EXCEPT ![r] = 0]
    /\ UNCHANGED <<allowed, active, task, queue, life, history>>

\* The Runtime refuses the input because of the network.
NetworkTerminal(r) ==
    /\ Answers(r) /\ run[r].input = "dispatched" /\ host[r] = run[r].epoch
    /\ run' = [run EXCEPT ![r].input = "not_accepted"]
    /\ Goes(r, "mark") /\ PromptEnds(r)

\* persist_acp_prompt_completion of any other end of the prompt.
OtherTerminal(r) ==
    /\ Answers(r) /\ Goes(r, "stopTerminal") /\ PromptEnds(r) /\ UNCHANGED run

\* mark_for_network_recovery
Markable(r, e) == Loads(r, e) /\ run[r].status = "running" /\ InputSafe(r)

MarkForRecovery ==
    LET r == acp.run IN
    /\ acp.at = "mark"
    /\ IF Markable(r, acp.epoch)
       THEN /\ run' = [run EXCEPT ![r].status = "waiting", ![r].wait = "network_recovery",
                                  ![r].marked = TRUE, ![r].shown = TRUE]
            /\ failures' = [failures EXCEPT ![r] = @ + 1]
            /\ Continues("release")
       ELSE Continues("stopTerminal") /\ UNCHANGED <<run, failures>>
    /\ UNCHANGED <<allowed, core, queue, life, hints, overtaken, deadRoute>>

ReleaseMarked ==
    /\ acp.at = "release"
    /\ active' = Released(acp.run, acp.epoch)
    /\ Continues("register")
    /\ UNCHANGED <<store, task, host, prompt, queue, life, history>>

\* register_network_recovery, unless the core shuts down.
RegisterMarked ==
    /\ acp.at = "register"
    /\ entry' = IF shutdown THEN entry ELSE Registered(acp.run, acp.epoch)
    /\ acp' = NoEvent
    /\ UNCHANGED <<store, core, worker, coordinator, life, history>>

StopTerminal ==
    /\ acp.at = "stopTerminal"
    /\ entry' = CompletedAfterTerminal(acp.run, acp.epoch)
    /\ Continues("settle")
    /\ UNCHANGED <<store, core, worker, coordinator, life, history>>

\* The terminal state is persisted and the execution released.
Settles ==
    /\ run' = Terminal(acp.run, acp.epoch)
    /\ active' = Released(acp.run, acp.epoch)
    /\ acp' = NoEvent
    /\ UNCHANGED <<allowed, task, host, prompt, queue, life, history>>

SettleTerminal == acp.at = "settle" /\ Settles

\* owns_unbound_launch and the other early returns of process_acp_agent_run_exit
ExitIgnored(r) ==
    \/ shutdown
    \/ /\ active[r].epoch = host[r] /\ ~active[r].bound
       /\ task[r][host[r]] \in {"unsent", "sent"}

\* The Host dies with the prompt open: AcpIncoming::Exited.
HostExits(r) ==
    /\ acp = NoEvent /\ prompt[r] \in {"open", "unsent"}
    /\ prompt' = [prompt EXCEPT ![r] = "dead"]
    /\ IF ExitIgnored(r)
       THEN UNCHANGED <<host, entry, acp>>
       ELSE /\ host' = [host EXCEPT ![r] = 0]
            /\ entry' = Completed(r, host[r])
            /\ Goes(r, "lost")
    /\ UNCHANGED <<store, active, task, worker, coordinator, life, history>>

\* reconcile_exited_agent_run: an input that may have executed ends the run.
ReconcileLoss == acp.at = "lost" /\ Settles

(***************************************************************************)
(* Users, shutdown and restart.                                            *)
(***************************************************************************)

\* The user stops the run.
Cancel(r) ==
    /\ run[r].status # "ended"
    /\ run' = [EndedRow(r) EXCEPT ![r].cancelled = TRUE]
    /\ UNCHANGED <<allowed, core, acp, queue, life, history>>

\* finish_agent_run_runtime_cleanup of an execution the core still holds.
CleanupStop(r) ==
    LET e == run[r].epoch IN
    /\ run[r].cancelled /\ active[r].epoch = e
    /\ entry' = Completed(r, e)
    /\ active' = [active EXCEPT ![r] = NotActive]
    /\ host' = [host EXCEPT ![r] = 0]
    /\ prompt' = [prompt EXCEPT ![r] = IF @ \in {"open", "unsent"} THEN "closed" ELSE @]
    /\ UNCHANGED <<store, task, acp, worker, coordinator, life, history>>

\* The member leaves or its authorisation no longer covers the run.
Revoke(r) ==
    /\ allowed[r] /\ allowed' = [allowed EXCEPT ![r] = FALSE]
    /\ UNCHANGED <<run, core, acp, queue, life, history>>

StartShutdown ==
    /\ ~shutdown /\ shutdown' = TRUE
    /\ UNCHANGED <<store, core, acp, queue, restarts, history>>

\* The coordinator aborts its workers and drains the queue.
StopCoordinator ==
    /\ shutdown /\ coordinator = "running"
    /\ coordinator' = "stopped"
    /\ worker' = [r \in Run |-> Idle]
    /\ entry' = [r \in Run |-> NoEntry]
    /\ UNCHANGED <<store, core, acp, life, history>>

\* prepare_v2_recovery: the wait goes back to the recovery at start, an input in doubt fails.
Recovered(r) ==
    IF run[r].status = "ended" THEN run[r]
    ELSE IF ~InputSafe(r) THEN EndedRow(r)[r]
    ELSE IF run[r].status = "running" \/ run[r].wait = "network_recovery"
         THEN [run[r] EXCEPT !.status = "waiting", !.wait = "runtime_recovery", !.marked = FALSE]
    ELSE run[r]

\* The core ends, planned or not, and starts again.
Restart ==
    /\ restarts < MaxRestart /\ restarts' = restarts + 1
    /\ run' = [r \in Run |-> Recovered(r)]
    /\ active' = [r \in Run |-> NotActive]
    /\ task' = [r \in Run |-> [e \in Epoch |-> IF task[r][e] = "none" THEN "none" ELSE "done"]]
    /\ host' = [r \in Run |-> 0]
    /\ prompt' = [r \in Run |-> "none"]
    /\ acp' = NoEvent
    /\ entry' = [r \in Run |-> NoEntry] /\ worker' = [r \in Run |-> Idle]
    /\ coordinator' = "running" /\ shutdown' = FALSE
    /\ failures' = [r \in Run |-> 0] /\ hints' = [r \in Run |-> 0]
    /\ overtaken' = [r \in Run |-> 0] /\ deadRoute' = [r \in Run |-> 0]
    /\ UNCHANGED allowed

Next ==
    \/ Wake \/ TakeDue \/ CompleteAccepted \/ StopAccepted \/ MarkForRecovery
    \/ ReleaseMarked \/ RegisterMarked \/ StopTerminal \/ SettleTerminal \/ ReconcileLoss
    \/ StartShutdown \/ StopCoordinator \/ Restart
    \/ \E r \in Run :
         \/ DelayPasses(r) \/ BeginAttempt(r) \/ CheckFails(r) \/ DispatchClaims(r)
         \/ DispatchRejects(r) \/ DispatchDefers(r) \/ SchedulerClaims(r) \/ FinishDispatch(r)
         \/ FinishUnread(r)
         \/ InputAccepted(r) \/ NetworkTerminal(r) \/ OtherTerminal(r) \/ HostExits(r)
         \/ Cancel(r) \/ CleanupStop(r) \/ Revoke(r)
         \/ \E e \in Epoch : \/ LaunchFails(r, e) \/ PersistFailure(r, e) \/ SendPrompt(r, e)
                             \/ PromptUnsent(r, e) \/ Handoff(r, e) \/ LaunchCancelled(r, e)

Spec == Init /\ [][Next]_vars

(***************************************************************************)
(* Properties                                                              *)
(***************************************************************************)

TypeOK ==
    /\ run \in [Run -> RunState] /\ allowed \in [Run -> BOOLEAN]
    /\ active \in [Run -> [epoch : Epoch, bound : BOOLEAN] \cup {NotActive}]
    /\ task \in [Run -> [Epoch -> {"none", "starting", "unsent", "sent", "failing", "done"}]]
    /\ host \in [Run -> {0} \cup Epoch]
    /\ prompt \in [Run -> {"none", "unsent", "open", "closed", "dead"}]
    /\ acp \in Event \cup {NoEvent}
    /\ entry \in [Run -> Entry \cup {NoEntry}]
    /\ worker \in [Run -> Worker \cup {Idle}]
    /\ coordinator \in {"running", "stopped"} /\ shutdown \in BOOLEAN
    /\ restarts \in 0 .. MaxRestart
    /\ failures \in [Run -> Nat] /\ hints \in [Run -> Nat]
    /\ overtaken \in [Run -> {0} \cup Epoch] /\ deadRoute \in [Run -> {0} \cup Epoch]

InService == coordinator = "running" /\ ~shutdown
Handling(r, stages) == acp # NoEvent /\ acp.run = r /\ acp.at \in stages
Waits(r) ==
    /\ run[r].status = "waiting"
    /\ \/ run[r].wait = "network_recovery"
       \/ run[r].wait = "runtime_recovery" /\ restarts = 0

HasCheck(r) ==
    \/ Handling(r, {"release", "register"})
    \/ /\ entry[r].epoch = run[r].epoch
       /\ entry[r].inFlight => worker[r].epoch = entry[r].epoch

\* A run that waits for the network is never forgotten: its failure is about to be registered,
\* or the queue holds a check of its own epoch, and a check in flight has a worker that will
\* answer for it. Nothing but the queue (and a restart) brings such a run back. The one run the
\* code forgets is the one whose launch reached its handoff after its prompt had failed and was
\* registered: the failing launch took the check out.
Watched ==
    InService =>
        \A r \in Run : Waits(r) =>
            HasCheck(r) \/ (overtaken[r] = run[r].epoch /\ ~Present(r))

\* No waiting run is forgotten, whatever its launch does.
WatchedAlways == InService => \A r \in Run : Waits(r) => HasCheck(r)

\* The backoff of a check counts the network failures since the input was last accepted:
\* deferred checks, hints, late workers and other events neither advance nor restart it; only
\* an overtaken launch does.
BackoffKept ==
    \A r \in Run : InService /\ Present(r) /\ run[r].marked /\ overtaken[r] = 0 =>
        entry[r].attempt + (IF Handling(r, {"release", "register"}) THEN 1 ELSE 0) = failures[r]

\* Between the first network failure and the acceptance of an input, connectivity hints bring
\* at most one check forward, whatever number of epochs the run goes through, unless an
\* overtaken launch made the queue forget the hint.
OneHint == \A r \in Run : run[r].status # "ended" /\ overtaken[r] = 0 => hints[r] <= 1

DeadHost(r) == ~shutdown /\ run[r].status = "running" /\ prompt[r] = "dead"
HasSettler(r) == task[r][run[r].epoch] \in {"unsent", "sent", "failing"} \/ Handling(r, {"lost"})

\* A running run whose Host died has somebody left to settle it: the launch task or the loop
\* of the events. An exit is dropped only for a launch that still owns the run, and the one run
\* nobody settles is the one whose launch then bound the route of the dead Host.
DeadHostSettled == \A r \in Run : DeadHost(r) => HasSettler(r) \/ deadRoute[r] = run[r].epoch

\* Every running run whose Host died has somebody left to settle it.
DeadHostAlways == \A r \in Run : DeadHost(r) => HasSettler(r)

\* The public network failure is shown while an epoch has not had its input accepted; once the
\* acceptance is handled, a running run no longer shows it.
AcceptedShowsProgress ==
    \A r \in Run : ~shutdown /\ run[r].status = "running" /\ run[r].input = "accepted"
        /\ run[r].shown => Handling(r, {"acked"})

\* A worker that answers for an epoch the run has left behind moves neither the check nor the
\* row of the newer epoch.
OlderWorkerInert ==
    [][\A r \in Run :
         /\ worker[r] # Idle /\ worker'[r] # worker[r] /\ Present(r)
         /\ worker[r].epoch < entry[r].epoch /\ InService /\ restarts' = restarts
         => entry'[r] = entry[r] /\ run'[r] = run[r]]_vars

\* The queue, the rows, the bindings and the Hosts agree: the backoff and the hints of a failure
\* cycle are counted right across its epochs, and no exit of a Host is lost on the way.
RecoveryAgrees == TypeOK /\ BackoffKept /\ OneHint /\ DeadHostSettled

LoopSteps ==
    \/ CompleteAccepted \/ StopAccepted \/ MarkForRecovery \/ ReleaseMarked \/ RegisterMarked
    \/ StopTerminal \/ SettleTerminal \/ ReconcileLoss

\* The loops and tasks run; the database does not fail every check of a run nor every read of
\* its row, and capacity for a dispatch is not refused for ever.
Fairness ==
    /\ WF_vars(LoopSteps) /\ WF_vars(TakeDue)
    /\ \A r \in Run :
         /\ WF_vars(DelayPasses(r)) /\ SF_vars(FinishDispatch(r)) /\ WF_vars(CleanupStop(r))
         /\ SF_vars(BeginAttempt(r)) /\ SF_vars(DispatchClaims(r))
         /\ WF_vars(DispatchDefers(r)) /\ WF_vars(SchedulerClaims(r))
         /\ \A e \in Epoch : /\ WF_vars(Handoff(r, e)) /\ WF_vars(PersistFailure(r, e))
                              /\ WF_vars(LaunchCancelled(r, e))

FairSpec == Init /\ [][Next]_vars /\ Fairness

\* A run that waits for the network is executed again in a newer epoch, ends, or is handed to
\* the user, unless the core shuts down first (MaxEpoch ends the model, not the code) or its
\* overtaken launch took its check out.
RetryHappens ==
    \A r \in Run :
        Waits(r) /\ run[r].epoch < MaxEpoch
          ~> \/ run[r].status # "waiting" \/ run[r].wait = "network_recovery_blocked"
             \/ shutdown \/ ~allowed[r]
             \/ overtaken[r] = run[r].epoch /\ ~Present(r)

\* The queue does not keep a run that ended: a check that outlived it is taken out.
EndedForgotten ==
    \A r \in Run : run[r].status = "ended" /\ Present(r) ~> ~Present(r) \/ shutdown

\* Every recovery ends: the wait of the run, and its check in the queue.
RecoveryEnds == RetryHappens /\ EndedForgotten
=============================================================================
