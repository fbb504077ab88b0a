--------------------------- MODULE PlannedShutdown ---------------------------
(***************************************************************************)
(* The planned shutdown coordinator of one Core generation                 *)
(* (crates/rovai-core/src/planned_shutdown.rs) together with everything    *)
(* that calls it (application.rs): the task that claims and launches an    *)
(* AgentRun execution, the handlers of Runtime terminals and callbacks,    *)
(* the cleanup worker of stopped executions, and the shutdown procedure.   *)
(*                                                                         *)
(* An element of Execution is an ActiveExecutionKey: one AgentRun at one   *)
(* execution epoch.  An epoch is claimed once, so a key is registered at   *)
(* most once and the fields of its registry entry are frozen when it       *)
(* leaves the registry; "settled" is therefore the set of the keys whose   *)
(* entry was copied, and route, plannedStop and recorded are shared.       *)
(***************************************************************************)
CONSTANTS
  Execution,     \* the ActiveExecutionKeys of this generation
  HostPooled,    \* executions whose Host returns to a pool (codex-cli): every
                 \*   end of such a run leaves a cleanup to acknowledge
  OneShot,       \* executions whose launch future also reads the accepted
                 \*   input and the result (claude-code-cli, antigravity-app)
  Route,         \* RuntimeRouteBinding values
  Terminal,      \* terminal observations: an outcome with its fingerprint
  CancelTerminal,\* those whose outcome is Cancelled
  Observer,      \* concurrent handlers of Runtime terminals and callbacks
  None           \* no route, no terminal, no execution

ASSUME ShutdownAssumption ==
  /\ HostPooled \subseteq Execution
  /\ OneShot \subseteq Execution
  /\ CancelTerminal \subseteq Terminal
  /\ None \notin Route \cup Terminal \cup Execution
  /\ Terminal \cap {"stop", "failure"} = {}

VARIABLES
  phase,          \* ShutdownPhase, an atomic
  routesOpen,     \* runtime_routes_open, an atomic
  active,         \* keys of the active map
  route,          \* binding of each entry
  plannedStop,    \* entries with planned_stop_requested
  recorded,       \* terminal_fingerprint and terminal_outcome of each entry
  settled,        \* keys of the settled map
  cancelled,      \* ExecutionCancellation.cancelled, shared with the permit
  launching,      \* ExecutionCancellation.launching, shared with the permit
  launchGuards,   \* launch tasks that hold a read guard of launch_gate
  task,           \* where each launch task is
  run,            \* the agent_run row of each execution
  sent,           \* executions whose prompt dispatch began
  cleaner,        \* where the cleanup of each execution is
  observer,       \* each handler: where it is and what it observed
  shutdown,       \* where the shutdown procedure is
  launchQuiesced, \* its local launch_quiesced
  snapshot,       \* its local "active": the keys it will interrupt
  tasksAborted,   \* it has aborted the tracked tasks
  drained,        \* the gates ("terminal", "route") whose write lock it got
  fenced,         \* the final cancel-all settlement committed
  admitted        \* history: the terminals that got a Planned permit

registryVars == <<active, route, plannedStop, recorded, settled, cancelled>>
launchVars   == <<launching, launchGuards, task>>
databaseVars == <<run, sent>>
shutdownVars == <<phase, routesOpen, shutdown, launchQuiesced, snapshot,
                  tasksAborted, drained, fenced>>
vars == <<registryVars, launchVars, databaseVars, shutdownVars, cleaner,
          observer, admitted>>

\* What the actions of one actor leave alone.
notTask     == <<shutdownVars, cleaner, observer, admitted>>
notCleaner  == <<launchVars, sent, shutdownVars, observer, admitted>>
notObserver == <<launchVars, sent, shutdownVars, cleaner>>
notShutdown == <<registryVars, launchVars, sent, cleaner, observer, admitted>>

-----------------------------------------------------------------------------
(* Types *)

Phase == {"Accepting", "ClosingLaunch", "Draining", "TerminalClosed"}

\* Before a claim: "checked" has read the phase, "guarded" has the read guard,
\* "permitted" owns an ExecutionLaunchPermit, "claiming" committed the claim.
\* After it: "failed" and "returned" are the two ends of launch_agent_run.
TaskState == {"idle", "checked", "guarded", "permitted", "claiming",
              "claimed", "launching", "sending", "dispatched", "handing",
              "live", "returned", "failed", "failing", "persisting",
              "releasing", "removing", "done"}

ObserverState == {"idle", "routeChecked", "routeGuarded", "routed",
                  "termChecked", "termGuarded", "lookup", "lookupSettled",
                  "held", "ended", "removing", "released"}

ShutdownState == {"serving", "intent", "closing", "barrier", "retry",
                  "barrierAgain", "locked", "snapshot", "cutoffPhase",
                  "cutoffRoutes", "stopping", "draining", "fencing",
                  "reaping", "exited"}

\* The columns of agent_run that matter here: whether it ended and through what,
\* cancel_requested_at and cancel_acknowledged_at as the state of its cleanup.
RunRow == {row \in [status : {"queued", "running", "ended"},
                    by : {None, "stop", "failure"} \cup Terminal,
                    cleanup : {"none", "pending", "acked"}] :
             /\ row.by # None => row.status = "ended"
             /\ row.cleanup # "none" => row.status = "ended"}

Observation == {ob \in [pc : ObserverState, key : Execution \cup {None},
                        route : Route \cup {None},
                        terminal : Terminal \cup {None}, planned : BOOLEAN] :
                  ob.pc # "idle" => None \notin {ob.key, ob.route, ob.terminal}}

IdleObserver == [pc |-> "idle", key |-> None, route |-> None,
                 terminal |-> None, planned |-> FALSE]

TypeOK ==
  /\ phase \in Phase /\ routesOpen \in BOOLEAN
  /\ active \subseteq Execution /\ settled \subseteq Execution
  /\ route \in [Execution -> Route \cup {None}]
  /\ plannedStop \subseteq Execution
  /\ recorded \in [Execution -> Terminal \cup {None}]
  /\ cancelled \subseteq Execution /\ launching \subseteq Execution
  /\ launchGuards \subseteq Execution
  /\ task \in [Execution -> TaskState]
  /\ run \in [Execution -> RunRow]
  /\ sent \subseteq Execution
  /\ cleaner \in [Execution -> {"idle", "stopping", "acked", "removing"}]
  /\ observer \in [Observer -> Observation]
  /\ shutdown \in ShutdownState
  /\ launchQuiesced \in BOOLEAN
  /\ snapshot \subseteq Execution
  /\ tasksAborted \in BOOLEAN
  /\ drained \subseteq {"terminal", "route"}
  /\ fenced \in BOOLEAN
  /\ admitted \in [Execution -> SUBSET Terminal]

Init ==
  /\ phase = "Accepting" /\ routesOpen = TRUE
  /\ active = {} /\ settled = {} /\ plannedStop = {}
  /\ route = [e \in Execution |-> None]
  /\ recorded = [e \in Execution |-> None]
  /\ cancelled = {} /\ launching = {} /\ launchGuards = {}
  /\ task = [e \in Execution |-> "idle"]
  /\ run = [e \in Execution |->
              [status |-> "queued", by |-> None, cleanup |-> "none"]]
  /\ sent = {}
  /\ cleaner = [e \in Execution |-> "idle"]
  /\ observer = [o \in Observer |-> IdleObserver]
  /\ shutdown = "serving" /\ launchQuiesced = FALSE /\ snapshot = {}
  /\ tasksAborted = FALSE /\ drained = {} /\ fenced = FALSE
  /\ admitted = [e \in Execution |-> {}]

-----------------------------------------------------------------------------
(* Locks.  A tokio RwLock is fair: a read request queues behind a waiting  *)
(* writer, so no read guard is handed out while the shutdown procedure     *)
(* waits for, or holds, the write side.                                    *)

LaunchReadable == shutdown \notin {"barrier", "barrierAgain", "locked"}
GateReadable(gate) == shutdown = "draining" => gate \in drained

\* Admissions look at their atomic before they queue and again once they hold
\* the guard.
NotRechecked == TRUE                                                 \* mutant
LaunchAccepting == phase = "Accepting"
TerminalAccepting == phase # "TerminalClosed"
RoutesAccepting == routesOpen

RouteHolders == {o \in Observer : observer[o].pc \notin {"idle", "routeChecked"}}
HoldersBeforeSettlement ==                                           \* mutant
  {o \in Observer : observer[o].pc \in {"termGuarded", "lookup", "lookupSettled"}}
TerminalHolders ==
  {o \in Observer : observer[o].pc \in {"termGuarded", "lookup",
                       "lookupSettled", "held", "ended", "removing", "released"}}

\* The database mutex is held across an await by a claim that still has to
\* register, and by release_active_execution while it moves an entry.
DatabaseFree ==
  /\ \A e \in Execution : task[e] \notin {"claiming", "removing"}
  /\ \A o \in Observer : observer[o].pc # "removing"

(* The agent_run row. *)
Ended(by, cleanup) == [status |-> "ended", by |-> by, cleanup |-> cleanup]

\* settle_interrupted_run_in_tx: a queued run left nothing to clean up.
Stopped(row) ==
  CASE row.status = "queued"  -> Ended("stop", "acked")
    [] row.status = "running" -> Ended("stop", "pending")
    [] OTHER                  -> row

HostCleanup(e) == IF e \in HostPooled THEN "pending" ELSE "none"
CleanupPending(e) == run[e].cleanup = "pending"
Acknowledged(row) ==
  IF row.cleanup = "pending" THEN [row EXCEPT !.cleanup = "acked"] ELSE row

-----------------------------------------------------------------------------
(* The launch task of an execution. *)

\* The permit is dropped with the task that owns it: finish_launch, and the
\* read guard if the handoff did not give it up.
EndTaskFlagKept(e, pc) ==                                            \* mutant
  /\ task' = [task EXCEPT ![e] = pc]
  /\ launchGuards' = launchGuards \ {e}
  /\ UNCHANGED launching

EndTask(e, pc) ==
  /\ task' = [task EXCEPT ![e] = pc]
  /\ launching' = launching \ {e}
  /\ launchGuards' = launchGuards \ {e}

EnterLaunch(e) ==
  /\ task[e] = "idle" /\ run[e].status = "queued"
  /\ phase = "Accepting"
  /\ task' = [task EXCEPT ![e] = "checked"]
  /\ UNCHANGED <<notTask, registryVars, databaseVars, launching, launchGuards>>

AcquireLaunchGuard(e) ==
  /\ task[e] = "checked" /\ LaunchReadable
  /\ task' = [task EXCEPT ![e] = "guarded"]
  /\ launchGuards' = launchGuards \cup {e}
  /\ UNCHANGED <<notTask, registryVars, databaseVars, launching>>

TakeLaunchPermit(e) ==
  /\ task[e] = "guarded"
  /\ LaunchAccepting
  /\ task' = [task EXCEPT ![e] = "permitted"]
  /\ launching' = launching \cup {e}
  /\ UNCHANGED <<notTask, registryVars, databaseVars, launchGuards>>

LaunchAdmissionClosed(e) ==
  /\ task[e] = "guarded"
  /\ ~LaunchAccepting
  /\ EndTask(e, "idle")
  /\ UNCHANGED <<notTask, registryVars, databaseVars>>

\* Preparation is deferred (the run stays queued), or the dispatch is
\* rejected and the queued run fails with it.
AbandonLaunch(e) ==
  /\ task[e] = "permitted" /\ DatabaseFree
  /\ EndTask(e, "idle")
  /\ \/ UNCHANGED run
     \/ /\ run[e].status = "queued"
        /\ run' = [run EXCEPT ![e] = Ended("failure", "none")]
  /\ UNCHANGED <<notTask, registryVars, sent>>

\* claim_agent_run commits first; register_active follows while the database
\* lock is still held, after an await of the registry mutex.
Claim(e) ==
  /\ task[e] = "permitted" /\ DatabaseFree
  /\ IF run[e].status = "queued"
       THEN /\ run' = [run EXCEPT ![e].status = "running"]
            /\ task' = [task EXCEPT ![e] = "claiming"]
            /\ UNCHANGED <<launching, launchGuards>>
       ELSE EndTask(e, "idle") /\ UNCHANGED run
  /\ UNCHANGED <<notTask, registryVars, sent>>

RegisterActive(e) ==
  /\ task[e] = "claiming"
  /\ active' = active \cup {e}
  /\ task' = [task EXCEPT ![e] = "claimed"]
  /\ UNCHANGED <<notTask, databaseVars, route, plannedStop, recorded, settled,
                 cancelled, launching, launchGuards>>

\* load_agent_run_execution decides what becomes of the claim: a run that a
\* stop has ended is left alone, an input that cannot be materialized fails
\* the run without releasing its entry, otherwise the launch future starts.
StartLaunch(e) ==
  /\ task[e] = "claimed" /\ DatabaseFree
  /\ \/ /\ run[e].status = "running"
        /\ task' = [task EXCEPT ![e] = "launching"]
        /\ UNCHANGED <<launching, launchGuards, run>>
     \/ /\ run[e].status = "running"
        /\ run' = [run EXCEPT ![e] = Ended("failure", HostCleanup(e))]
        /\ EndTask(e, "done")
     \/ /\ run[e].status = "ended"
        /\ EndTask(e, "done")
        /\ UNCHANGED run
  /\ UNCHANGED <<notTask, registryVars, sent>>

\* begin_agent_run_input_dispatch: the flag is read before the database lock,
\* the row decides under it.
CheckLaunchCancelled(e) ==
  /\ task[e] = "launching"
  /\ task' = [task EXCEPT ![e] = IF e \in cancelled THEN "failed" ELSE "sending"]
  /\ launching' = IF e \in cancelled THEN launching \ {e} ELSE launching
  /\ UNCHANGED <<notTask, registryVars, databaseVars, launchGuards>>

BeginDispatch(e) ==
  /\ task[e] = "sending" /\ DatabaseFree
  /\ IF run[e].status = "running"
       THEN /\ sent' = sent \cup {e}
            /\ task' = [task EXCEPT ![e] = "dispatched"]
            /\ UNCHANGED launching
       ELSE /\ task' = [task EXCEPT ![e] = "failed"]
            /\ launching' = launching \ {e}
            /\ UNCHANGED sent
  /\ UNCHANGED <<notTask, registryVars, launchGuards, run>>

\* complete_active_runtime_route_handoff: after a stop the guard is kept and
\* no route is granted; the launch future goes on to drain its child.
CheckHandoffGuardDropped(e) ==                                       \* mutant
  /\ task[e] = "dispatched"
  /\ task' = [task EXCEPT ![e] = IF e \in cancelled THEN "live" ELSE "handing"]
  /\ launchGuards' = IF e \in cancelled THEN launchGuards \ {e} ELSE launchGuards
  /\ UNCHANGED <<notTask, registryVars, databaseVars, launching>>

CheckHandoffCancelled(e) ==
  /\ task[e] = "dispatched"
  /\ task' = [task EXCEPT ![e] = IF e \in cancelled THEN "live" ELSE "handing"]
  /\ UNCHANGED <<notTask, registryVars, databaseVars, launching, launchGuards>>

\* bind_route_inner: an entry is bound once, a repeated binding must be equal.
CanBind(e, r) == e \in active /\ route[e] \in {None, r}

CompleteHandoff(e, r) ==
  /\ task[e] = "handing"
  /\ IF CanBind(e, r)
       THEN /\ route' = [route EXCEPT ![e] = r]
            /\ launchGuards' = launchGuards \ {e}
            /\ task' = [task EXCEPT ![e] = "live"]
            /\ UNCHANGED launching
       ELSE /\ task' = [task EXCEPT ![e] = "failed"]
            /\ launching' = launching \ {e}
            /\ UNCHANGED <<route, launchGuards>>
  /\ UNCHANGED <<notTask, databaseVars, active, plannedStop, recorded, settled,
                 cancelled>>

\* settle_claude_input_acceptance and its Antigravity twin bind the route
\* again, or for the first time when the child ended before the handoff.
AcceptInput(e, r) ==
  /\ e \in OneShot /\ task[e] \in {"dispatched", "live"}
  /\ routesOpen /\ GateReadable("route")
  /\ IF CanBind(e, r)
       THEN /\ route' = [route EXCEPT ![e] = r]
            /\ task' = [task EXCEPT ![e] = "live"]
            /\ UNCHANGED launching
       ELSE /\ task' = [task EXCEPT ![e] = "failed"]
            /\ launching' = launching \ {e}
            /\ UNCHANGED route
  /\ UNCHANGED <<notTask, databaseVars, active, plannedStop, recorded, settled,
                 cancelled, launchGuards>>

\* launch_agent_run returns: Ok once the route is live or when the launch is
\* postponed before any dispatch (network recovery), Err at any point.
FinishLaunch(e) ==
  /\ task[e] \in {"launching", "sending", "dispatched", "handing", "live"}
  /\ launching' = launching \ {e}
  /\ \/ /\ task[e] \in {"launching", "live"}
        /\ task' = [task EXCEPT ![e] = "returned"]
     \/ task' = [task EXCEPT ![e] = "failed"]
  /\ UNCHANGED <<notTask, registryVars, databaseVars, launchGuards>>

\* The task after its future returned Ok: an execution without a route is
\* released, every other one is left to its terminal or to the cleanup.
LaunchReturned(e) ==
  /\ task[e] = "returned"
  /\ IF e \notin cancelled /\ e \in active /\ route[e] = None
       THEN /\ task' = [task EXCEPT ![e] = "releasing"]
            /\ UNCHANGED <<launching, launchGuards>>
       ELSE EndTask(e, "done")
  /\ UNCHANGED <<notTask, registryVars, databaseVars>>

\* ... and after Err: must_preserve_unresolved_after_nonterminal_error keeps a
\* bound or cancelled execution, any other run is failed and released.
LaunchFailed(e) ==
  /\ task[e] = "failed"
  /\ IF e \in cancelled \/ (e \in active /\ route[e] # None)
       THEN EndTask(e, "done")
       ELSE /\ task' = [task EXCEPT ![e] = "failing"]
            /\ UNCHANGED <<launching, launchGuards>>
  /\ UNCHANGED <<notTask, registryVars, databaseVars>>

\* fail_claimed_agent_run: a pooled Host is first marked for cleanup.
MarkFailedHost(e) ==
  /\ task[e] = "failing"
  /\ task' = [task EXCEPT ![e] = "persisting"]
  /\ cancelled' = cancelled \cup ({e} \cap active \cap HostPooled)
  /\ UNCHANGED <<notTask, databaseVars, active, route, plannedStop, recorded,
                 settled, launching, launchGuards>>

PersistFailure(e) ==
  /\ task[e] = "persisting" /\ DatabaseFree
  /\ task' = [task EXCEPT ![e] = "releasing"]
  /\ run' = IF run[e].status = "running"
              THEN [run EXCEPT ![e] = Ended("failure", HostCleanup(e))] ELSE run
  /\ UNCHANGED <<notTask, registryVars, launching, launchGuards, sent>>

-----------------------------------------------------------------------------
(* Leaving the registry. *)

\* release_active_execution inspects the row under the database lock: an
\* outstanding cleanup keeps the entry and cancels it, otherwise remove_active
\* takes it out unless it is cancelled.
KeepsCancelledOnly(e) == e \in cancelled \/ e \notin active           \* mutant
KeepsEntry(e) == CleanupPending(e) \/ e \in cancelled \/ e \notin active

ReleaseEntry(e) ==
  /\ active' = IF KeepsEntry(e) THEN active ELSE active \ {e}
  /\ cancelled' = IF CleanupPending(e) THEN cancelled \cup ({e} \cap active)
                  ELSE cancelled

\* remove_active_inner drops the active lock before it locks "settled".
InsertSettled(e) ==
  settled' = IF route[e] # None /\ recorded[e] # None
               THEN settled \cup {e} ELSE settled

TaskRelease(e) ==
  /\ task[e] = "releasing" /\ DatabaseFree
  /\ ReleaseEntry(e)
  /\ IF KeepsEntry(e)
       THEN EndTask(e, "done")
       ELSE /\ task' = [task EXCEPT ![e] = "removing"]
            /\ UNCHANGED <<launching, launchGuards>>
  /\ UNCHANGED <<notTask, databaseVars, route, plannedStop, recorded, settled>>

TaskInsertSettled(e) ==
  /\ task[e] = "removing"
  /\ InsertSettled(e)
  /\ EndTask(e, "done")
  /\ UNCHANGED <<notTask, databaseVars, active, route, plannedStop, recorded,
                 cancelled>>

TaskStep(e) ==
  \/ EnterLaunch(e) \/ AcquireLaunchGuard(e) \/ TakeLaunchPermit(e)
  \/ LaunchAdmissionClosed(e) \/ AbandonLaunch(e) \/ Claim(e)
  \/ RegisterActive(e) \/ StartLaunch(e) \/ CheckLaunchCancelled(e)
  \/ BeginDispatch(e) \/ CheckHandoffCancelled(e)
  \/ \E r \in Route : CompleteHandoff(e, r) \/ AcceptInput(e, r)
  \/ FinishLaunch(e) \/ LaunchReturned(e) \/ LaunchFailed(e)
  \/ MarkFailedHost(e) \/ PersistFailure(e) \/ TaskRelease(e)
  \/ TaskInsertSettled(e)

\* An aborted task is dropped at whatever await it has reached.
TaskAbort(e) ==
  /\ tasksAborted /\ task[e] \notin {"idle", "done"}
  /\ EndTask(e, "done")
  /\ UNCHANGED <<notTask, registryVars, databaseVars>>

-----------------------------------------------------------------------------
(* A stop and the cleanup it leaves. *)

\* request_agent_run_cancellation: terminal at once, cleanup outstanding.  A
\* request that was already admitted may still run while the shutdown begins.
StopRun(e) ==
  /\ ~tasksAborted /\ DatabaseFree
  /\ run[e].status # "ended"
  /\ run' = [run EXCEPT ![e] = Stopped(@)]
  /\ UNCHANGED <<notShutdown, shutdownVars>>

\* dispatch_agent_run_cancellations takes the rows with an outstanding cleanup
\* whose execution this generation still owns; cleanup_agent_run_runtime begins
\* by cancelling it.
BeginCleanup(e) ==
  /\ ~tasksAborted /\ cleaner[e] = "idle" /\ DatabaseFree
  /\ CleanupPending(e) /\ e \in active
  /\ cleaner' = [cleaner EXCEPT ![e] = "stopping"]
  /\ cancelled' = cancelled \cup {e}
  /\ UNCHANGED <<notCleaner, active, route, plannedStop, recorded, settled,
                 run>>

HandoffInProgress(e) == e \in active /\ e \in launchGuards            \* mutant
LaunchInProgress(e) == e \in active /\ e \in launching

\* The Runtime is proven stopped only by a stop that began after the launch
\* had finished; record_runtime_cleanup_completed follows.
ProveCleanup(e) ==
  /\ ~tasksAborted /\ cleaner[e] = "stopping" /\ DatabaseFree
  /\ ~LaunchInProgress(e)
  /\ run' = [run EXCEPT ![e] = Acknowledged(@)]
  /\ cleaner' = [cleaner EXCEPT ![e] = "acked"]
  /\ UNCHANGED <<notCleaner, registryVars>>

\* RuntimeCancellationIngressFence::Unproven: retried later.
DeferCleanup(e) ==
  /\ ~tasksAborted /\ cleaner[e] = "stopping"
  /\ cleaner' = [cleaner EXCEPT ![e] = "idle"]
  /\ UNCHANGED <<notCleaner, registryVars, run>>

\* finish_codex_terminal_host: the Host went back to its pool, or was reaped,
\* after the Runtime reported its terminal.
AcknowledgeHostRelease(e) ==
  /\ ~tasksAborted /\ cleaner[e] = "idle" /\ DatabaseFree
  /\ e \in HostPooled /\ run[e].by \in Terminal /\ CleanupPending(e)
  /\ run' = [run EXCEPT ![e] = Acknowledged(@)]
  /\ cleaner' = [cleaner EXCEPT ![e] = "acked"]
  /\ UNCHANGED <<notCleaner, registryVars>>

\* cleanup_completed removes the entry whether it is cancelled or not.
CompleteCleanup(e) ==
  /\ cleaner[e] = "acked"
  /\ active' = active \ {e}
  /\ cleaner' = [cleaner EXCEPT ![e] = IF e \in active THEN "removing" ELSE "idle"]
  /\ UNCHANGED <<notCleaner, route, plannedStop, recorded, settled, cancelled,
                 run>>

CleanerInsertSettled(e) ==
  /\ cleaner[e] = "removing"
  /\ InsertSettled(e)
  /\ cleaner' = [cleaner EXCEPT ![e] = "idle"]
  /\ UNCHANGED <<notCleaner, active, route, plannedStop, recorded, cancelled,
                 run>>

\* A cleanup task is tracked like a launch task and aborted with it.
CleanerAbort(e) ==
  /\ tasksAborted /\ cleaner[e] # "idle"
  /\ cleaner' = [cleaner EXCEPT ![e] = "idle"]
  /\ UNCHANGED <<notCleaner, registryVars, run>>

CleanupStep(e) ==
  \/ BeginCleanup(e) \/ ProveCleanup(e) \/ DeferCleanup(e)
  \/ AcknowledgeHostRelease(e) \/ CompleteCleanup(e) \/ CleanerInsertSettled(e)

-----------------------------------------------------------------------------
(* The handler of a Runtime terminal, or of a plain Runtime callback. *)

Move(o, pc) == observer' = [observer EXCEPT ![o].pc = pc]
Leave(o) == observer' = [observer EXCEPT ![o] = IdleObserver]

\* A live Runtime reports; enter_runtime_route reads the flag a first time.
Observe(o, e, r, t) ==
  /\ observer[o].pc = "idle"
  /\ e \in sent /\ routesOpen
  /\ observer' = [observer EXCEPT ![o] =
       [pc |-> "routeChecked", key |-> e, route |-> r, terminal |-> t,
        planned |-> FALSE]]
  /\ UNCHANGED <<notObserver, registryVars, run, admitted>>

AcquireRouteGuard(o) ==
  /\ observer[o].pc = "routeChecked" /\ GateReadable("route")
  /\ Move(o, "routeGuarded")
  /\ UNCHANGED <<notObserver, registryVars, run, admitted>>

TakeRoutePermit(o) ==
  /\ observer[o].pc = "routeGuarded"
  /\ IF RoutesAccepting THEN Move(o, "routed") ELSE Leave(o)
  /\ UNCHANGED <<notObserver, registryVars, run, admitted>>

\* complete_callback of a handler that observed no terminal.
CompleteCallback(o) ==
  /\ observer[o].pc = "routed"
  /\ Leave(o)
  /\ UNCHANGED <<notObserver, registryVars, run, admitted>>

\* admit_terminal, up to the second look at the phase.
CheckTerminal(o) ==
  /\ observer[o].pc = "routed"
  /\ IF phase # "TerminalClosed" THEN Move(o, "termChecked") ELSE Leave(o)
  /\ UNCHANGED <<notObserver, registryVars, run, admitted>>

AcquireTerminalGuard(o) ==
  /\ observer[o].pc = "termChecked" /\ GateReadable("terminal")
  /\ Move(o, "termGuarded")
  /\ UNCHANGED <<notObserver, registryVars, run, admitted>>

ClassifyTerminal(o) ==
  /\ observer[o].pc = "termGuarded"
  /\ IF TerminalAccepting
       THEN Move(o, IF phase = "Draining" THEN "lookup" ELSE "held")
       ELSE Leave(o)
  /\ UNCHANGED <<notObserver, registryVars, run, admitted>>

\* The checks of a terminal that arrives while draining; the first matching
\* terminal of an active entry is recorded, every other one must equal it.
AnyTerminal(e, t) == e \in active                                    \* mutant
AgreesWithRecord(e, t) == recorded[e] \in {None, t}

Matches(e, ob) ==
  /\ route[e] = ob.route
  /\ ob.terminal \in CancelTerminal => e \in plannedStop

AdmitPlanned(o) ==
  /\ observer' = [observer EXCEPT ![o].pc = "held", ![o].planned = TRUE]
  /\ admitted' = [admitted EXCEPT ![observer[o].key] =
                    @ \cup {observer[o].terminal}]

LookupActive(o) ==
  LET ob == observer[o]
      e  == ob.key
  IN  /\ ob.pc = "lookup"
      /\ \/ /\ e \in active /\ Matches(e, ob)
            /\ AgreesWithRecord(e, ob.terminal)
            /\ recorded' = [recorded EXCEPT ![e] = ob.terminal]
            /\ AdmitPlanned(o)
         \/ /\ e \in active
            /\ ~(Matches(e, ob) /\ AgreesWithRecord(e, ob.terminal))
            /\ Leave(o)
            /\ UNCHANGED <<recorded, admitted>>
         \/ /\ e \notin active
            /\ Move(o, "lookupSettled")
            /\ UNCHANGED <<recorded, admitted>>
      /\ UNCHANGED <<notObserver, active, route, plannedStop, settled,
                     cancelled, run>>

LookupSettled(o) ==
  LET ob == observer[o]
      e  == ob.key
  IN  /\ ob.pc = "lookupSettled"
      /\ IF e \in settled /\ Matches(e, ob) /\ recorded[e] = ob.terminal
           THEN AdmitPlanned(o)
           ELSE Leave(o) /\ UNCHANGED admitted
      /\ UNCHANGED <<notObserver, registryVars, run>>

\* The authoritative transaction: a running row ends with this terminal; a
\* repeated planned terminal finds its own settlement; anything else is refused.
SettleTerminal(o) ==
  LET ob == observer[o]
      e  == ob.key
  IN  /\ ob.pc = "held" /\ DatabaseFree
      /\ \/ /\ run[e].status = "running"
            /\ run' = [run EXCEPT ![e] = Ended(ob.terminal, HostCleanup(e))]
            /\ Move(o, "ended")
         \/ /\ run[e].status # "running"
            /\ IF ob.planned /\ run[e].by = ob.terminal
                 THEN Move(o, "ended") ELSE Leave(o)
            /\ UNCHANGED run
      /\ UNCHANGED <<notObserver, registryVars, admitted>>

ObserverRelease(o) ==
  LET e == observer[o].key
  IN  /\ observer[o].pc = "ended" /\ DatabaseFree
      /\ ReleaseEntry(e)
      /\ Move(o, IF KeepsEntry(e) THEN "released" ELSE "removing")
      /\ UNCHANGED <<notObserver, route, plannedStop, recorded, settled, run,
                     admitted>>

ObserverInsertSettled(o) ==
  /\ observer[o].pc = "removing"
  /\ InsertSettled(observer[o].key)
  /\ Move(o, "released")
  /\ UNCHANGED <<notObserver, active, route, plannedStop, recorded, cancelled,
                 run, admitted>>

\* complete_settlement and complete_callback give the guards back.
CompleteSettlement(o) ==
  /\ observer[o].pc = "released"
  /\ Leave(o)
  /\ UNCHANGED <<notObserver, registryVars, run, admitted>>

ObserverStep(o) ==
  \/ AcquireRouteGuard(o) \/ TakeRoutePermit(o) \/ CompleteCallback(o)
  \/ CheckTerminal(o) \/ AcquireTerminalGuard(o) \/ ClassifyTerminal(o)
  \/ LookupActive(o) \/ LookupSettled(o) \/ SettleTerminal(o)
  \/ ObserverRelease(o) \/ ObserverInsertSettled(o) \/ CompleteSettlement(o)

\* The event loops are aborted after the cutoff.
ObserverAbort(o) ==
  /\ shutdown \in {"draining", "fencing", "reaping"}
  /\ observer[o].pc # "idle"
  /\ Leave(o)
  /\ UNCHANGED <<notObserver, registryVars, run, admitted>>

-----------------------------------------------------------------------------
(* The shutdown procedure of run_core.  Every wait has a deadline. *)

ShutdownTo(pc) == shutdown' = pc

\* record_controlled_shutdown_cycle and the first cancel-all transaction; it
\* may fail or miss its deadline, and the procedure goes on.
RequestShutdown ==
  /\ shutdown = "serving" /\ DatabaseFree
  /\ ShutdownTo("intent")
  /\ \/ run' = [e \in Execution |-> Stopped(run[e])]
     \/ UNCHANGED run
  /\ UNCHANGED <<notShutdown, phase, routesOpen, launchQuiesced, snapshot,
                 tasksAborted, drained, fenced>>

CloseLaunchAdmission ==
  /\ shutdown = "intent"
  /\ ShutdownTo("closing")
  /\ phase' = IF phase = "Accepting" THEN "ClosingLaunch" ELSE phase
  /\ UNCHANGED <<notShutdown, run, routesOpen, launchQuiesced, snapshot,
                 tasksAborted, drained, fenced>>

\* finish_launch_closure_until asks for the write side of launch_gate ...
RequestLaunchBarrier ==
  /\ \/ shutdown = "closing" /\ ShutdownTo("barrier")
     \/ shutdown = "retry" /\ ShutdownTo("barrierAgain")
  /\ UNCHANGED <<notShutdown, run, phase, routesOpen, launchQuiesced, snapshot,
                 tasksAborted, drained, fenced>>

AllRegistered == launchGuards \subseteq active                       \* mutant
NoLaunchGuard == launchGuards = {}

AcquireLaunchBarrier ==
  /\ shutdown \in {"barrier", "barrierAgain"}
  /\ NoLaunchGuard
  /\ ShutdownTo("locked")
  /\ UNCHANGED <<notShutdown, run, phase, routesOpen, launchQuiesced, snapshot,
                 tasksAborted, drained, fenced>>

EnterDraining ==
  /\ shutdown = "locked"
  /\ ShutdownTo("snapshot")
  /\ phase' = IF phase = "ClosingLaunch" THEN "Draining" ELSE phase
  /\ launchQuiesced' = (phase' = "Draining")
  /\ UNCHANGED <<notShutdown, run, routesOpen, snapshot, tasksAborted, drained,
                 fenced>>

\* ... and may miss its deadline: the first time the tasks are aborted and the
\* barrier is tried again, the second time there is no stable snapshot.
LaunchBarrierTimeout ==
  /\ \/ shutdown = "barrier" /\ ShutdownTo("retry") /\ tasksAborted' = TRUE
     \/ /\ shutdown = "barrierAgain" /\ ShutdownTo("snapshot")
        /\ UNCHANGED tasksAborted
  /\ UNCHANGED <<notShutdown, run, phase, routesOpen, launchQuiesced, snapshot,
                 drained, fenced>>

TakeSnapshot ==
  /\ shutdown = "snapshot"
  /\ ShutdownTo("cutoffPhase")
  /\ snapshot' = IF launchQuiesced THEN active ELSE {}
  /\ UNCHANGED <<notShutdown, run, phase, routesOpen, launchQuiesced,
                 tasksAborted, drained, fenced>>

\* close_terminal_and_runtime_route_admission: two stores, one after the other.
CloseTerminalAdmission ==
  /\ shutdown = "cutoffPhase"
  /\ ShutdownTo("cutoffRoutes")
  /\ phase' = "TerminalClosed"
  /\ UNCHANGED <<notShutdown, run, routesOpen, launchQuiesced, snapshot,
                 tasksAborted, drained, fenced>>

CloseRuntimeRoutes ==
  /\ shutdown = "cutoffRoutes"
  /\ ShutdownTo("stopping")
  /\ routesOpen' = FALSE
  /\ UNCHANGED <<notShutdown, run, phase, launchQuiesced, snapshot,
                 tasksAborted, drained, fenced>>

\* request_planned_stop of one snapshot entry: cancel_active, then
\* mark_planned_stop_requested when its Runtime is still known.
RequestPlannedStop(e) ==
  /\ shutdown = "stopping" /\ e \in snapshot /\ e \in active
  /\ cancelled' = cancelled \cup {e}
  /\ plannedStop' \in {plannedStop, plannedStop \cup {e}}
  /\ UNCHANGED <<notCleaner, active, route, recorded, settled, run, cleaner>>

AbortTasks ==
  /\ shutdown = "stopping"
  /\ ShutdownTo("draining")
  /\ tasksAborted' = TRUE
  /\ UNCHANGED <<notShutdown, run, phase, routesOpen, launchQuiesced, snapshot,
                 drained, fenced>>

\* drain_terminal_and_runtime_routes_until: both write sides, one deadline.
DrainGate(gate, owners) ==
  /\ shutdown = "draining" /\ gate \notin drained
  /\ owners = {}
  /\ drained' = drained \cup {gate}
  /\ UNCHANGED <<notShutdown, run, phase, routesOpen, shutdown, launchQuiesced,
                 snapshot, tasksAborted, fenced>>

DrainTerminals == DrainGate("terminal", TerminalHolders)
DrainRoutes == DrainGate("route", RouteHolders)

EndDrain ==
  /\ shutdown = "draining"
  /\ ShutdownTo("fencing")
  /\ UNCHANGED <<notShutdown, run, phase, routesOpen, launchQuiesced, snapshot,
                 tasksAborted, drained, fenced>>

TasksQuiesced ==
  /\ \A e \in Execution : task[e] \in {"idle", "done"} /\ cleaner[e] = "idle"
  /\ \A o \in Observer : observer[o].pc = "idle"

\* The final settlement runs only when every execution writer is known to be
\* gone; otherwise the durable cycle stays pending for the next startup.
FenceSettlement ==
  /\ shutdown = "fencing"
  /\ ShutdownTo("reaping")
  /\ \/ /\ launchQuiesced /\ drained = {"terminal", "route"} /\ TasksQuiesced
        /\ run' = [e \in Execution |-> Stopped(run[e])]
        /\ fenced' = TRUE
     \/ UNCHANGED <<run, fenced>>
  /\ UNCHANGED <<notShutdown, phase, routesOpen, launchQuiesced, snapshot,
                 tasksAborted, drained>>

\* Once all Runtimes are reaped the cleanups of the snapshot are acknowledged.
ReapAndExit ==
  /\ shutdown = "reaping"
  /\ ShutdownTo("exited")
  /\ \/ /\ launchQuiesced /\ TasksQuiesced
        /\ run' = [e \in Execution |->
             IF e \in snapshot THEN Acknowledged(run[e]) ELSE run[e]]
     \/ UNCHANGED run
  /\ UNCHANGED <<notShutdown, phase, routesOpen, launchQuiesced, snapshot,
                 tasksAborted, drained, fenced>>

ShutdownStep ==
  \/ CloseLaunchAdmission \/ RequestLaunchBarrier \/ AcquireLaunchBarrier
  \/ EnterDraining \/ LaunchBarrierTimeout \/ TakeSnapshot
  \/ CloseTerminalAdmission \/ CloseRuntimeRoutes \/ AbortTasks
  \/ EndDrain \/ FenceSettlement \/ ReapAndExit

-----------------------------------------------------------------------------
Alive == shutdown # "exited"

Next ==
  \/ \E e \in Execution : Alive /\ TaskStep(e)
  \/ \E e \in Execution : Alive /\ (TaskAbort(e) \/ CleanerAbort(e))
  \/ \E e \in Execution : Alive /\ StopRun(e)
  \/ \E e \in Execution : Alive /\ CleanupStep(e)
  \/ \E o \in Observer, e \in Execution, r \in Route, t \in Terminal :
       Alive /\ Observe(o, e, r, t)
  \/ \E o \in Observer : Alive /\ ObserverStep(o)
  \/ \E o \in Observer : Alive /\ ObserverAbort(o)
  \/ RequestShutdown \/ ShutdownStep \/ DrainTerminals \/ DrainRoutes
  \/ \E e \in Execution : RequestPlannedStop(e)

Spec == Init /\ [][Next]_vars

\* The worker keeps retrying a cleanup and a stop that is retried for ever is
\* proven at last; a launch future is bounded by its own timeouts; the event
\* loop goes on with a handler it has started.
Fairness ==
  /\ \A e \in Execution :
       /\ WF_vars(Alive /\ TaskStep(e))
       /\ SF_vars(Alive /\ BeginCleanup(e))
       /\ SF_vars(Alive /\ ProveCleanup(e))
       /\ WF_vars(Alive /\ (CompleteCleanup(e) \/ CleanerInsertSettled(e)))
  /\ \A o \in Observer : WF_vars(Alive /\ ObserverStep(o))

FairSpec == Spec /\ Fairness

\* Only the shutdown procedure is fair: each of its waits has a deadline, so it
\* has a next step whatever the other tasks do, or fail to do.
DeadlineSpec == Spec /\ WF_vars(ShutdownStep)

-----------------------------------------------------------------------------
(* Properties *)

\* Once the launch barrier has been crossed no launch permit is left: a task
\* that still gets the read guard finds the admission closed and gives it back
\* (enter_launch, finish_launch_closure_until).
PermitHolders == {e \in launchGuards : task[e] # "guarded"}
LaunchBarrier == launchQuiesced => PermitHolders = {}

\* The snapshot that is taken behind the barrier is stable: no execution is
\* registered any more, no route is bound or changed, no prompt is dispatched;
\* entries can only leave (planned-shutdown.md, active_snapshots).
StableSnapshot ==
  [][launchQuiesced => /\ active' \subseteq active
                       /\ \A e \in active' : route'[e] = route[e]
                       /\ sent' = sent]_vars

\* After the terminal gate has been drained no Runtime terminal becomes the end
\* of a run: the final cancel-all settlement cannot race one.
SettlementCutoff ==
  [][\A e \in Execution :
       "terminal" \in drained /\ run'[e].by \in Terminal
         => run[e].by = run'[e].by]_vars

\* All planned permits of one execution carry the same terminal, whether they
\* were checked against its active entry or, after it left, its settled one
\* (admit_terminal, remove_active_inner).
PlannedTerminalsAgree ==
  \A e \in Execution : \A t, u \in admitted[e] : t = u

\* The registry never forgets an execution whose cleanup is outstanding: the
\* release of a terminal, which races the stop, leaves it to the cleanup
\* (release_active_execution, record_runtime_cleanup_completed).
OwnedUntilClean ==
  [][\A e \in active \ active' : ~CleanupPending(e)]_vars

\* The cleanup of a stopped execution is acknowledged only when its launch
\* future can no longer materialize a Host (cleanup_agent_run_runtime).
PastClaim == TaskState \ {"idle", "checked", "guarded", "permitted"}
CleanAfterLaunch ==
  \A e \in Execution :
    run[e].by = "stop" /\ run[e].cleanup = "acked" /\ task[e] \in PastClaim
      => e \notin launching

\* Each of the three admissions keeps the promise of AdmissionGate.
LaunchGate == INSTANCE AdmissionGate WITH
  Holder  <- Execution,
  mode    <- IF phase = "Accepting" THEN "open"
             ELSE IF launchQuiesced THEN "drained" ELSE "closed",
  holders <- PermitHolders

TerminalGate == INSTANCE AdmissionGate WITH
  Holder  <- Observer,
  mode    <- IF phase # "TerminalClosed" THEN "open"
             ELSE IF "terminal" \in drained THEN "drained" ELSE "closed",
  holders <- {o \in TerminalHolders : observer[o].pc # "termGuarded"}

RouteGate == INSTANCE AdmissionGate WITH
  Holder  <- Observer,
  mode    <- IF routesOpen THEN "open"
             ELSE IF "route" \in drained THEN "drained" ELSE "closed",
  holders <- {o \in RouteHolders : observer[o].pc # "routeGuarded"}

LaunchAdmissionKept == LaunchGate!Spec
TerminalAdmissionKept == TerminalGate!Spec
RouteAdmissionKept == RouteGate!Spec
AdmissionsKept ==
  LaunchAdmissionKept /\ TerminalAdmissionKept /\ RouteAdmissionKept

\* A stop that left a cleanup of an owned execution is confirmed, unless the
\* shutdown takes over: the cleanup and the launch it waits for do not wait for
\* each other for ever, and the entry that makes the worker see the row stays.
CleanupConfirmed ==
  \A e \in Execution :
    CleanupPending(e) /\ e \in active
      ~> (~CleanupPending(e) \/ shutdown # "serving")

\* A requested shutdown ends the process whatever hangs (the deadlines).
ShutdownCompletes == shutdown = "intent" ~> shutdown = "exited"
=============================================================================
