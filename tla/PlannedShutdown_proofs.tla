----------------------- MODULE PlannedShutdown_proofs ------------------------
(***************************************************************************)
(* Theorems about PlannedShutdown for every number of executions, routes,  *)
(* terminals and handlers.                                                 *)
(***************************************************************************)
EXTENDS PlannedShutdown, TLAPS

-----------------------------------------------------------------------------
(* Rows and handler records keep their shape. *)

\* A handler that is not idle holds an execution, a route and a terminal.
LEMMA BusyObserver ==
  ASSUME observer \in [Observer -> Observation], NEW o \in Observer,
         observer[o].pc # "idle"
  PROVE  /\ observer[o].key \in Execution
         /\ observer[o].route \in Route
         /\ observer[o].terminal \in Terminal
<1>1. observer[o] \in Observation
  OBVIOUS
<1> QED
  BY <1>1 DEF Observation

\* A run that ends, through whatever, is a row.
LEMMA EndedRow ==
  ASSUME NEW by \in {"stop", "failure"} \cup Terminal,
         NEW cleanup \in {"none", "pending", "acked"}
  PROVE  Ended(by, cleanup) \in RunRow
BY DEF Ended, RunRow

\* A stop leaves a row (settle_interrupted_run_in_tx).
LEMMA StoppedRow ==
  ASSUME NEW row \in RunRow
  PROVE  Stopped(row) \in RunRow
BY DEF Stopped, Ended, RunRow

\* An acknowledgement leaves a row (record_runtime_cleanup_completed).
LEMMA AcknowledgedRow ==
  ASSUME NEW row \in RunRow
  PROVE  /\ Acknowledged(row) \in RunRow
         /\ Acknowledged(row).status = row.status
         /\ Acknowledged(row).by = row.by
         /\ Acknowledged(row).cleanup # "pending"
BY DEF Acknowledged, RunRow

\* A claim of a queued run leaves a row (claim_agent_run).
LEMMA ClaimedRow ==
  ASSUME NEW row \in RunRow, row.status = "queued"
  PROVE  [row EXCEPT !.status = "running"] \in RunRow
BY DEF RunRow

\* Moving a handler on, or ending it, keeps all records.
LEMMA MovedObserver ==
  ASSUME observer \in [Observer -> Observation], NEW o \in Observer,
         NEW pc \in ObserverState, observer[o].pc # "idle"
  PROVE  /\ Move(o, pc) => observer' \in [Observer -> Observation]
         /\ Leave(o) => observer' \in [Observer -> Observation]
         /\ observer' = [observer EXCEPT ![o].pc = pc, ![o].planned = TRUE]
              => observer' \in [Observer -> Observation]
<1>1. IdleObserver \in Observation
  BY DEF IdleObserver, Observation, ObserverState
<1>2. [observer[o] EXCEPT !.pc = pc] \in Observation
  BY DEF Observation
<1>3. [observer[o] EXCEPT !.pc = pc, !.planned = TRUE] \in Observation
  BY DEF Observation
<1> QED
  BY <1>1, <1>2, <1>3 DEF Move, Leave

-----------------------------------------------------------------------------
USE DEF TypeOK, Phase, TaskState, ShutdownState,
        vars, registryVars, launchVars, databaseVars, shutdownVars,
        notTask, notCleaner, notObserver, notShutdown

\* The coordinator and its callers start well typed.
LEMMA InitTyped == Init => TypeOK
<1> SUFFICES ASSUME Init PROVE TypeOK
  OBVIOUS
<1>1. run \in [Execution -> RunRow]
  BY DEF Init, RunRow
<1>2. observer \in [Observer -> Observation]
  BY DEF Init, IdleObserver, Observation, ObserverState
<1> QED
  BY <1>1, <1>2 DEF Init

\* Every step keeps the types.
LEMMA StepTyped == TypeOK /\ [Next]_vars => TypeOK'
<1> SUFFICES ASSUME TypeOK, [Next]_vars PROVE TypeOK'
  OBVIOUS
<1> USE ShutdownAssumption
<1>1. ASSUME NEW e \in Execution, EnterLaunch(e) PROVE TypeOK'
  BY <1>1 DEF EnterLaunch
<1>2. ASSUME NEW e \in Execution, AcquireLaunchGuard(e) PROVE TypeOK'
  BY <1>2 DEF AcquireLaunchGuard, LaunchReadable
<1>3. ASSUME NEW e \in Execution, TakeLaunchPermit(e) PROVE TypeOK'
  BY <1>3 DEF TakeLaunchPermit
<1>4. ASSUME NEW e \in Execution, LaunchAdmissionClosed(e) PROVE TypeOK'
  BY <1>4 DEF LaunchAdmissionClosed, EndTask
<1>5. ASSUME NEW e \in Execution, AbandonLaunch(e) PROVE TypeOK'
  BY <1>5, EndedRow DEF AbandonLaunch, EndTask
<1>6. ASSUME NEW e \in Execution, Claim(e) PROVE TypeOK'
  BY <1>6, ClaimedRow DEF Claim, EndTask
<1>7. ASSUME NEW e \in Execution, RegisterActive(e) PROVE TypeOK'
  BY <1>7 DEF RegisterActive
<1>8. ASSUME NEW e \in Execution, StartLaunch(e) PROVE TypeOK'
  BY <1>8, EndedRow DEF StartLaunch, EndTask, HostCleanup
<1>9. ASSUME NEW e \in Execution, CheckLaunchCancelled(e) PROVE TypeOK'
  BY <1>9 DEF CheckLaunchCancelled
<1>10. ASSUME NEW e \in Execution, BeginDispatch(e) PROVE TypeOK'
  BY <1>10 DEF BeginDispatch
<1>11. ASSUME NEW e \in Execution, CheckHandoffCancelled(e) PROVE TypeOK'
  BY <1>11 DEF CheckHandoffCancelled
<1>12. ASSUME NEW e \in Execution, NEW r \in Route, CompleteHandoff(e, r) PROVE TypeOK'
  BY <1>12 DEF CompleteHandoff
<1>13. ASSUME NEW e \in Execution, NEW r \in Route, AcceptInput(e, r) PROVE TypeOK'
  BY <1>13 DEF AcceptInput
<1>14. ASSUME NEW e \in Execution, FinishLaunch(e) PROVE TypeOK'
  BY <1>14 DEF FinishLaunch
<1>15. ASSUME NEW e \in Execution, LaunchReturned(e) PROVE TypeOK'
  BY <1>15 DEF LaunchReturned, EndTask
<1>16. ASSUME NEW e \in Execution, LaunchFailed(e) PROVE TypeOK'
  BY <1>16 DEF LaunchFailed, EndTask
<1>17. ASSUME NEW e \in Execution, MarkFailedHost(e) PROVE TypeOK'
  BY <1>17 DEF MarkFailedHost
<1>18. ASSUME NEW e \in Execution, PersistFailure(e) PROVE TypeOK'
  BY <1>18, EndedRow DEF PersistFailure, HostCleanup
<1>19. ASSUME NEW e \in Execution, TaskRelease(e) PROVE TypeOK'
  BY <1>19 DEF TaskRelease, EndTask, ReleaseEntry
<1>20. ASSUME NEW e \in Execution, TaskInsertSettled(e) PROVE TypeOK'
  BY <1>20 DEF TaskInsertSettled, EndTask, InsertSettled
<1>21. ASSUME NEW e \in Execution, TaskAbort(e) PROVE TypeOK'
  BY <1>21 DEF TaskAbort, EndTask
<1>22. ASSUME NEW e \in Execution, CleanerAbort(e) PROVE TypeOK'
  BY <1>22 DEF CleanerAbort
<1>23. ASSUME NEW e \in Execution, StopRun(e) PROVE TypeOK'
  BY <1>23, StoppedRow DEF StopRun
<1>24. ASSUME NEW e \in Execution, BeginCleanup(e) PROVE TypeOK'
  BY <1>24 DEF BeginCleanup
<1>25. ASSUME NEW e \in Execution, ProveCleanup(e) PROVE TypeOK'
  BY <1>25, AcknowledgedRow DEF ProveCleanup
<1>26. ASSUME NEW e \in Execution, DeferCleanup(e) PROVE TypeOK'
  BY <1>26 DEF DeferCleanup
<1>27. ASSUME NEW e \in Execution, AcknowledgeHostRelease(e) PROVE TypeOK'
  BY <1>27, AcknowledgedRow DEF AcknowledgeHostRelease
<1>28. ASSUME NEW e \in Execution, CompleteCleanup(e) PROVE TypeOK'
  BY <1>28 DEF CompleteCleanup
<1>29. ASSUME NEW e \in Execution, CleanerInsertSettled(e) PROVE TypeOK'
  BY <1>29 DEF CleanerInsertSettled, InsertSettled
<1>30. ASSUME NEW o \in Observer, NEW e \in Execution, NEW r \in Route,
            NEW t \in Terminal, Observe(o, e, r, t)
     PROVE TypeOK'
  BY <1>30 DEF Observe, Observation, ObserverState
<1>31. ASSUME NEW o \in Observer, AcquireRouteGuard(o) PROVE TypeOK'
  <2>1. observer' \in [Observer -> Observation]
    BY <1>31, MovedObserver DEF AcquireRouteGuard, ObserverState
  <2> QED
    BY <1>31, <2>1 DEF AcquireRouteGuard
<1>32. ASSUME NEW o \in Observer, TakeRoutePermit(o) PROVE TypeOK'
  <2>1. observer' \in [Observer -> Observation]
    BY <1>32, MovedObserver DEF TakeRoutePermit, ObserverState
  <2> QED
    BY <1>32, <2>1 DEF TakeRoutePermit
<1>33. ASSUME NEW o \in Observer, CompleteCallback(o) PROVE TypeOK'
  <2>1. observer' \in [Observer -> Observation]
    BY <1>33, MovedObserver DEF CompleteCallback, ObserverState
  <2> QED
    BY <1>33, <2>1 DEF CompleteCallback
<1>34. ASSUME NEW o \in Observer, CheckTerminal(o) PROVE TypeOK'
  <2>1. observer' \in [Observer -> Observation]
    BY <1>34, MovedObserver DEF CheckTerminal, ObserverState
  <2> QED
    BY <1>34, <2>1 DEF CheckTerminal
<1>35. ASSUME NEW o \in Observer, AcquireTerminalGuard(o) PROVE TypeOK'
  <2>1. observer' \in [Observer -> Observation]
    BY <1>35, MovedObserver DEF AcquireTerminalGuard, ObserverState
  <2> QED
    BY <1>35, <2>1 DEF AcquireTerminalGuard
<1>36. ASSUME NEW o \in Observer, ClassifyTerminal(o) PROVE TypeOK'
  <2>1. observer' \in [Observer -> Observation]
    BY <1>36, MovedObserver DEF ClassifyTerminal, ObserverState
  <2> QED
    BY <1>36, <2>1 DEF ClassifyTerminal
<1>37. ASSUME NEW o \in Observer, LookupActive(o) PROVE TypeOK'
  <2>1. observer[o].key \in Execution /\ observer[o].terminal \in Terminal
    BY <1>37, BusyObserver DEF LookupActive
  <2>2. observer' \in [Observer -> Observation]
    BY <1>37, MovedObserver DEF LookupActive, AdmitPlanned, ObserverState
  <2>3. /\ recorded' \in [Execution -> Terminal \cup {None}]
        /\ admitted' \in [Execution -> SUBSET Terminal]
    BY <1>37, <2>1 DEF LookupActive, AdmitPlanned
  <2> QED
    BY <1>37, <2>2, <2>3 DEF LookupActive
<1>38. ASSUME NEW o \in Observer, LookupSettled(o) PROVE TypeOK'
  <2>1. observer[o].key \in Execution /\ observer[o].terminal \in Terminal
    BY <1>38, BusyObserver DEF LookupSettled
  <2>2. observer' \in [Observer -> Observation]
    BY <1>38, MovedObserver DEF LookupSettled, AdmitPlanned, ObserverState
  <2>3. admitted' \in [Execution -> SUBSET Terminal]
    BY <1>38, <2>1 DEF LookupSettled, AdmitPlanned
  <2> QED
    BY <1>38, <2>2, <2>3 DEF LookupSettled
<1>39. ASSUME NEW o \in Observer, SettleTerminal(o) PROVE TypeOK'
  <2>1. observer[o].key \in Execution /\ observer[o].terminal \in Terminal
    BY <1>39, BusyObserver DEF SettleTerminal
  <2>2. observer' \in [Observer -> Observation]
    BY <1>39, MovedObserver DEF SettleTerminal, ObserverState
  <2>3. Ended(observer[o].terminal, HostCleanup(observer[o].key)) \in RunRow
    BY <2>1, EndedRow DEF HostCleanup
  <2>4. run' \in [Execution -> RunRow]
    BY <1>39, <2>1, <2>3 DEF SettleTerminal
  <2> QED
    BY <1>39, <2>2, <2>4 DEF SettleTerminal
<1>40. ASSUME NEW o \in Observer, ObserverRelease(o) PROVE TypeOK'
  <2>1. observer' \in [Observer -> Observation]
    BY <1>40, MovedObserver DEF ObserverRelease, ReleaseEntry, ObserverState
  <2> QED
    BY <1>40, <2>1 DEF ObserverRelease, ReleaseEntry
<1>41. ASSUME NEW o \in Observer, ObserverInsertSettled(o) PROVE TypeOK'
  <2>1. observer[o].key \in Execution
    BY <1>41, BusyObserver DEF ObserverInsertSettled
  <2>2. observer' \in [Observer -> Observation]
    BY <1>41, MovedObserver DEF ObserverInsertSettled, ObserverState
  <2> QED
    BY <1>41, <2>1, <2>2 DEF ObserverInsertSettled, InsertSettled
<1>42. ASSUME NEW o \in Observer, CompleteSettlement(o) PROVE TypeOK'
  <2>1. observer' \in [Observer -> Observation]
    BY <1>42, MovedObserver DEF CompleteSettlement, ObserverState
  <2> QED
    BY <1>42, <2>1 DEF CompleteSettlement
<1>43. ASSUME NEW o \in Observer, ObserverAbort(o) PROVE TypeOK'
  <2>1. observer' \in [Observer -> Observation]
    BY <1>43, MovedObserver DEF ObserverAbort, ObserverState
  <2> QED
    BY <1>43, <2>1 DEF ObserverAbort
<1>44. ASSUME RequestShutdown PROVE TypeOK'
  BY <1>44, StoppedRow DEF RequestShutdown, ShutdownTo
<1>45. ASSUME CloseLaunchAdmission PROVE TypeOK'
  BY <1>45 DEF CloseLaunchAdmission, ShutdownTo
<1>46. ASSUME RequestLaunchBarrier PROVE TypeOK'
  BY <1>46 DEF RequestLaunchBarrier, ShutdownTo
<1>47. ASSUME AcquireLaunchBarrier PROVE TypeOK'
  BY <1>47 DEF AcquireLaunchBarrier, ShutdownTo
<1>48. ASSUME EnterDraining PROVE TypeOK'
  BY <1>48 DEF EnterDraining, ShutdownTo
<1>49. ASSUME LaunchBarrierTimeout PROVE TypeOK'
  BY <1>49 DEF LaunchBarrierTimeout, ShutdownTo
<1>50. ASSUME TakeSnapshot PROVE TypeOK'
  BY <1>50 DEF TakeSnapshot, ShutdownTo
<1>51. ASSUME CloseTerminalAdmission PROVE TypeOK'
  BY <1>51 DEF CloseTerminalAdmission, ShutdownTo
<1>52. ASSUME CloseRuntimeRoutes PROVE TypeOK'
  BY <1>52 DEF CloseRuntimeRoutes, ShutdownTo
<1>53. ASSUME AbortTasks PROVE TypeOK'
  BY <1>53 DEF AbortTasks, ShutdownTo
<1>54. ASSUME EndDrain PROVE TypeOK'
  BY <1>54 DEF EndDrain, ShutdownTo
<1>55. ASSUME FenceSettlement PROVE TypeOK'
  <2>1. CASE run' = [e \in Execution |-> Stopped(run[e])] /\ fenced' = TRUE
    <3>1. run' \in [Execution -> RunRow]
      BY <2>1, StoppedRow
    <3> QED
      BY <1>55, <2>1, <3>1 DEF FenceSettlement, ShutdownTo
  <2>2. CASE UNCHANGED <<run, fenced>>
    BY <1>55, <2>2 DEF FenceSettlement, ShutdownTo
  <2> QED
    BY <1>55, <2>1, <2>2 DEF FenceSettlement
<1>56. ASSUME ReapAndExit PROVE TypeOK'
  BY <1>56, AcknowledgedRow DEF ReapAndExit, ShutdownTo
<1>57. ASSUME DrainTerminals PROVE TypeOK'
  BY <1>57 DEF DrainTerminals, DrainGate
<1>58. ASSUME DrainRoutes PROVE TypeOK'
  BY <1>58 DEF DrainRoutes, DrainGate
<1>59. ASSUME NEW e \in Execution, RequestPlannedStop(e) PROVE TypeOK'
  BY <1>59 DEF RequestPlannedStop
<1>60. CASE UNCHANGED vars
  BY <1>60
<1> QED
  BY <1>1, <1>2, <1>3, <1>4, <1>5, <1>6, <1>7, <1>8, <1>9, <1>10, <1>11,
     <1>12, <1>13, <1>14, <1>15, <1>16, <1>17, <1>18, <1>19, <1>20,
     <1>21, <1>22, <1>23, <1>24, <1>25, <1>26, <1>27, <1>28, <1>29,
     <1>30, <1>31, <1>32, <1>33, <1>34, <1>35, <1>36, <1>37, <1>38,
     <1>39, <1>40, <1>41, <1>42, <1>43, <1>44, <1>45, <1>46, <1>47,
     <1>48, <1>49, <1>50, <1>51, <1>52, <1>53, <1>54, <1>55, <1>56,
     <1>57, <1>58, <1>59, <1>60
  DEF Next, TaskStep, CleanupStep, ObserverStep, ShutdownStep

\* Every variable keeps its type, and a row whose run was ended by something or
\* whose cleanup was requested has ended.
THEOREM TypeCorrect == Spec => []TypeOK
BY InitTyped, StepTyped, PTL DEF Spec

-----------------------------------------------------------------------------
(* The launch barrier and the snapshot taken behind it. *)

\* The write side of launch_gate is granted only when no read guard is left,
\* and a phase that has left Accepting never returns to it.
BarrierHeld ==
  /\ shutdown = "locked" => launchGuards = {}
  /\ launchQuiesced => phase # "Accepting"

\* From its permit to its handoff a launch keeps its read guard: whoever may
\* still register, dispatch or bind holds the barrier open.
GuardedTask == {"permitted", "claiming", "claimed", "launching", "sending",
                "dispatched", "handing"}
GuardKept ==
  \A e \in Execution : task[e] \in GuardedTask \cup {"guarded"} => e \in launchGuards

\* A launch that gave its guard to the handoff is bound, so a repeated binding
\* changes nothing.
HandedOverBound ==
  \A e \in active \ launchGuards : task[e] = "live" => route[e] # None

SnapshotInv ==
  TypeOK /\ BarrierHeld /\ LaunchBarrier /\ GuardKept /\ HandedOverBound

\* What the stops, the cleanups, the handlers and the drains leave alone.
LaunchUntouched ==
  /\ UNCHANGED <<shutdown, phase, launchQuiesced, launchGuards, task, route, sent>>
  /\ active' \subseteq active

\* None of them registers, binds, dispatches or touches the launch gate.
LEMMA QuietStep ==
  ASSUME \/ \E e \in Execution : \/ StopRun(e) \/ CleanerAbort(e)
                                 \/ CleanupStep(e) \/ RequestPlannedStop(e)
         \/ \E o \in Observer : ObserverStep(o) \/ ObserverAbort(o)
         \/ \E o \in Observer, e \in Execution, r \in Route, t \in Terminal :
              Observe(o, e, r, t)
         \/ DrainTerminals \/ DrainRoutes \/ UNCHANGED vars
  PROVE  LaunchUntouched
<1> USE DEF LaunchUntouched
<1>1. ASSUME NEW e \in Execution, StopRun(e) \/ CleanerAbort(e) \/ RequestPlannedStop(e)
      PROVE  LaunchUntouched
  BY <1>1 DEF StopRun, CleanerAbort, RequestPlannedStop
<1>2. ASSUME NEW e \in Execution, CleanupStep(e) PROVE LaunchUntouched
  BY <1>2 DEF CleanupStep, BeginCleanup, ProveCleanup, DeferCleanup,
              AcknowledgeHostRelease, CompleteCleanup, CleanerInsertSettled
<1>3. ASSUME NEW o \in Observer, ObserverStep(o) PROVE LaunchUntouched
  <2>1. CASE \/ AcquireRouteGuard(o) \/ TakeRoutePermit(o) \/ CompleteCallback(o)
             \/ CheckTerminal(o) \/ AcquireTerminalGuard(o) \/ ClassifyTerminal(o)
    BY <2>1 DEF AcquireRouteGuard, TakeRoutePermit, CompleteCallback,
                CheckTerminal, AcquireTerminalGuard, ClassifyTerminal
  <2>2. CASE LookupActive(o) \/ LookupSettled(o)
    BY <2>2 DEF LookupActive, LookupSettled
  <2>3. CASE \/ SettleTerminal(o) \/ ObserverRelease(o)
             \/ ObserverInsertSettled(o) \/ CompleteSettlement(o)
    BY <2>3 DEF SettleTerminal, ObserverRelease, ReleaseEntry,
                ObserverInsertSettled, CompleteSettlement
  <2> QED
    BY <1>3, <2>1, <2>2, <2>3 DEF ObserverStep
<1>4. ASSUME NEW o \in Observer, ObserverAbort(o) PROVE LaunchUntouched
  BY <1>4 DEF ObserverAbort
<1>5. ASSUME NEW o \in Observer, NEW e \in Execution, NEW r \in Route,
             NEW t \in Terminal, Observe(o, e, r, t)
      PROVE  LaunchUntouched
  BY <1>5 DEF Observe
<1>6. ASSUME DrainTerminals \/ DrainRoutes PROVE LaunchUntouched
  BY <1>6 DEF DrainTerminals, DrainRoutes, DrainGate
<1>7. ASSUME UNCHANGED vars PROVE LaunchUntouched
  BY <1>7
<1> QED
  BY <1>1, <1>2, <1>3, <1>4, <1>5, <1>6, <1>7

\* The barrier facts are inductive.
LEMMA SnapshotStep == SnapshotInv /\ TypeOK' /\ [Next]_vars => SnapshotInv'
<1> SUFFICES ASSUME SnapshotInv, TypeOK', [Next]_vars
             PROVE  BarrierHeld' /\ LaunchBarrier' /\ GuardKept' /\ HandedOverBound'
  BY DEF SnapshotInv
<1> DEFINE Goal == BarrierHeld' /\ LaunchBarrier' /\ GuardKept' /\ HandedOverBound'
<1> USE DEF SnapshotInv, BarrierHeld, LaunchBarrier, PermitHolders, GuardedTask,
            GuardKept, HandedOverBound
<1>1. ASSUME LaunchUntouched PROVE Goal
  BY <1>1 DEF LaunchUntouched
<1>2. ASSUME NEW e \in Execution, TaskStep(e) PROVE Goal
  <2>1. CASE EnterLaunch(e)
    BY <2>1 DEF EnterLaunch
  <2>2. CASE AcquireLaunchGuard(e)
    BY <2>2 DEF AcquireLaunchGuard, LaunchReadable
  <2>3. CASE TakeLaunchPermit(e)
    BY <2>3 DEF TakeLaunchPermit, LaunchAccepting
  <2>4. CASE LaunchAdmissionClosed(e)
    BY <2>4 DEF LaunchAdmissionClosed, EndTask
  <2>5. CASE AbandonLaunch(e)
    BY <2>5 DEF AbandonLaunch, EndTask
  <2>6. CASE Claim(e)
    BY <2>6 DEF Claim, EndTask
  <2>7. CASE RegisterActive(e)
    BY <2>7 DEF RegisterActive
  <2>8. CASE StartLaunch(e)
    BY <2>8 DEF StartLaunch, EndTask
  <2>9. CASE CheckLaunchCancelled(e)
    BY <2>9 DEF CheckLaunchCancelled
  <2>10. CASE BeginDispatch(e)
    BY <2>10 DEF BeginDispatch
  <2>11. CASE CheckHandoffCancelled(e)
    BY <2>11 DEF CheckHandoffCancelled
  <2>12. ASSUME NEW r \in Route, CompleteHandoff(e, r) PROVE Goal
    BY <2>12, ShutdownAssumption DEF CompleteHandoff, CanBind
  <2>13. ASSUME NEW r \in Route, AcceptInput(e, r) PROVE Goal
    BY <2>13 DEF AcceptInput, CanBind
  <2>14. CASE FinishLaunch(e)
    BY <2>14 DEF FinishLaunch
  <2>15. CASE LaunchReturned(e)
    BY <2>15 DEF LaunchReturned, EndTask
  <2>16. CASE LaunchFailed(e)
    BY <2>16 DEF LaunchFailed, EndTask
  <2>17. CASE MarkFailedHost(e)
    BY <2>17 DEF MarkFailedHost
  <2>18. CASE PersistFailure(e)
    BY <2>18 DEF PersistFailure
  <2>19. CASE TaskRelease(e)
    BY <2>19 DEF TaskRelease, EndTask, ReleaseEntry
  <2>20. CASE TaskInsertSettled(e)
    BY <2>20 DEF TaskInsertSettled, EndTask, InsertSettled
  <2> QED
    BY <1>2, <2>1, <2>2, <2>3, <2>4, <2>5, <2>6, <2>7, <2>8, <2>9, <2>10, <2>11, <2>12, <2>13, <2>14, <2>15, <2>16, <2>17, <2>18, <2>19, <2>20 DEF TaskStep
<1>3. ASSUME NEW e \in Execution, TaskAbort(e) PROVE Goal
  BY <1>3 DEF TaskAbort, EndTask
<1>4. ASSUME RequestShutdown PROVE Goal
  BY <1>4 DEF RequestShutdown, ShutdownTo
<1>5. ASSUME ShutdownStep PROVE Goal
  <2>1. CASE CloseLaunchAdmission
    BY <2>1 DEF CloseLaunchAdmission, ShutdownTo
  <2>2. CASE RequestLaunchBarrier
    BY <2>2 DEF RequestLaunchBarrier, ShutdownTo
  <2>3. CASE AcquireLaunchBarrier
    BY <2>3 DEF AcquireLaunchBarrier, ShutdownTo, NoLaunchGuard
  <2>4. CASE EnterDraining
    BY <2>4 DEF EnterDraining, ShutdownTo
  <2>5. CASE LaunchBarrierTimeout
    BY <2>5 DEF LaunchBarrierTimeout, ShutdownTo
  <2>6. CASE TakeSnapshot
    BY <2>6 DEF TakeSnapshot, ShutdownTo
  <2>7. CASE CloseTerminalAdmission
    BY <2>7 DEF CloseTerminalAdmission, ShutdownTo
  <2>8. CASE CloseRuntimeRoutes
    BY <2>8 DEF CloseRuntimeRoutes, ShutdownTo
  <2>9. CASE AbortTasks
    BY <2>9 DEF AbortTasks, ShutdownTo
  <2>10. CASE EndDrain
    BY <2>10 DEF EndDrain, ShutdownTo
  <2>11. CASE FenceSettlement
    BY <2>11 DEF FenceSettlement, ShutdownTo
  <2>12. CASE ReapAndExit
    BY <2>12 DEF ReapAndExit, ShutdownTo
  <2> QED
    BY <1>5, <2>1, <2>2, <2>3, <2>4, <2>5, <2>6, <2>7, <2>8, <2>9, <2>10, <2>11, <2>12 DEF ShutdownStep
<1> QED
  BY <1>1, <1>2, <1>3, <1>4, <1>5, QuietStep DEF Next

\* They hold before anything was launched.
LEMMA InitSnapshot == Init => SnapshotInv
<1> SUFFICES ASSUME Init PROVE SnapshotInv
  OBVIOUS
<1>1. BarrierHeld /\ LaunchBarrier /\ GuardKept /\ HandedOverBound
  BY DEF Init, BarrierHeld, LaunchBarrier, PermitHolders, GuardKept,
         GuardedTask, HandedOverBound
<1> QED
  BY <1>1, InitTyped DEF SnapshotInv

\* Each step that could disturb the snapshot needs a launch guard.
LEMMA StableStep ==
  ASSUME SnapshotInv, [Next]_vars, launchQuiesced
  PROVE  /\ active' \subseteq active
         /\ \A e \in active' : route'[e] = route[e]
         /\ sent' = sent
<1> DEFINE Stable == /\ active' \subseteq active
                     /\ \A e \in active' : route'[e] = route[e]
                     /\ sent' = sent
<1> USE DEF SnapshotInv
<1>1. \A e \in Execution : task[e] \notin GuardedTask
  BY DEF LaunchBarrier, PermitHolders, GuardKept, GuardedTask
<1>2. ASSUME LaunchUntouched PROVE Stable
  BY <1>2 DEF LaunchUntouched
<1>3. ASSUME NEW e \in Execution, TaskStep(e) PROVE Stable
  <2>1. CASE \/ EnterLaunch(e) \/ AcquireLaunchGuard(e) \/ TakeLaunchPermit(e)
             \/ LaunchAdmissionClosed(e) \/ AbandonLaunch(e) \/ Claim(e)
             \/ StartLaunch(e) \/ CheckLaunchCancelled(e)
    BY <2>1 DEF EnterLaunch, AcquireLaunchGuard, TakeLaunchPermit,
                LaunchAdmissionClosed, AbandonLaunch, Claim, StartLaunch,
                CheckLaunchCancelled
  <2>2. ~RegisterActive(e) /\ ~BeginDispatch(e)
    BY <1>1 DEF RegisterActive, BeginDispatch, GuardedTask
  <2>3. ASSUME NEW r \in Route PROVE ~CompleteHandoff(e, r)
    BY <1>1 DEF CompleteHandoff, GuardedTask
  <2>4. ASSUME NEW r \in Route, AcceptInput(e, r) PROVE Stable
    <3>1. task[e] = "live" /\ e \notin launchGuards
      BY <1>1, <2>4 DEF AcceptInput, GuardedTask, LaunchBarrier, PermitHolders
    <3>2. e \in active => route[e] # None
      BY <3>1 DEF HandedOverBound
    <3> QED
      BY <2>4, <3>2 DEF AcceptInput, CanBind
  <2>5. CASE \/ CheckHandoffCancelled(e) \/ FinishLaunch(e) \/ LaunchReturned(e)
             \/ LaunchFailed(e) \/ MarkFailedHost(e) \/ PersistFailure(e)
    BY <2>5 DEF CheckHandoffCancelled, FinishLaunch, LaunchReturned,
                LaunchFailed, MarkFailedHost, PersistFailure
  <2>6. CASE TaskRelease(e) \/ TaskInsertSettled(e)
    BY <2>6 DEF TaskRelease, ReleaseEntry, TaskInsertSettled
  <2> QED
    BY <1>3, <2>1, <2>2, <2>3, <2>4, <2>5, <2>6 DEF TaskStep
<1>4. ASSUME NEW e \in Execution, TaskAbort(e) PROVE Stable
  BY <1>4 DEF TaskAbort
<1>5. ASSUME RequestShutdown \/ ShutdownStep PROVE Stable
  BY <1>5 DEF RequestShutdown, ShutdownStep, CloseLaunchAdmission,
    RequestLaunchBarrier, AcquireLaunchBarrier, EnterDraining,
    LaunchBarrierTimeout, TakeSnapshot, CloseTerminalAdmission,
    CloseRuntimeRoutes, AbortTasks, EndDrain, FenceSettlement, ReapAndExit
<1> QED
  BY <1>2, <1>3, <1>4, <1>5, QuietStep DEF Next

\* Behind the barrier no launch permit is left (enter_launch,
\* finish_launch_closure_until).
THEOREM BarrierHolds == Spec => []LaunchBarrier
<1>1. Init => SnapshotInv
  BY InitSnapshot
<1>2. SnapshotInv => LaunchBarrier
  BY DEF SnapshotInv
<1> QED
  BY <1>1, <1>2, SnapshotStep, TypeCorrect, PTL DEF Spec

\* ... and the snapshot taken behind it is stable: nothing is registered, bound
\* or dispatched any more (register_active, bind_route_inner,
\* begin_agent_run_input_dispatch).
THEOREM SnapshotStable == Spec => StableSnapshot
<1>1. Init => SnapshotInv
  BY InitSnapshot
<1>2. SnapshotInv /\ [Next]_vars =>
        [launchQuiesced => /\ active' \subseteq active
                           /\ \A e \in active' : route'[e] = route[e]
                           /\ sent' = sent]_vars
  BY StableStep
<1> QED
  BY <1>1, <1>2, SnapshotStep, TypeCorrect, PTL DEF Spec, StableSnapshot

-----------------------------------------------------------------------------
(* The cleanup of a stopped execution. *)

\* The cleanup worker: what it owns while it stops a Runtime and after the
\* acknowledgement.  A process that exited has no worker left.
WorkerOwns ==
  \A e \in Execution :
    /\ cleaner[e] # "idle" => run[e].status = "ended"
    /\ cleaner[e] = "acked" => ~CleanupPending(e)
    /\ cleaner[e] = "stopping" =>
         shutdown = "exited" \/ (CleanupPending(e) /\ e \in active)

\* A claimed run is not queued, and a task that is gone launches nothing.
ClaimedNotQueued ==
  \A e \in Execution :
    /\ task[e] \in PastClaim \ {"done"} => run[e].status # "queued"
    /\ task[e] = "done" => e \notin launching

CleanupInv == TypeOK /\ WorkerOwns /\ ClaimedNotQueued /\ CleanAfterLaunch

\* The worker facts are inductive.
LEMMA CleanupInvStep == CleanupInv /\ TypeOK' /\ [Next]_vars => CleanupInv'
<1> SUFFICES ASSUME CleanupInv, TypeOK', [Next]_vars
             PROVE  WorkerOwns' /\ ClaimedNotQueued' /\ CleanAfterLaunch'
  BY DEF CleanupInv
<1> DEFINE Goal == WorkerOwns' /\ ClaimedNotQueued' /\ CleanAfterLaunch'
<1> USE DEF CleanupInv, WorkerOwns, ClaimedNotQueued, CleanAfterLaunch,
            PastClaim, CleanupPending, RunRow, Alive
<1>1. ASSUME NEW e \in Execution, Alive, TaskStep(e) PROVE Goal
  <2>1. CASE EnterLaunch(e)
    BY <2>1 DEF EnterLaunch
  <2>2. CASE AcquireLaunchGuard(e)
    BY <2>2 DEF AcquireLaunchGuard
  <2>3. CASE TakeLaunchPermit(e)
    BY <2>3 DEF TakeLaunchPermit
  <2>4. CASE LaunchAdmissionClosed(e)
    BY <2>4 DEF LaunchAdmissionClosed, EndTask
  <2>5. CASE AbandonLaunch(e)
    BY <2>5 DEF AbandonLaunch, EndTask, Ended
  <2>6. CASE Claim(e)
    <3>1. WorkerOwns'
      BY <2>6 DEF Claim, EndTask
    <3>2. ClaimedNotQueued'
      BY <2>6 DEF Claim, EndTask
    <3>3. CleanAfterLaunch'
      BY SMTT(30), <2>6 DEF Claim, EndTask
    <3> QED
      BY <3>1, <3>2, <3>3
  <2>7. CASE RegisterActive(e)
    BY <2>7 DEF RegisterActive
  <2>8. CASE StartLaunch(e)
    <3>1. WorkerOwns'
      BY <2>8 DEF StartLaunch, EndTask, Ended, HostCleanup
    <3>2. ClaimedNotQueued'
      BY <2>8 DEF StartLaunch, EndTask, Ended, HostCleanup
    <3>3. CleanAfterLaunch'
      BY <2>8 DEF StartLaunch, EndTask, Ended, HostCleanup
    <3> QED
      BY <3>1, <3>2, <3>3
  <2>9. CASE CheckLaunchCancelled(e)
    BY <2>9 DEF CheckLaunchCancelled
  <2>10. CASE BeginDispatch(e)
    <3>1. WorkerOwns'
      BY <2>10 DEF BeginDispatch
    <3>2. ClaimedNotQueued'
      BY <2>10 DEF BeginDispatch
    <3>3. CleanAfterLaunch'
      BY <2>10 DEF BeginDispatch
    <3> QED
      BY <3>1, <3>2, <3>3
  <2>11. CASE CheckHandoffCancelled(e)
    BY <2>11 DEF CheckHandoffCancelled
  <2>12. ASSUME NEW r \in Route, CompleteHandoff(e, r) PROVE Goal
    BY <2>12 DEF CompleteHandoff
  <2>13. ASSUME NEW r \in Route, AcceptInput(e, r) PROVE Goal
    BY <2>13 DEF AcceptInput
  <2>14. CASE FinishLaunch(e)
    BY <2>14 DEF FinishLaunch
  <2>15. CASE LaunchReturned(e)
    BY SMTT(30), <2>15 DEF LaunchReturned, EndTask
  <2>16. CASE LaunchFailed(e)
    BY SMTT(30), <2>16 DEF LaunchFailed, EndTask
  <2>17. CASE MarkFailedHost(e)
    BY <2>17 DEF MarkFailedHost
  <2>18. CASE PersistFailure(e)
    BY <2>18 DEF PersistFailure, Ended, HostCleanup
  <2>19. CASE TaskRelease(e)
    <3>1. CASE KeepsEntry(e)
      BY <2>19, <3>1 DEF TaskRelease, EndTask, ReleaseEntry
    <3>2. CASE ~KeepsEntry(e)
      BY <2>19, <3>2 DEF TaskRelease, ReleaseEntry, KeepsEntry
    <3> QED
      BY <3>1, <3>2
  <2>20. CASE TaskInsertSettled(e)
    BY <2>20 DEF TaskInsertSettled, EndTask, InsertSettled
  <2> QED
    BY <1>1, <2>1, <2>2, <2>3, <2>4, <2>5, <2>6, <2>7, <2>8, <2>9, <2>10, <2>11, <2>12, <2>13, <2>14, <2>15, <2>16, <2>17, <2>18, <2>19, <2>20 DEF TaskStep
<1>2. ASSUME NEW e \in Execution, Alive, CleanupStep(e) PROVE Goal
  <2>1. CASE BeginCleanup(e)
    BY <2>1 DEF BeginCleanup
  <2>2. CASE ProveCleanup(e)
    <3>1. /\ run' = [run EXCEPT ![e] = Acknowledged(run[e])]
          /\ cleaner' = [cleaner EXCEPT ![e] = "acked"]
          /\ run[e].status = "ended" /\ e \notin launching
          /\ UNCHANGED <<active, task, launching, shutdown>>
      BY <1>2, <2>2 DEF ProveCleanup, LaunchInProgress
    <3> QED
      BY <3>1, AcknowledgedRow
  <2>3. CASE DeferCleanup(e)
    BY <2>3 DEF DeferCleanup
  <2>4. CASE AcknowledgeHostRelease(e)
    <3>1. /\ run' = [run EXCEPT ![e] = Acknowledged(run[e])]
          /\ cleaner' = [cleaner EXCEPT ![e] = "acked"]
          /\ run[e].status = "ended" /\ run[e].by # "stop"
          /\ UNCHANGED <<active, task, launching, shutdown>>
      BY <2>4, ShutdownAssumption DEF AcknowledgeHostRelease
    <3> QED
      BY <3>1, AcknowledgedRow
  <2>5. CASE CompleteCleanup(e)
    BY <2>5 DEF CompleteCleanup
  <2>6. CASE CleanerInsertSettled(e)
    BY <2>6 DEF CleanerInsertSettled, InsertSettled
  <2> QED
    BY <1>2, <2>1, <2>2, <2>3, <2>4, <2>5, <2>6 DEF CleanupStep
<1>3. ASSUME NEW o \in Observer, Alive, ObserverStep(o) PROVE Goal
  <2>1. CASE AcquireRouteGuard(o)
    BY <2>1 DEF AcquireRouteGuard, Move
  <2>2. CASE TakeRoutePermit(o)
    BY <2>2 DEF TakeRoutePermit, Move, Leave
  <2>3. CASE CompleteCallback(o)
    BY <2>3 DEF CompleteCallback, Leave
  <2>4. CASE CheckTerminal(o)
    BY <2>4 DEF CheckTerminal, Move, Leave
  <2>5. CASE AcquireTerminalGuard(o)
    BY <2>5 DEF AcquireTerminalGuard, Move
  <2>6. CASE ClassifyTerminal(o)
    BY <2>6 DEF ClassifyTerminal, Move, Leave
  <2>7. CASE LookupActive(o)
    BY <2>7 DEF LookupActive, Move, Leave, AdmitPlanned
  <2>8. CASE LookupSettled(o)
    BY <2>8 DEF LookupSettled, Leave, AdmitPlanned
  <2>9. CASE SettleTerminal(o)
    <3>1. observer[o].key \in Execution /\ observer[o].terminal \in Terminal
      BY <2>9, BusyObserver DEF SettleTerminal
    <3>2. UNCHANGED <<cleaner, active, task, launching, shutdown>>
      BY <2>9 DEF SettleTerminal
    <3>3. CASE run[observer[o].key].status = "running"
      <4>1. PICK e \in Execution, row \in RunRow :
              /\ run' = [run EXCEPT ![e] = row]
              /\ row.status = "ended" /\ row.by # "stop"
              /\ run[e].status = "running"
        <5>1. Ended(observer[o].terminal, HostCleanup(observer[o].key)) \in RunRow
          BY <3>1, EndedRow DEF HostCleanup
        <5> QED
          BY <2>9, <3>1, <3>3, <5>1, ShutdownAssumption DEF SettleTerminal, Ended
      <4> QED
        BY <3>2, <4>1
    <3>4. CASE run[observer[o].key].status # "running"
      BY <2>9, <3>2, <3>4 DEF SettleTerminal
    <3> QED
      BY <3>3, <3>4
  <2>10. CASE ObserverRelease(o)
    BY <2>10 DEF ObserverRelease, Move, ReleaseEntry, KeepsEntry
  <2>11. CASE ObserverInsertSettled(o)
    BY <2>11 DEF ObserverInsertSettled, Move, InsertSettled
  <2>12. CASE CompleteSettlement(o)
    BY <2>12 DEF CompleteSettlement, Leave
  <2> QED
    BY <1>3, <2>1, <2>2, <2>3, <2>4, <2>5, <2>6, <2>7, <2>8, <2>9, <2>10, <2>11, <2>12 DEF ObserverStep
<1>4. ASSUME ShutdownStep PROVE Goal
  <2>1. CASE CloseLaunchAdmission
    BY <2>1 DEF CloseLaunchAdmission, ShutdownTo
  <2>2. CASE RequestLaunchBarrier
    BY <2>2 DEF RequestLaunchBarrier, ShutdownTo
  <2>3. CASE AcquireLaunchBarrier
    BY <2>3 DEF AcquireLaunchBarrier, ShutdownTo
  <2>4. CASE EnterDraining
    BY <2>4 DEF EnterDraining, ShutdownTo
  <2>5. CASE LaunchBarrierTimeout
    BY <2>5 DEF LaunchBarrierTimeout, ShutdownTo
  <2>6. CASE TakeSnapshot
    BY <2>6 DEF TakeSnapshot, ShutdownTo
  <2>7. CASE CloseTerminalAdmission
    BY <2>7 DEF CloseTerminalAdmission, ShutdownTo
  <2>8. CASE CloseRuntimeRoutes
    BY <2>8 DEF CloseRuntimeRoutes, ShutdownTo
  <2>9. CASE AbortTasks
    BY <2>9 DEF AbortTasks, ShutdownTo
  <2>10. CASE EndDrain
    BY <2>10 DEF EndDrain, ShutdownTo
  <2>11. CASE FenceSettlement
    BY <2>11 DEF FenceSettlement, ShutdownTo, Stopped, Ended, TasksQuiesced
  <2>12. CASE ReapAndExit
    BY <2>12 DEF ReapAndExit, ShutdownTo, Acknowledged, TasksQuiesced
  <2> QED
    BY <1>4, <2>1, <2>2, <2>3, <2>4, <2>5, <2>6, <2>7, <2>8, <2>9, <2>10, <2>11, <2>12 DEF ShutdownStep
<1>5. ASSUME NEW e \in Execution, Alive, TaskAbort(e) \/ CleanerAbort(e) \/ StopRun(e)
      PROVE  Goal
  <2>1. CASE TaskAbort(e)
    BY <2>1 DEF TaskAbort, EndTask
  <2>2. CASE CleanerAbort(e)
    BY <2>2 DEF CleanerAbort
  <2>3. CASE StopRun(e)
    BY <2>3 DEF StopRun, Stopped, Ended
  <2> QED
    BY <1>5, <2>1, <2>2, <2>3
<1>6. ASSUME NEW o \in Observer, Alive, ObserverAbort(o) PROVE Goal
  BY <1>6 DEF ObserverAbort
<1>7. ASSUME NEW o \in Observer, NEW e \in Execution, NEW r \in Route,
             NEW t \in Terminal, Observe(o, e, r, t)
      PROVE  Goal
  BY <1>7 DEF Observe
<1>8. ASSUME RequestShutdown PROVE Goal
  BY <1>8 DEF RequestShutdown, ShutdownTo, Stopped, Ended
<1>9. ASSUME NEW e \in Execution, RequestPlannedStop(e) PROVE Goal
  BY <1>9 DEF RequestPlannedStop
<1>10. CASE DrainTerminals \/ DrainRoutes \/ UNCHANGED vars
  BY <1>10 DEF DrainTerminals, DrainRoutes, DrainGate
<1> QED
  BY <1>1, <1>2, <1>3, <1>4, <1>5, <1>6, <1>7, <1>8, <1>9, <1>10 DEF Next

\* They hold before anything was launched.
LEMMA InitCleanup == Init => CleanupInv
<1> SUFFICES ASSUME Init PROVE CleanupInv
  OBVIOUS
<1>1. WorkerOwns /\ ClaimedNotQueued /\ CleanAfterLaunch
  BY DEF Init, WorkerOwns, ClaimedNotQueued, CleanAfterLaunch, PastClaim
<1> QED
  BY <1>1, InitTyped DEF CleanupInv

\* An entry leaves the registry only when no cleanup of it is outstanding.
LEMMA OwnedStep ==
  ASSUME CleanupInv, [Next]_vars
  PROVE  \A e \in active \ active' : ~CleanupPending(e)
<1> DEFINE Owned == \A e \in active \ active' : ~CleanupPending(e)
<1> USE DEF CleanupInv
<1>1. ASSUME NEW e \in Execution, TaskStep(e) PROVE Owned
  <2>1. CASE TaskRelease(e)
    BY <2>1 DEF TaskRelease, ReleaseEntry, KeepsEntry
  <2>2. CASE ~TaskRelease(e)
    BY <1>1, <2>2 DEF TaskStep, EnterLaunch, AcquireLaunchGuard,
      TakeLaunchPermit, LaunchAdmissionClosed, AbandonLaunch, Claim,
      RegisterActive, StartLaunch, CheckLaunchCancelled, BeginDispatch,
      CheckHandoffCancelled, CompleteHandoff, AcceptInput, FinishLaunch,
      LaunchReturned, LaunchFailed, MarkFailedHost, PersistFailure,
      TaskInsertSettled
  <2> QED
    BY <2>1, <2>2
<1>2. ASSUME NEW e \in Execution, CleanupStep(e) PROVE Owned
  <2>1. CASE CompleteCleanup(e)
    BY <2>1 DEF CompleteCleanup, WorkerOwns
  <2>2. CASE ~CompleteCleanup(e)
    BY <1>2, <2>2 DEF CleanupStep, BeginCleanup, ProveCleanup, DeferCleanup,
      AcknowledgeHostRelease, CleanerInsertSettled
  <2> QED
    BY <2>1, <2>2
<1>3. ASSUME NEW o \in Observer, ObserverStep(o) PROVE Owned
  <2>1. CASE ObserverRelease(o)
    BY <2>1 DEF ObserverRelease, ReleaseEntry, KeepsEntry
  <2>2. CASE ~ObserverRelease(o)
    BY <1>3, <2>2 DEF ObserverStep, AcquireRouteGuard, TakeRoutePermit,
      CompleteCallback, CheckTerminal, AcquireTerminalGuard, ClassifyTerminal,
      LookupActive, LookupSettled, SettleTerminal, ObserverInsertSettled,
      CompleteSettlement
  <2> QED
    BY <2>1, <2>2
<1>4. ASSUME RequestShutdown \/ ShutdownStep PROVE Owned
  BY <1>4 DEF RequestShutdown, ShutdownStep, CloseLaunchAdmission,
    RequestLaunchBarrier, AcquireLaunchBarrier, EnterDraining,
    LaunchBarrierTimeout, TakeSnapshot, CloseTerminalAdmission,
    CloseRuntimeRoutes, AbortTasks, EndDrain, FenceSettlement, ReapAndExit
<1>5. ASSUME NEW e \in Execution, \/ TaskAbort(e) \/ CleanerAbort(e)
                                  \/ StopRun(e) \/ RequestPlannedStop(e)
      PROVE  Owned
  BY <1>5 DEF TaskAbort, CleanerAbort, StopRun, RequestPlannedStop
<1>6. ASSUME NEW o \in Observer, ObserverAbort(o) PROVE Owned
  BY <1>6 DEF ObserverAbort
<1>7. ASSUME NEW o \in Observer, NEW e \in Execution, NEW r \in Route,
             NEW t \in Terminal, Observe(o, e, r, t)
      PROVE  Owned
  BY <1>7 DEF Observe
<1>8. CASE DrainTerminals \/ DrainRoutes \/ UNCHANGED vars
  BY <1>8 DEF DrainTerminals, DrainRoutes, DrainGate
<1> QED
  BY <1>1, <1>2, <1>3, <1>4, <1>5, <1>6, <1>7, <1>8 DEF Next

\* The cleanup of a stopped execution is acknowledged only after its launch
\* future ended (cleanup_agent_run_runtime).
THEOREM CleanAfterLaunchHolds == Spec => []CleanAfterLaunch
<1>1. CleanupInv => CleanAfterLaunch
  BY DEF CleanupInv
<1> QED
  BY <1>1, InitCleanup, CleanupInvStep, TypeCorrect, PTL DEF Spec

\* The registry keeps an execution as long as its cleanup is outstanding
\* (release_active_execution, cleanup_completed).
THEOREM OwnershipKept == Spec => OwnedUntilClean
<1>1. CleanupInv /\ [Next]_vars =>
        [\A e \in active \ active' : ~CleanupPending(e)]_vars
  BY OwnedStep
<1> QED
  BY <1>1, InitCleanup, CleanupInvStep, TypeCorrect, PTL DEF Spec, OwnedUntilClean

-----------------------------------------------------------------------------
(* What handlers were admitted with, and what the shutdown has closed.      *)

\* A terminal that got a planned permit is the one its entry records.
AdmittedRecorded == \A e \in Execution : \A t \in admitted[e] : recorded[e] = t

\* The handlers that own a permit of the terminal gate, and of the route gate.
Settling == {"lookup", "lookupSettled", "held", "ended", "removing", "released"}
Routed == ObserverState \ {"idle", "routeChecked", "routeGuarded"}

\* How far the shutdown is tells what it has closed: the launch admission is drained by its
\* barrier, and terminals and routes are closed by the cutoff before either gate is drained.
Draining == {"draining", "fencing", "reaping", "exited"}
CutoffInv ==
  /\ launchQuiesced => shutdown \notin {"serving", "intent", "closing", "barrier", "retry",
                                        "barrierAgain", "locked"}
  /\ shutdown \in Draining \cup {"cutoffRoutes", "stopping"} => phase = "TerminalClosed"
  /\ shutdown \in Draining \cup {"stopping"} => ~routesOpen
  /\ drained # {} => shutdown \in Draining

\* Behind a drained gate no handler owns a permit: one that still gets the read guard finds
\* the admission closed and gives it back.
DrainedInv ==
  /\ "terminal" \in drained => \A o \in Observer : observer[o].pc \notin Settling
  /\ "route" \in drained => \A o \in Observer : observer[o].pc \notin Routed

GateInv == AdmittedRecorded /\ CutoffInv /\ DrainedInv

\* What a handler may do to the gates: it gets a permit only while its admission is open.
LEMMA ObserverMoves ==
  ASSUME TypeOK, NEW o \in Observer,
         \/ ObserverStep(o) \/ ObserverAbort(o)
         \/ \E e \in Execution, r \in Route, t \in Terminal : Observe(o, e, r, t)
  PROVE  /\ UNCHANGED <<shutdownVars, launchVars>>
         /\ \A p \in Observer : p # o => observer'[p] = observer[p]
         /\ observer'[o].pc \in Settling /\ observer[o].pc \notin Settling => phase # "TerminalClosed"
         /\ observer'[o].pc \in Routed /\ observer[o].pc \notin Routed => routesOpen
<1> USE DEF Settling, Routed, ObserverState, IdleObserver, Move, Leave
<1>1. ASSUME NEW pc, Move(o, pc) PROVE observer'[o].pc = pc
  <2>1. observer[o] \in Observation
    OBVIOUS
  <2> QED
    BY <1>1, <2>1 DEF Observation
<1>2. ASSUME NEW e \in Execution, NEW r \in Route, NEW t \in Terminal, Observe(o, e, r, t)
      PROVE  /\ UNCHANGED <<shutdownVars, launchVars>>
             /\ \A p \in Observer : p # o => observer'[p] = observer[p]
             /\ observer'[o].pc = "routeChecked"
  BY <1>2 DEF Observe
<1>3. CASE ObserverAbort(o)
  BY <1>3 DEF ObserverAbort
<1>4. CASE AcquireRouteGuard(o) \/ CompleteCallback(o) \/ CheckTerminal(o)
  BY <1>1, <1>4 DEF AcquireRouteGuard, CompleteCallback, CheckTerminal
<1>5. CASE TakeRoutePermit(o)
  <2>1. routesOpen \/ observer'[o].pc = "idle"
    BY <1>5 DEF TakeRoutePermit, RoutesAccepting
  <2>2. observer'[o].pc \in {"routed", "idle"}
    BY <1>1, <1>5 DEF TakeRoutePermit
  <2> QED
    BY <1>5, <2>1, <2>2 DEF TakeRoutePermit
<1>6. CASE AcquireTerminalGuard(o)
  BY <1>1, <1>6 DEF AcquireTerminalGuard
<1>7. CASE ClassifyTerminal(o)
  <2>1. observer[o].pc = "termGuarded"
    BY <1>7 DEF ClassifyTerminal
  <2>2. phase # "TerminalClosed" \/ observer'[o].pc = "idle"
    BY <1>7 DEF ClassifyTerminal, TerminalAccepting
  <2> QED
    BY <1>7, <2>1, <2>2 DEF ClassifyTerminal
<1>8. CASE LookupActive(o)
  BY <1>8 DEF LookupActive, AdmitPlanned
<1>9. CASE LookupSettled(o)
  BY <1>9 DEF LookupSettled, AdmitPlanned
<1>10. CASE SettleTerminal(o)
  BY <1>10 DEF SettleTerminal
<1>11. CASE ObserverRelease(o) \/ ObserverInsertSettled(o) \/ CompleteSettlement(o)
  BY <1>11 DEF ObserverRelease, ObserverInsertSettled, CompleteSettlement
<1> QED
  BY <1>2, <1>3, <1>4, <1>5, <1>8, <1>9, <1>10, <1>11, <1>6, <1>7 DEF ObserverStep

\* What a launch task may do to the launch gate: a permit is taken only while launches are
\* admitted, and by the task that holds the read guard.
LEMMA TaskMoves ==
  ASSUME TypeOK, NEW e \in Execution, TaskStep(e) \/ TaskAbort(e)
  PROVE  /\ UNCHANGED <<shutdownVars, observer, admitted>>
         /\ \A f \in Execution : f # e => (f \in PermitHolders' <=> f \in PermitHolders)
         /\ e \in PermitHolders' /\ e \notin PermitHolders => phase = "Accepting"
<1> USE DEF PermitHolders
<1>1. CASE EnterLaunch(e) \/ AcquireLaunchGuard(e) \/ TakeLaunchPermit(e) \/ LaunchAdmissionClosed(e)
  BY <1>1 DEF EnterLaunch, AcquireLaunchGuard, TakeLaunchPermit, LaunchAccepting,
              LaunchAdmissionClosed, EndTask
<1>2. CASE AbandonLaunch(e) \/ Claim(e) \/ RegisterActive(e)
  BY <1>2 DEF AbandonLaunch, Claim, RegisterActive, EndTask
<1>3. CASE StartLaunch(e)
  BY <1>3 DEF StartLaunch, EndTask
<1>4. CASE CheckLaunchCancelled(e) \/ BeginDispatch(e) \/ CheckHandoffCancelled(e) \/ FinishLaunch(e)
  BY <1>4 DEF CheckLaunchCancelled, BeginDispatch, CheckHandoffCancelled, FinishLaunch
<1>5. CASE \E r \in Route : CompleteHandoff(e, r) \/ AcceptInput(e, r)
  BY <1>5 DEF CompleteHandoff, AcceptInput
<1>6. CASE LaunchReturned(e) \/ LaunchFailed(e) \/ MarkFailedHost(e) \/ PersistFailure(e)
  BY <1>6 DEF LaunchReturned, LaunchFailed, MarkFailedHost, PersistFailure, EndTask
<1>7. CASE TaskRelease(e) \/ TaskInsertSettled(e) \/ TaskAbort(e)
  BY <1>7 DEF TaskRelease, TaskInsertSettled, TaskAbort, EndTask
<1> QED
  BY <1>1, <1>2, <1>3, <1>4, <1>5, <1>6, <1>7 DEF TaskStep

\* Stops, cleanups and planned stops pass through no gate.
LEMMA GatesUntouched ==
  ASSUME NEW e \in Execution,
         StopRun(e) \/ CleanerAbort(e) \/ CleanupStep(e) \/ RequestPlannedStop(e)
  PROVE  UNCHANGED <<shutdownVars, launchVars, observer, admitted, recorded>>
<1>1. CASE StopRun(e) \/ CleanerAbort(e) \/ RequestPlannedStop(e)
  BY <1>1 DEF StopRun, CleanerAbort, RequestPlannedStop
<1>2. CASE CleanupStep(e)
  BY <1>2 DEF CleanupStep, BeginCleanup, ProveCleanup, DeferCleanup,
              AcknowledgeHostRelease, CompleteCleanup, CleanerInsertSettled
<1> QED
  BY <1>1, <1>2

\* The steps of the shutdown that belong to no gate leave the handlers and the tasks alone.
LEMMA ShutdownMoves ==
  ASSUME RequestShutdown \/ ShutdownStep \/ DrainTerminals \/ DrainRoutes
  PROVE  UNCHANGED notShutdown
BY DEF RequestShutdown, ShutdownStep, CloseLaunchAdmission, RequestLaunchBarrier,
  AcquireLaunchBarrier, EnterDraining, LaunchBarrierTimeout, TakeSnapshot,
  CloseTerminalAdmission, CloseRuntimeRoutes, AbortTasks, EndDrain, FenceSettlement,
  ReapAndExit, DrainTerminals, DrainRoutes, DrainGate

\* A planned permit is given for the recorded terminal only, and a record stays.
LEMMA AdmittedStep ==
  ASSUME TypeOK, AdmittedRecorded, [Next]_vars
  PROVE  AdmittedRecorded'
<1> USE DEF AdmittedRecorded
<1>1. ASSUME UNCHANGED <<recorded, admitted>> PROVE AdmittedRecorded'
  BY <1>1
<1>2. ASSUME NEW e \in Execution, TaskStep(e) \/ TaskAbort(e) PROVE AdmittedRecorded'
  <2>1. recorded' = recorded
    BY <1>2 DEF TaskStep, TaskAbort, EnterLaunch, AcquireLaunchGuard, TakeLaunchPermit,
      LaunchAdmissionClosed, AbandonLaunch, Claim, RegisterActive, StartLaunch,
      CheckLaunchCancelled, BeginDispatch, CheckHandoffCancelled, CompleteHandoff, AcceptInput,
      FinishLaunch, LaunchReturned, LaunchFailed, MarkFailedHost, PersistFailure,
      TaskRelease, TaskInsertSettled
  <2> QED
    BY <1>1, <1>2, <2>1, TaskMoves
<1>3. ASSUME NEW e \in Execution,
             StopRun(e) \/ CleanerAbort(e) \/ CleanupStep(e) \/ RequestPlannedStop(e)
      PROVE  AdmittedRecorded'
  BY <1>1, <1>3, GatesUntouched
<1>4. ASSUME NEW o \in Observer, LookupActive(o) PROVE AdmittedRecorded'
  <2> DEFINE e == observer[o].key
             t == observer[o].terminal
  <2>1. e \in Execution /\ t \in Terminal
    BY <1>4, BusyObserver DEF LookupActive
  <2>2. CASE /\ recorded[e] \in {None, t} /\ recorded' = [recorded EXCEPT ![e] = t]
             /\ admitted' = [admitted EXCEPT ![e] = admitted[e] \cup {t}]
    <3>1. \A u \in admitted[e] : u = t
      BY <2>1, <2>2, ShutdownAssumption
    <3> QED
      BY <2>1, <2>2, <3>1
  <2>3. CASE UNCHANGED <<recorded, admitted>>
    BY <1>1, <2>3
  <2> QED
    BY <1>4, <2>2, <2>3 DEF LookupActive, AdmitPlanned, AgreesWithRecord
<1>5. ASSUME NEW o \in Observer, LookupSettled(o) PROVE AdmittedRecorded'
  <2> DEFINE e == observer[o].key
             t == observer[o].terminal
  <2>1. e \in Execution /\ recorded' = recorded
    BY <1>5, BusyObserver DEF LookupSettled
  <2>2. CASE recorded[e] = t /\ admitted' = [admitted EXCEPT ![e] = admitted[e] \cup {t}]
    BY <2>1, <2>2
  <2>3. CASE admitted' = admitted
    BY <1>1, <2>1, <2>3
  <2> QED
    BY <1>5, <2>2, <2>3 DEF LookupSettled, AdmitPlanned
<1>6. ASSUME NEW o \in Observer, ObserverStep(o), ~LookupActive(o), ~LookupSettled(o)
      PROVE  AdmittedRecorded'
  BY <1>1, <1>6 DEF ObserverStep, AcquireRouteGuard, TakeRoutePermit, CompleteCallback,
    CheckTerminal, AcquireTerminalGuard, ClassifyTerminal, SettleTerminal, ObserverRelease,
    ObserverInsertSettled, CompleteSettlement
<1>7. ASSUME NEW o \in Observer, \/ ObserverAbort(o)
                                 \/ \E e \in Execution, r \in Route, t \in Terminal : Observe(o, e, r, t)
      PROVE  AdmittedRecorded'
  BY <1>1, <1>7 DEF ObserverAbort, Observe
<1>8. CASE RequestShutdown \/ ShutdownStep \/ DrainTerminals \/ DrainRoutes
  BY <1>1, <1>8, ShutdownMoves
<1>9. CASE UNCHANGED vars
  BY <1>1, <1>9
<1> QED
  BY <1>2, <1>3, <1>4, <1>5, <1>6, <1>7, <1>8, <1>9 DEF Next

\* The shutdown closes in this order, and once closed an admission stays closed.
LEMMA CutoffStep ==
  ASSUME TypeOK, CutoffInv, DrainedInv, [Next]_vars
  PROVE  CutoffInv' /\ DrainedInv'
<1> DEFINE Goal == CutoffInv' /\ DrainedInv'
<1> USE DEF CutoffInv, Draining
<1>1. ASSUME UNCHANGED <<shutdownVars, observer>> PROVE Goal
  BY <1>1 DEF DrainedInv
<1>2. ASSUME NEW e \in Execution, TaskStep(e) \/ TaskAbort(e) PROVE Goal
  BY <1>1, <1>2, TaskMoves
<1>3. ASSUME NEW e \in Execution,
             StopRun(e) \/ CleanerAbort(e) \/ CleanupStep(e) \/ RequestPlannedStop(e)
      PROVE  Goal
  BY <1>1, <1>3, GatesUntouched
<1>4. ASSUME NEW o \in Observer,
             \/ ObserverStep(o) \/ ObserverAbort(o)
             \/ \E e \in Execution, r \in Route, t \in Terminal : Observe(o, e, r, t)
      PROVE  Goal
  <2>1. /\ UNCHANGED shutdownVars
        /\ \A p \in Observer : p # o => observer'[p] = observer[p]
        /\ observer'[o].pc \in Settling /\ observer[o].pc \notin Settling => phase # "TerminalClosed"
        /\ observer'[o].pc \in Routed /\ observer[o].pc \notin Routed => routesOpen
    BY <1>4, ObserverMoves
  <2>2. drained # {} => phase = "TerminalClosed" /\ ~routesOpen
    OBVIOUS
  <2>3. CutoffInv'
    BY <2>1
  <2>4. DrainedInv'
    BY <2>1, <2>2 DEF DrainedInv
  <2> QED
    BY <2>3, <2>4
<1>5. CASE DrainTerminals
  <2>1. CutoffInv'
    BY <1>5 DEF DrainTerminals, DrainGate
  <2>2. DrainedInv'
    BY <1>5 DEF DrainTerminals, DrainGate, DrainedInv, TerminalHolders, Settling
  <2> QED
    BY <2>1, <2>2
<1>6. CASE DrainRoutes
  <2>1. CutoffInv'
    BY <1>6 DEF DrainRoutes, DrainGate
  <2>2. DrainedInv'
    BY <1>6 DEF DrainRoutes, DrainGate, DrainedInv, RouteHolders, Routed
  <2> QED
    BY <2>1, <2>2
<1>7. CASE RequestShutdown \/ ShutdownStep
  <2>1. UNCHANGED <<drained, observer>>
    BY <1>7 DEF RequestShutdown, ShutdownStep, CloseLaunchAdmission, RequestLaunchBarrier,
      AcquireLaunchBarrier, EnterDraining, LaunchBarrierTimeout, TakeSnapshot,
      CloseTerminalAdmission, CloseRuntimeRoutes, AbortTasks, EndDrain, FenceSettlement,
      ReapAndExit
  <2>2. DrainedInv'
    BY <2>1 DEF DrainedInv
  <2>3. CASE RequestShutdown \/ CloseLaunchAdmission \/ RequestLaunchBarrier \/ AcquireLaunchBarrier
    BY <2>2, <2>3 DEF RequestShutdown, CloseLaunchAdmission, RequestLaunchBarrier,
      AcquireLaunchBarrier, ShutdownTo
  <2>4. CASE EnterDraining \/ LaunchBarrierTimeout \/ TakeSnapshot
    BY <2>2, <2>4 DEF EnterDraining, LaunchBarrierTimeout, TakeSnapshot, ShutdownTo
  <2>5. CASE CloseTerminalAdmission \/ CloseRuntimeRoutes \/ AbortTasks
    BY <2>2, <2>5 DEF CloseTerminalAdmission, CloseRuntimeRoutes, AbortTasks, ShutdownTo
  <2>6. CASE EndDrain \/ FenceSettlement \/ ReapAndExit
    BY <2>2, <2>6 DEF EndDrain, FenceSettlement, ReapAndExit, ShutdownTo
  <2> QED
    BY <1>7, <2>2, <2>3, <2>4, <2>5, <2>6 DEF ShutdownStep
<1>8. CASE UNCHANGED vars
  BY <1>1, <1>8
<1> QED
  BY <1>2, <1>3, <1>4, <1>5, <1>6, <1>7, <1>8 DEF Next

\* Nothing is closed and nobody admitted when the core starts.
LEMMA InitGates == Init => GateInv
BY DEF Init, GateInv, AdmittedRecorded, CutoffInv, DrainedInv, Draining

\* Both parts together are inductive.
LEMMA GateStep == TypeOK /\ GateInv /\ [Next]_vars => GateInv'
<1> SUFFICES ASSUME TypeOK, GateInv, [Next]_vars PROVE GateInv'
  OBVIOUS
<1>1. AdmittedRecorded /\ CutoffInv /\ DrainedInv
  BY DEF GateInv
<1> HIDE DEF TypeOK
<1> QED
  BY <1>1, AdmittedStep, CutoffStep DEF GateInv

\* All planned permits of an execution carry the same terminal (admit_terminal,
\* remove_active_inner).
THEOREM PlannedTerminalsAgreeHolds == Spec => []PlannedTerminalsAgree
<1>1. GateInv => PlannedTerminalsAgree
  BY DEF GateInv, AdmittedRecorded, PlannedTerminalsAgree
<1> QED
  BY <1>1, InitGates, GateStep, TypeCorrect, PTL DEF Spec

\* Only a handler that owns a permit of the terminal gate ends a run with its terminal.
LEMMA TerminalNeedsPermit ==
  ASSUME TypeOK, [Next]_vars, NEW e \in Execution, run'[e].by \in Terminal, run[e].by # run'[e].by
  PROVE  \E o \in Observer : observer[o].pc = "held"
<1> DEFINE Same == run'[e].by \notin Terminal \/ run'[e].by = run[e].by
<1>1. SUFFICES ASSUME \A o \in Observer : observer[o].pc # "held" PROVE Same
  OBVIOUS
<1> USE ShutdownAssumption DEF RunRow
<1>2. ASSUME run' = run PROVE Same
  BY <1>2
<1>3. ASSUME NEW f \in Execution, TaskStep(f) \/ TaskAbort(f) PROVE Same
  <2>1. CASE AbandonLaunch(f) \/ StartLaunch(f) \/ PersistFailure(f)
    BY <2>1 DEF AbandonLaunch, StartLaunch, PersistFailure, Ended
  <2>2. CASE Claim(f)
    BY <2>2 DEF Claim
  <2>3. CASE ~(AbandonLaunch(f) \/ StartLaunch(f) \/ PersistFailure(f) \/ Claim(f))
    BY <1>2, <1>3, <2>3 DEF TaskStep, TaskAbort, EnterLaunch, AcquireLaunchGuard, TakeLaunchPermit,
      LaunchAdmissionClosed, RegisterActive, CheckLaunchCancelled, BeginDispatch,
      CheckHandoffCancelled, CompleteHandoff, AcceptInput, FinishLaunch, LaunchReturned,
      LaunchFailed, MarkFailedHost, TaskRelease, TaskInsertSettled
  <2> QED
    BY <2>1, <2>2, <2>3
<1>4. ASSUME NEW f \in Execution, StopRun(f) PROVE Same
  BY <1>4 DEF StopRun, Stopped, Ended
<1>5. ASSUME NEW f \in Execution, CleanerAbort(f) \/ CleanupStep(f) \/ RequestPlannedStop(f) PROVE Same
  <2>1. CASE ProveCleanup(f) \/ AcknowledgeHostRelease(f)
    BY <2>1, AcknowledgedRow DEF ProveCleanup, AcknowledgeHostRelease
  <2>2. CASE ~(ProveCleanup(f) \/ AcknowledgeHostRelease(f))
    BY <1>2, <1>5, <2>2 DEF CleanerAbort, CleanupStep, RequestPlannedStop, BeginCleanup,
      DeferCleanup, CompleteCleanup, CleanerInsertSettled
  <2> QED
    BY <2>1, <2>2
<1>6. ASSUME NEW o \in Observer, ObserverStep(o) PROVE Same
  <2>1. ~SettleTerminal(o)
    BY <1>1 DEF SettleTerminal
  <2> QED
    BY <1>2, <1>6, <2>1 DEF ObserverStep, AcquireRouteGuard, TakeRoutePermit, CompleteCallback,
      CheckTerminal, AcquireTerminalGuard, ClassifyTerminal, LookupActive, LookupSettled,
      ObserverRelease, ObserverInsertSettled, CompleteSettlement
<1>7. ASSUME NEW o \in Observer, \/ ObserverAbort(o)
                                 \/ \E f \in Execution, r \in Route, t \in Terminal : Observe(o, f, r, t)
      PROVE  Same
  BY <1>2, <1>7 DEF ObserverAbort, Observe
<1>8. CASE RequestShutdown \/ FenceSettlement
  BY <1>8 DEF RequestShutdown, FenceSettlement, Stopped, Ended
<1>9. CASE ReapAndExit
  BY <1>9, AcknowledgedRow DEF ReapAndExit
<1>10. CASE \/ CloseLaunchAdmission \/ RequestLaunchBarrier \/ AcquireLaunchBarrier
            \/ EnterDraining \/ LaunchBarrierTimeout \/ TakeSnapshot \/ CloseTerminalAdmission
            \/ CloseRuntimeRoutes \/ AbortTasks \/ EndDrain \/ DrainTerminals \/ DrainRoutes
  BY <1>2, <1>10 DEF CloseLaunchAdmission, RequestLaunchBarrier, AcquireLaunchBarrier,
    EnterDraining, LaunchBarrierTimeout, TakeSnapshot, CloseTerminalAdmission,
    CloseRuntimeRoutes, AbortTasks, EndDrain, DrainTerminals, DrainRoutes, DrainGate
<1>11. CASE UNCHANGED vars
  BY <1>2, <1>11
<1> QED
  BY <1>3, <1>4, <1>5, <1>6, <1>7, <1>8, <1>9, <1>10, <1>11 DEF Next, ShutdownStep

\* Once the terminal gate is drained no Runtime terminal ends a run any more
\* (drain_terminal_and_runtime_routes_until, the final cancel-all settlement).
THEOREM SettlementIsCutOff == Spec => SettlementCutoff
<1> DEFINE Cut == \A e \in Execution :
                    "terminal" \in drained /\ run'[e].by \in Terminal => run[e].by = run'[e].by
<1>1. TypeOK /\ GateInv /\ [Next]_vars => [Cut]_vars
  <2> SUFFICES ASSUME TypeOK, GateInv, [Next]_vars, NEW e \in Execution,
                      "terminal" \in drained, run'[e].by \in Terminal, run[e].by # run'[e].by
               PROVE  FALSE
    OBVIOUS
  <2>1. \A o \in Observer : observer[o].pc # "held"
    BY DEF GateInv, DrainedInv, Settling
  <2> HIDE DEF TypeOK
  <2> QED
    BY <2>1, TerminalNeedsPermit
<1> QED
  BY <1>1, InitGates, GateStep, TypeCorrect, PTL DEF Spec, SettlementCutoff

-----------------------------------------------------------------------------
(* Each admission implements AdmissionGate. *)

\* The mode and the permits of the three admissions, as AdmissionGate sees them.
LaunchMode == IF phase = "Accepting" THEN "open" ELSE IF launchQuiesced THEN "drained" ELSE "closed"
TerminalMode == IF phase # "TerminalClosed" THEN "open"
                ELSE IF "terminal" \in drained THEN "drained" ELSE "closed"
RouteMode == IF routesOpen THEN "open" ELSE IF "route" \in drained THEN "drained" ELSE "closed"
TerminalPermits == {o \in TerminalHolders : observer[o].pc # "termGuarded"}
RoutePermits == {o \in RouteHolders : observer[o].pc # "routeGuarded"}

\* A set of permits that only one holder may enter or leave.
LEMMA OneHolderMoves ==
  ASSUME NEW U, NEW S \in SUBSET U, NEW T \in SUBSET U, NEW x,
         \A y \in U : y # x => (y \in T <=> y \in S)
  PROVE  T = S \/ (x \notin S /\ T = S \cup {x}) \/ (x \in S /\ T = S \ {x})
OBVIOUS

\* The handlers with a permit, by where they are.
LEMMA PermitsOfHandlers ==
  ASSUME TypeOK
  PROVE  /\ TerminalPermits = {o \in Observer : observer[o].pc \in Settling}
         /\ RoutePermits = {o \in Observer : observer[o].pc \in Routed}
<1>1. TerminalPermits = {o \in Observer : observer[o].pc \in Settling}
  BY DEF TerminalPermits, TerminalHolders, Settling
<1>2. \A o \in Observer : observer[o].pc \in ObserverState
  BY DEF Observation
<1>3. RoutePermits = {o \in Observer : observer[o].pc \in Routed}
  BY <1>2 DEF RoutePermits, RouteHolders, Routed
<1> QED
  BY <1>1, <1>3

\* A launch permit is taken while launches are admitted, and the write side of launch_gate is
\* granted when none is left.
LEMMA LaunchGateStep ==
  ASSUME SnapshotInv, GateInv, [Next]_vars
  PROVE  [LaunchGate!Next]_(LaunchGate!gateVars)
<1> DEFINE Kept == \/ UNCHANGED <<LaunchMode, PermitHolders>>
                   \/ LaunchMode = "open" /\ LaunchMode' = "closed" /\ UNCHANGED PermitHolders
                   \/ /\ LaunchMode = "closed" /\ LaunchMode' = "drained"
                      /\ PermitHolders = {} /\ UNCHANGED PermitHolders
                   \/ \E e \in Execution :
                        /\ UNCHANGED LaunchMode
                        /\ \/ /\ LaunchMode = "open" /\ e \notin PermitHolders
                              /\ PermitHolders' = PermitHolders \cup {e}
                           \/ e \in PermitHolders /\ PermitHolders' = PermitHolders \ {e}
<1>1. TypeOK /\ TypeOK' /\ CutoffInv /\ BarrierHeld
  BY StepTyped DEF SnapshotInv, GateInv
<1>2. ASSUME NEW e \in Execution, TaskStep(e) \/ TaskAbort(e) PROVE Kept
  <2>1. /\ UNCHANGED LaunchMode
        /\ \A f \in Execution : f # e => (f \in PermitHolders' <=> f \in PermitHolders)
        /\ e \in PermitHolders' /\ e \notin PermitHolders => LaunchMode = "open"
    BY <1>1, <1>2, TaskMoves DEF LaunchMode
  <2>2. PermitHolders \in SUBSET Execution /\ PermitHolders' \in SUBSET Execution
    BY <1>1 DEF PermitHolders
  <2> HIDE DEF PermitHolders
  <2>3. \/ PermitHolders' = PermitHolders
        \/ e \notin PermitHolders /\ PermitHolders' = PermitHolders \cup {e}
        \/ e \in PermitHolders /\ PermitHolders' = PermitHolders \ {e}
    BY <2>1, <2>2, OneHolderMoves
  <2> QED
    BY <2>1, <2>3
<1>3. ASSUME UNCHANGED <<launchGuards, task>> PROVE UNCHANGED PermitHolders
  BY <1>3 DEF PermitHolders
<1>4. ASSUME UNCHANGED <<phase, launchQuiesced>> PROVE UNCHANGED LaunchMode
  BY <1>4 DEF LaunchMode
<1>5. ASSUME NEW e \in Execution,
             StopRun(e) \/ CleanerAbort(e) \/ CleanupStep(e) \/ RequestPlannedStop(e)
      PROVE  Kept
  BY <1>3, <1>4, <1>5, GatesUntouched
<1>6. ASSUME NEW o \in Observer,
             \/ ObserverStep(o) \/ ObserverAbort(o)
             \/ \E e \in Execution, r \in Route, t \in Terminal : Observe(o, e, r, t)
      PROVE  Kept
  BY <1>1, <1>3, <1>4, <1>6, ObserverMoves
<1>7. ASSUME RequestShutdown \/ ShutdownStep \/ DrainTerminals \/ DrainRoutes
      PROVE  Kept
  <2>1. UNCHANGED PermitHolders
    BY <1>3, <1>7, ShutdownMoves
  <2>2. ASSUME CloseLaunchAdmission
        PROVE  Kept
    BY <1>1, <2>1, <2>2 DEF CloseLaunchAdmission, LaunchMode, BarrierHeld
  <2>3. ASSUME EnterDraining
        PROVE  Kept
    <3>1. PermitHolders = {} /\ ~launchQuiesced
      BY <1>1, <2>3 DEF EnterDraining, BarrierHeld, PermitHolders, CutoffInv
    <3> QED
      BY <2>1, <2>3, <3>1 DEF EnterDraining, LaunchMode
  <2>4. ASSUME CloseTerminalAdmission
        PROVE  Kept
    BY <1>1, <2>1, <2>4 DEF CloseTerminalAdmission, LaunchMode, BarrierHeld
  <2>5. ASSUME ~(CloseLaunchAdmission \/ EnterDraining \/ CloseTerminalAdmission)
        PROVE  Kept
    <3>1. UNCHANGED <<phase, launchQuiesced>>
      BY <1>7, <2>5 DEF RequestShutdown, ShutdownStep, RequestLaunchBarrier,
        AcquireLaunchBarrier, LaunchBarrierTimeout, TakeSnapshot, CloseRuntimeRoutes, AbortTasks,
        EndDrain, FenceSettlement, ReapAndExit, DrainTerminals, DrainRoutes, DrainGate
    <3> QED
      BY <1>4, <2>1, <3>1
  <2> QED
    BY <2>2, <2>3, <2>4, <2>5
<1>8. ASSUME UNCHANGED vars
      PROVE  Kept
  BY <1>3, <1>4, <1>8
<1>9. Kept
  BY <1>2, <1>5, <1>6, <1>7, <1>8 DEF Next
<1> QED
  BY <1>9 DEF LaunchMode, LaunchGate!Next, LaunchGate!Enter, LaunchGate!Leave,
    LaunchGate!Close, LaunchGate!Drain, LaunchGate!gateVars

\* The gates of terminals and routes: handlers come in while they are open, the cutoff closes
\* them, and a drain waits for the last permit.
LEMMA HandlerGatesStep ==
  ASSUME TypeOK, GateInv, [Next]_vars
  PROVE  /\ [TerminalGate!Next]_(TerminalGate!gateVars)
         /\ [RouteGate!Next]_(RouteGate!gateVars)
<1> DEFINE TerminalKept ==
             \/ UNCHANGED <<TerminalMode, TerminalPermits>>
             \/ TerminalMode = "open" /\ TerminalMode' = "closed" /\ UNCHANGED TerminalPermits
             \/ /\ TerminalMode = "closed" /\ TerminalMode' = "drained"
                /\ TerminalPermits = {} /\ UNCHANGED TerminalPermits
             \/ \E o \in Observer :
                  /\ UNCHANGED TerminalMode
                  /\ \/ /\ TerminalMode = "open" /\ o \notin TerminalPermits
                        /\ TerminalPermits' = TerminalPermits \cup {o}
                     \/ o \in TerminalPermits /\ TerminalPermits' = TerminalPermits \ {o}
           RouteKept ==
             \/ UNCHANGED <<RouteMode, RoutePermits>>
             \/ RouteMode = "open" /\ RouteMode' = "closed" /\ UNCHANGED RoutePermits
             \/ /\ RouteMode = "closed" /\ RouteMode' = "drained"
                /\ RoutePermits = {} /\ UNCHANGED RoutePermits
             \/ \E o \in Observer :
                  /\ UNCHANGED RouteMode
                  /\ \/ /\ RouteMode = "open" /\ o \notin RoutePermits
                        /\ RoutePermits' = RoutePermits \cup {o}
                     \/ o \in RoutePermits /\ RoutePermits' = RoutePermits \ {o}
<1>1. TypeOK' /\ CutoffInv
  BY StepTyped DEF GateInv
<1>2. /\ TerminalPermits = {o \in Observer : observer[o].pc \in Settling}
      /\ RoutePermits = {o \in Observer : observer[o].pc \in Routed}
  BY PermitsOfHandlers
<1>3. \A o \in Observer : observer'[o].pc \in ObserverState
  BY <1>1 DEF Observation
<1>4. /\ TerminalPermits' = {o \in Observer : observer'[o].pc \in Settling}
       /\ RoutePermits' = {o \in Observer : observer'[o].pc \in Routed}
  BY <1>3 DEF TerminalPermits, TerminalHolders, Settling, RoutePermits, RouteHolders, Routed
<1>5. ASSUME NEW o \in Observer,
             \/ ObserverStep(o) \/ ObserverAbort(o)
             \/ \E e \in Execution, r \in Route, t \in Terminal : Observe(o, e, r, t)
      PROVE  TerminalKept /\ RouteKept
  <2>1. /\ UNCHANGED shutdownVars
        /\ \A p \in Observer : p # o => observer'[p] = observer[p]
        /\ observer'[o].pc \in Settling /\ observer[o].pc \notin Settling => phase # "TerminalClosed"
        /\ observer'[o].pc \in Routed /\ observer[o].pc \notin Routed => routesOpen
    BY <1>5, ObserverMoves
  <2>2. /\ UNCHANGED <<TerminalMode, RouteMode>>
        /\ \A p \in Observer : p # o => (p \in TerminalPermits' <=> p \in TerminalPermits)
        /\ \A p \in Observer : p # o => (p \in RoutePermits' <=> p \in RoutePermits)
        /\ o \in TerminalPermits' /\ o \notin TerminalPermits => TerminalMode = "open"
        /\ o \in RoutePermits' /\ o \notin RoutePermits => RouteMode = "open"
    BY <1>2, <1>4, <2>1 DEF TerminalMode, RouteMode
  <2>3. /\ TerminalPermits \in SUBSET Observer /\ TerminalPermits' \in SUBSET Observer
        /\ RoutePermits \in SUBSET Observer /\ RoutePermits' \in SUBSET Observer
    BY <1>2, <1>4
  <2>4. \/ TerminalPermits' = TerminalPermits
        \/ o \notin TerminalPermits /\ TerminalPermits' = TerminalPermits \cup {o}
        \/ o \in TerminalPermits /\ TerminalPermits' = TerminalPermits \ {o}
    <3>1. \A p \in Observer : p # o => (p \in TerminalPermits' <=> p \in TerminalPermits)
      BY <2>2
    <3>2. TerminalPermits \in SUBSET Observer /\ TerminalPermits' \in SUBSET Observer
      BY <2>3
    <3> HIDE DEF TypeOK
    <3> QED
      BY <3>1, <3>2, OneHolderMoves
  <2>5. \/ RoutePermits' = RoutePermits
        \/ o \notin RoutePermits /\ RoutePermits' = RoutePermits \cup {o}
        \/ o \in RoutePermits /\ RoutePermits' = RoutePermits \ {o}
    <3>1. \A p \in Observer : p # o => (p \in RoutePermits' <=> p \in RoutePermits)
      BY <2>2
    <3>2. RoutePermits \in SUBSET Observer /\ RoutePermits' \in SUBSET Observer
      BY <2>3
    <3> HIDE DEF TypeOK
    <3> QED
      BY <3>1, <3>2, OneHolderMoves
  <2>6. TerminalKept
    BY <2>2, <2>4
  <2>7. RouteKept
    BY <2>2, <2>5
  <2> QED
    BY <2>6, <2>7
<1>6. ASSUME UNCHANGED observer PROVE UNCHANGED <<TerminalPermits, RoutePermits>>
  BY <1>6 DEF TerminalPermits, TerminalHolders, RoutePermits, RouteHolders
<1>7. ASSUME UNCHANGED <<phase, routesOpen, drained, observer>> PROVE TerminalKept /\ RouteKept
  BY <1>6, <1>7 DEF TerminalMode, RouteMode
<1>8. ASSUME NEW e \in Execution, \/ TaskStep(e) \/ TaskAbort(e) \/ StopRun(e) \/ CleanerAbort(e)
                                  \/ CleanupStep(e) \/ RequestPlannedStop(e)
      PROVE  TerminalKept /\ RouteKept
  BY <1>7, <1>8, TaskMoves, GatesUntouched
<1>9. ASSUME RequestShutdown \/ ShutdownStep \/ DrainTerminals \/ DrainRoutes
      PROVE  TerminalKept /\ RouteKept
  <2>1. UNCHANGED observer
    BY <1>9, ShutdownMoves
  <2>2. UNCHANGED <<TerminalPermits, RoutePermits>>
    BY <1>6, <2>1
  <2>3. ASSUME DrainTerminals
        PROVE  TerminalKept /\ RouteKept
    <3>1. TerminalPermits = {}
      BY <2>3 DEF DrainTerminals, DrainGate, TerminalPermits
    <3>2. TerminalMode = "closed" /\ TerminalMode' = "drained" /\ UNCHANGED RouteMode
      BY <1>1, <2>3 DEF DrainTerminals, DrainGate, TerminalMode, RouteMode, CutoffInv, Draining
    <3> QED
      BY <2>2, <3>1, <3>2
  <2>4. ASSUME DrainRoutes
        PROVE  TerminalKept /\ RouteKept
    <3>1. RoutePermits = {}
      BY <2>4 DEF DrainRoutes, DrainGate, RoutePermits
    <3>2. RouteMode = "closed" /\ RouteMode' = "drained" /\ UNCHANGED TerminalMode
      BY <1>1, <2>4 DEF DrainRoutes, DrainGate, TerminalMode, RouteMode, CutoffInv, Draining
    <3> QED
      BY <2>2, <3>1, <3>2
  <2>5. ASSUME CloseLaunchAdmission \/ EnterDraining
        PROVE  TerminalKept /\ RouteKept
    <3>1. UNCHANGED <<TerminalMode, RouteMode>>
      BY <2>5 DEF CloseLaunchAdmission, EnterDraining, TerminalMode, RouteMode
    <3> QED
      BY <2>2, <3>1
  <2>6. ASSUME CloseTerminalAdmission
        PROVE  TerminalKept /\ RouteKept
    <3>1. /\ UNCHANGED RouteMode
          /\ (TerminalMode = "open" /\ TerminalMode' = "closed") \/ UNCHANGED TerminalMode
      BY <1>1, <2>6 DEF CloseTerminalAdmission, TerminalMode, RouteMode, CutoffInv, Draining
    <3> QED
      BY <2>2, <3>1
  <2>7. ASSUME CloseRuntimeRoutes
        PROVE  TerminalKept /\ RouteKept
    <3>1. /\ UNCHANGED TerminalMode
          /\ (RouteMode = "open" /\ RouteMode' = "closed") \/ UNCHANGED RouteMode
      BY <1>1, <2>7 DEF CloseRuntimeRoutes, TerminalMode, RouteMode, CutoffInv, Draining
    <3> QED
      BY <2>2, <3>1
  <2>8. ASSUME ~(\/ DrainTerminals \/ DrainRoutes \/ CloseLaunchAdmission \/ EnterDraining
               \/ CloseTerminalAdmission \/ CloseRuntimeRoutes)
        PROVE  TerminalKept /\ RouteKept
    <3>1. UNCHANGED <<phase, routesOpen, drained>>
      BY <1>9, <2>8 DEF RequestShutdown, ShutdownStep, RequestLaunchBarrier,
        AcquireLaunchBarrier, LaunchBarrierTimeout, TakeSnapshot, AbortTasks,
        EndDrain, FenceSettlement, ReapAndExit
    <3> QED
      BY <1>7, <2>1, <3>1
  <2> QED
    BY <2>3, <2>4, <2>5, <2>6, <2>7, <2>8
<1>10. ASSUME UNCHANGED vars
      PROVE  TerminalKept /\ RouteKept
  BY <1>7, <1>10
<1>11. TerminalKept /\ RouteKept
  BY <1>5, <1>8, <1>9, <1>10 DEF Next
<1>12. [TerminalGate!Next]_(TerminalGate!gateVars)
  <2> HIDE DEF TypeOK
  <2> QED
    BY <1>11 DEF TerminalMode, TerminalPermits, TerminalGate!Next, TerminalGate!Enter,
      TerminalGate!Leave, TerminalGate!Close, TerminalGate!Drain, TerminalGate!gateVars
<1>13. [RouteGate!Next]_(RouteGate!gateVars)
  <2> HIDE DEF TypeOK
  <2> QED
    BY <1>11 DEF RouteMode, RoutePermits, RouteGate!Next, RouteGate!Enter,
      RouteGate!Leave, RouteGate!Close, RouteGate!Drain, RouteGate!gateVars
<1> QED
  BY <1>12, <1>13

\* The launch admission, the admission of terminals and that of Runtime routes each keep the
\* promise of AdmissionGate: permits only while open, and drained means that none is left.
THEOREM AdmissionsAreKept == Spec => AdmissionsKept
<1>1. Init => LaunchGate!Init /\ TerminalGate!Init /\ RouteGate!Init
  BY DEF Init, LaunchGate!Init, TerminalGate!Init, RouteGate!Init, PermitHolders,
    TerminalHolders, RouteHolders, IdleObserver
<1> QED
  BY <1>1, InitSnapshot, SnapshotStep, InitGates, GateStep, TypeCorrect, LaunchGateStep,
    HandlerGatesStep, PTL
  DEF Spec, AdmissionsKept, LaunchAdmissionKept, TerminalAdmissionKept, RouteAdmissionKept,
    LaunchGate!Spec, TerminalGate!Spec, RouteGate!Spec
=============================================================================
