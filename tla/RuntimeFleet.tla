---------------------------- MODULE RuntimeFleet ----------------------------
(***************************************************************************)
(* The Runtime fleet (runtime_fleet.rs): the processes that serve          *)
(* executions, their leases, the fleet-owned start and stop operations,    *)
(* the fences, and the callers whose answers depend on them: the launch    *)
(* task of an execution, the terminal handler that gives its Host back,    *)
(* and the cleanup worker that must prove that the Host is gone.           *)
(*                                                                         *)
(* A Lease is one RunLeaseKey, an AgentRun at one epoch.  A Process is the *)
(* identity of one reservation and of the process spawned for it.          *)
(***************************************************************************)
EXTENDS Naturals, FiniteSets

CONSTANTS
    Lease,          \* executions
    Process,        \* reservations, each used once
    Scope,          \* RuntimeReuseScope: Thread, member and native session
    Camp, Member,
    ScopeOf,        \* the reuse scope of an execution
    PoliciesOf,     \* the HostReusePolicies an execution may find configured
    CampOf, MemberOf,
    Earlier,        \* executions of the same lane that must be over first
    Kinds,          \* adapters: "codex", "hermes", "dsh", "zcode", "other"
    MaxPerMember,   \* max_resident_processes_per_member
    MaxGlobal,      \* max_resident_processes_global
    MaxRestart,     \* bound: crashes of the core
    None

Policy == UNION {PoliciesOf[l] : l \in Lease}

ASSUME FleetAssumption ==
    /\ ScopeOf \in [Lease -> Scope] /\ DOMAIN PoliciesOf = Lease
    /\ CampOf \in [Scope -> Camp] /\ MemberOf \in [Scope -> Member]
    /\ Earlier \in [Lease -> SUBSET Lease]
    /\ \A l, m \in Lease : ScopeOf[l] = ScopeOf[m] => l = m \/ l \in Earlier[m] \/ m \in Earlier[l]
    /\ Kinds \subseteq {"codex", "hermes", "dsh", "zcode", "other"}
    /\ MaxPerMember \in Nat \ {0} /\ MaxGlobal \in Nat \ {0} /\ MaxRestart \in Nat
    /\ None \notin Lease \cup Process \cup Scope \cup Policy

VARIABLES
    entry,          \* processes: ProcessEntry by process id
    byRun,          \* process_by_run
    residents,      \* resident_processes
    idleLru,        \* idle_lru, its order left out
    receipts,       \* reaped_leases
    shutdown,       \* shutdown_started
    deleting,       \* deleting_camps
    startup,        \* drive_startup of each reservation
    stop,           \* the stop operation of each process: planned, then driven by drive_stop
    sweeping,       \* the processes whose stop the idle sweeper awaits
    os,             \* the process itself
    background,     \* processes with ZCode background tasks
    record,         \* owner records on disk
    stale,          \* records of an earlier generation that still wait for cleanup_stale
    launch,         \* the launch task of an execution
    handler,        \* the terminal handler's release
    cleaner,        \* the cleanup worker
    before,         \* launching_before_stop, as the cleanup worker read it
    acked,          \* executions whose cleanup is durably acknowledged
    wait,           \* what each caller waits for, and the answer it got
    fence,          \* force_fence_camp_for_deletion of a Thread
    policy,         \* HostReusePolicy, as the launch of an execution computed it
    kind,           \* the adapter of the executions
    restarts

fleet == <<entry, byRun, residents, idleLru, receipts, shutdown, deleting>>
tasks == <<startup, stop, sweeping>>
outside == <<os, background>>
disk == <<record, stale>>
callers == <<launch, handler, cleaner, before, acked, wait, fence>>
vars == <<fleet, tasks, outside, disk, callers, policy, kind, restarts>>

Codex == kind = "codex"

Absent == [state |-> "absent", lease |-> None, scope |-> None, policy |-> None,
           resident |-> FALSE, retire |-> FALSE, cancelled |-> FALSE, evicts |-> None]
ProcessEntry ==
    [state : {"absent", "Starting", "Busy", "IdleWarm", "Stopping", "removed"},
     lease : Lease \cup {None}, scope : Scope \cup {None}, policy : Policy \cup {None},
     resident : BOOLEAN, retire : BOOLEAN, cancelled : BOOLEAN, evicts : Process \cup {None}]

NoRecord == [lease |-> None, state |-> "none"]
OwnerRecord == [lease : Lease \cup {None}, state : {"none", "live", "reaped"}]

Startup == {"none", "evicting", "denied", "begin", "spawning", "spawned", "retiring",
            "committed", "over"}
StopTask == {"none", "planned", "reaping", "removed", "expired", "over"}
Launch == {"idle", "ensuring", "retiring", "acquiring", "waiting", "registering",
           "acquired", "replacing", "bound", "failed", "lost"}
Handler == {"idle", "checking", "stopping", "reusable", "reaped", "other"}
Cleaner == {"idle", "read", "stopping", "relaunch", "proven"}

\* The callers that wait for a start, a stop or a retirement to end.
Caller == ({"launch", "handler", "cleaner"} \X Lease) \cup ({"fence"} \X Camp)
\* A launch that retires Hosts holds stops that are "planned" and has one "awaited" at a time.
Waiting == {"start", "cancel", "stop", "retire", "planned", "awaited"}
Answers == {"yes", "no", "failed", "kept"}
Wait == Waiting \cup Answers \cup {"none"}

TypeOK ==
    /\ entry \in [Process -> ProcessEntry]
    /\ byRun \in [Lease -> Process \cup {None}]
    /\ residents \subseteq Process /\ idleLru \subseteq Process
    /\ receipts \subseteq Lease /\ shutdown \in BOOLEAN /\ deleting \subseteq Camp
    /\ startup \in [Process -> Startup] /\ stop \in [Process -> StopTask]
    /\ sweeping \subseteq Process
    /\ os \in [Process -> {"none", "alive", "dead"}] /\ background \subseteq Process
    /\ record \in [Process -> OwnerRecord] /\ stale \subseteq Process
    /\ launch \in [Lease -> Launch] /\ handler \in [Lease -> Handler]
    /\ cleaner \in [Lease -> Cleaner] /\ before \in [Lease -> BOOLEAN]
    /\ acked \subseteq Lease
    /\ wait \in [Caller -> [Process -> Wait]]
    /\ fence \in [Camp -> {"idle", "waiting", "fenced"}]
    /\ policy \in [Lease -> Policy \cup {None}] /\ kind \in Kinds
    /\ restarts \in 0..MaxRestart

Init ==
    /\ entry = [p \in Process |-> Absent]
    /\ byRun = [l \in Lease |-> None]
    /\ residents = {} /\ idleLru = {} /\ receipts = {} /\ shutdown = FALSE /\ deleting = {}
    /\ startup = [p \in Process |-> "none"] /\ stop = [p \in Process |-> "none"] /\ sweeping = {}
    /\ os = [p \in Process |-> "none"] /\ background = {}
    /\ record = [p \in Process |-> NoRecord] /\ stale = {}
    /\ launch = [l \in Lease |-> "idle"] /\ handler = [l \in Lease |-> "idle"]
    /\ cleaner = [l \in Lease |-> "idle"] /\ before = [l \in Lease |-> FALSE]
    /\ acked = {}
    /\ wait = [c \in Caller |-> [p \in Process |-> "none"]]
    /\ fence = [c \in Camp |-> "idle"]
    /\ policy = [l \in Lease |-> None] /\ kind \in Kinds
    /\ restarts = 0

-----------------------------------------------------------------------------
(* FleetState *)

Present == {p \in Process : entry[p].state \notin {"absent", "removed"}}
InScope(s) == {p \in Present : entry[p].scope = s}
InCamp(c) == {p \in Present : CampOf[entry[p].scope] = c}
OfMember(P, m) == {p \in P : MemberOf[entry[p].scope] = m}
Healthy(p) == os[p] = "alive"

\* has_resident_capacity
HasResidentCapacity(m) ==
    /\ Cardinality(residents) < MaxGlobal
    /\ Cardinality(OfMember(residents, m)) < MaxPerMember

\* insert_process: only a Starting reservation is inserted.
Reservation(l, resident, victim) ==
    [state |-> "Starting", lease |-> l, scope |-> ScopeOf[l], policy |-> policy[l],
     resident |-> resident, retire |-> FALSE, cancelled |-> FALSE, evicts |-> victim]

\* remove_process, with the receipt its callers keep of a Codex lease.
Remove(p) ==
    /\ entry' = [entry EXCEPT ![p].state = "removed"]
    /\ idleLru' = idleLru \ {p} /\ residents' = residents \ {p}
    /\ byRun' = IF entry[p].lease = None THEN byRun ELSE [byRun EXCEPT ![entry[p].lease] = None]
    /\ receipts' = IF Codex /\ entry[p].lease # None THEN receipts \cup {entry[p].lease}
                   ELSE receipts

\* plan_stop.  A Starting reservation is cancelled; a running stop is shared; any other
\* Host gets a new stop operation.
Unfinished == {"planned", "reaping", "removed", "expired"}
Launches(p) ==
    entry[p].state # "Starting" /\ ~(entry[p].state = "Stopping" /\ stop[p] \in Unfinished)
StopEntry(p) == IF entry[p].state = "Starting"
                THEN [entry[p] EXCEPT !.retire = TRUE, !.cancelled = TRUE]
                ELSE [entry[p] EXCEPT !.state = "Stopping"]
StopWait(p) == IF entry[p].state = "Starting" THEN "cancel" ELSE "stop"
PlanStop(P) ==
    /\ entry' = [p \in Process |-> IF p \in P THEN StopEntry(p) ELSE entry[p]]
    /\ idleLru' = idleLru \ {p \in P : Launches(p)}
    /\ stop' = [p \in Process |-> IF p \in P /\ Launches(p) THEN "reaping" ELSE stop[p]]

\* An operation answers everyone who waits for it: answers maps what was waited for to
\* what is heard.
Answer(p, answers) ==
    [c \in Caller |-> IF wait[c][p] \in DOMAIN answers
                      THEN [wait[c] EXCEPT ![p] = answers[wait[c][p]]] ELSE wait[c]]
Waits(c, P) == [wait EXCEPT ![c] = [p \in Process |-> IF p \in P THEN StopWait(p) ELSE "none"]]
Forget(c) == [wait EXCEPT ![c] = [p \in Process |-> "none"]]
Answered(c) == \A p \in Process : wait[c][p] \notin Waiting
Refused(c) == \E p \in Process : wait[c][p] = "no"

-----------------------------------------------------------------------------
(* The launch task: ensure_agent_run_runtime of the adapters. *)

InProgress(l) == launch[l] \in {"ensuring", "retiring", "acquiring", "waiting", "registering",
                                "acquired", "replacing"}

\* Codex and DSH retire Hosts of another policy before they acquire.
Ensure == IF kind \in {"codex", "dsh"} THEN "ensuring" ELSE "acquiring"

\* The lane claims an execution when the cleanups of the earlier ones are acknowledged.
BeginLaunch(l) ==
    /\ launch[l] = "idle" /\ Earlier[l] \subseteq acked
    /\ launch' = [launch EXCEPT ![l] = Ensure]
    /\ \E q \in PoliciesOf[l] : policy' = [policy EXCEPT ![l] = q]
    /\ UNCHANGED <<fleet, tasks, outside, disk, handler, cleaner, before, acked, wait, fence,
                   kind, restarts>>

\* retire_incompatible_hosts: plan.  Busy Hosts retire at the end of their run; every other
\* Host is Stopping from now on, but nothing drives its stop yet.
RetireIncompatible(l) ==
    LET old == {p \in InScope(ScopeOf[l]) : entry[p].policy # policy[l]}
        busy == {p \in old : entry[p].state = "Busy"}
        planned == {p \in old \ busy : Launches(p)}
    IN /\ launch[l] = "ensuring"
       /\ entry' = [p \in Process |-> IF p \in busy THEN [entry[p] EXCEPT !.retire = TRUE]
                                      ELSE IF p \in old THEN StopEntry(p) ELSE entry[p]]
       /\ idleLru' = idleLru \ planned
       /\ stop' = [p \in Process |-> IF p \in planned THEN "planned" ELSE stop[p]]
       /\ wait' = [wait EXCEPT ![<<"launch", l>>] =
                      [p \in Process |-> CASE p \in busy -> "retire" [] p \in planned -> "planned"
                                           [] p \in old \ (busy \cup planned) -> StopWait(p)
                                           [] OTHER -> "none"]]
       /\ launch' = [launch EXCEPT ![l] = "retiring"]
       /\ UNCHANGED <<byRun, residents, receipts, shutdown, deleting, startup, sweeping, outside,
                      disk, handler, cleaner, before, acked, fence, policy, kind, restarts>>

\* Nothing is awaited, and nothing that was awaited failed.
Between(l) == \A p \in Process : wait[<<"launch", l>>][p] \notin {"awaited", "failed"}

\* The next stop is dispatched, or one that runs already is awaited; the others have to wait
\* for its end.
AwaitRetirement(l) ==
    /\ launch[l] = "retiring" /\ Between(l)
    /\ \E p \in Process :
         /\ wait[<<"launch", l>>][p] \in {"planned", "stop"}
         /\ wait' = [wait EXCEPT ![<<"launch", l>>][p] = "awaited"]
         /\ stop' = [stop EXCEPT ![p] = IF wait[<<"launch", l>>][p] = "planned" THEN "reaping"
                                        ELSE @]
    /\ UNCHANGED <<fleet, startup, sweeping, outside, disk, launch, handler, cleaner, before,
                   acked, fence, policy, kind, restarts>>

\* A stop that was awaited, or ended before its turn, did not reap; or all stops did, and a
\* Host that worked was kept.
Unretired(l) ==
    LET heard == {wait[<<"launch", l>>][p] : p \in Process}
    IN \/ heard \cap {"no", "failed"} # {} /\ "awaited" \notin heard
       \/ "kept" \in heard /\ heard \cap Waiting \subseteq {"retire"}

\* Every Host was reaped; or the launch fails at the first one that was not, and what it had
\* planned after that one is never dispatched.
RetirementsAnswered(l) ==
    /\ launch[l] = "retiring"
    /\ \/ /\ Unretired(l)
          /\ launch' = [launch EXCEPT ![l] = "failed"]
       \/ /\ ~Unretired(l) /\ Answered(<<"launch", l>>)
          /\ launch' = [launch EXCEPT ![l] = "acquiring"]
    /\ wait' = Forget(<<"launch", l>>)
    /\ UNCHANGED <<fleet, tasks, outside, disk, handler, cleaner, before, acked, fence, policy,
                   kind, restarts>>

\* mutant: a Codex Host that is being stopped does not stand in the way
BlockedByHermesOnly(l) ==
    \/ shutdown \/ CampOf[ScopeOf[l]] \in deleting
    \/ byRun[l] # None
    \/ kind = "hermes" /\ \E p \in InScope(ScopeOf[l]) : entry[p].state # "IdleWarm"

\* plan_acquire: the early returns.  A launch that comes back for its lease finds the Host
\* that it could not stop.
Blocked(l) ==
    \/ shutdown \/ CampOf[ScopeOf[l]] \in deleting
    \/ byRun[l] # None
    \/ kind = "hermes" /\ \E p \in InScope(ScopeOf[l]) : entry[p].state # "IdleWarm"
    \/ Codex /\ \E p \in InScope(ScopeOf[l]) :
                   entry[p].state = "Stopping" \/ (entry[p].state = "Starting" /\ entry[p].retire)

AcquireBlocked(l) ==
    /\ launch[l] = "acquiring" /\ Blocked(l)
    /\ launch' = [launch EXCEPT ![l] = "failed"]
    /\ UNCHANGED <<fleet, tasks, outside, disk, handler, cleaner, before, acked, wait, fence,
                   policy, kind, restarts>>

\* The warm Hosts an execution may take; those with background tasks come first.
CompatibleIdle(l) ==
    {p \in idleLru : /\ entry[p].state = "IdleWarm" /\ Healthy(p)
                     /\ entry[p].scope = ScopeOf[l] /\ entry[p].policy = policy[l]}
Preferred(l) == IF CompatibleIdle(l) \cap background # {} THEN CompatibleIdle(l) \cap background
                ELSE CompatibleIdle(l)

\* plan_acquire: a warm Host is leased again.
AcquireReuse(l) ==
    /\ launch[l] = "acquiring" /\ ~Blocked(l)
    /\ \E p \in Preferred(l) :
         /\ entry' = [entry EXCEPT ![p].state = "Busy", ![p].lease = l]
         /\ idleLru' = idleLru \ {p}
         /\ byRun' = [byRun EXCEPT ![l] = p]
    /\ launch' = [launch EXCEPT ![l] = IF Codex THEN "registering" ELSE "acquired"]
    /\ UNCHANGED <<residents, receipts, shutdown, deleting, tasks, outside, disk,
                   handler, cleaner, before, acked, wait, fence, policy, kind, restarts>>

\* acquire: the owner record of a reused Codex Host names its new lease; a Host that
\* exited has no process id.
RegisterReuse(l) ==
    /\ launch[l] = "registering"
    /\ \/ /\ \E p \in Process : /\ entry[p].lease = l /\ Healthy(p)
                                /\ record' = [record EXCEPT ![p] = [lease |-> l, state |-> "live"]]
          /\ launch' = [launch EXCEPT ![l] = "acquired"]
       \/ /\ launch' = [launch EXCEPT ![l] = "failed"]
          /\ UNCHANGED record
    /\ UNCHANGED <<fleet, tasks, outside, stale, handler, cleaner, before, acked, wait, fence,
                   policy, kind, restarts>>

\* The idle Hosts that may be evicted: of the member if the member is at its limit,
\* of another one only if the member has none.
Evictable(m) ==
    LET idle == {p \in idleLru \ background : entry[p].state = "IdleWarm"}
    IN IF OfMember(idle, m) # {} \/ Cardinality(OfMember(residents, m)) >= MaxPerMember
       THEN OfMember(idle, m) ELSE idle

\* plan_acquire: a new reservation, within the capacity, in place of an idle Host
\* (reserve_idle_eviction), or as a burst.
AcquireReserve(l, p) ==
    LET m == MemberOf[ScopeOf[l]]
    IN /\ launch[l] = "acquiring" /\ ~Blocked(l) /\ CompatibleIdle(l) = {}
       /\ entry[p].state = "absent"
       /\ \/ /\ HasResidentCapacity(m)
             /\ entry' = [entry EXCEPT ![p] = Reservation(l, TRUE, None)]
             /\ residents' = residents \cup {p}
             /\ startup' = [startup EXCEPT ![p] = "begin"]
             /\ UNCHANGED <<idleLru, stop>>
          \/ /\ ~HasResidentCapacity(m)
             /\ \E v \in Evictable(m) :
                  /\ entry' = [entry EXCEPT ![p] = Reservation(l, TRUE, v), ![v].state = "Stopping"]
                  /\ residents' = (residents \ {v}) \cup {p}
                  /\ idleLru' = idleLru \ {v}
                  /\ stop' = [stop EXCEPT ![v] = "reaping"]
             /\ startup' = [startup EXCEPT ![p] = "evicting"]
          \/ /\ ~HasResidentCapacity(m) /\ Evictable(m) = {}
             /\ entry' = [entry EXCEPT ![p] = Reservation(l, FALSE, None)]
             /\ startup' = [startup EXCEPT ![p] = "begin"]
             /\ UNCHANGED <<residents, idleLru, stop>>
       /\ byRun' = [byRun EXCEPT ![l] = p]
       /\ wait' = [wait EXCEPT ![<<"launch", l>>] =
                      [q \in Process |-> IF q = p THEN "start" ELSE "none"]]
       /\ launch' = [launch EXCEPT ![l] = "waiting"]
       /\ UNCHANGED <<receipts, shutdown, deleting, sweeping, outside, disk, handler, cleaner,
                      before, acked, fence, policy, kind, restarts>>

\* acquire: the fleet-owned start has ended.
StartAnswered(l) ==
    /\ launch[l] = "waiting" /\ Answered(<<"launch", l>>)
    /\ launch' = [launch EXCEPT ![l] = IF Refused(<<"launch", l>>) THEN "failed" ELSE "acquired"]
    /\ wait' = Forget(<<"launch", l>>)
    /\ UNCHANGED <<fleet, tasks, outside, disk, handler, cleaner, before, acked, fence, policy,
                   kind, restarts>>

\* The launch binds its route, or fails and leaves its Host to the cleanup worker.
BindRoute(l) ==
    /\ launch[l] = "acquired"
    /\ launch' = [launch EXCEPT ![l] = "bound"]
    /\ UNCHANGED <<fleet, tasks, outside, disk, handler, cleaner, before, acked, wait, fence,
                   policy, kind, restarts>>

FailLaunch(l) ==
    /\ launch[l] = "acquired"
    /\ launch' = [launch EXCEPT ![l] = "failed"]
    /\ UNCHANGED <<fleet, tasks, outside, disk, handler, cleaner, before, acked, wait, fence,
                   policy, kind, restarts>>

-----------------------------------------------------------------------------
(* release_with_outcome, by a launch that replaces its Host and by the handler of a
   Runtime terminal; the cancellation of a ZCode run gives its Host back the same way. *)

\* The disposition asks for a stop, or the Host may not be kept.
ShouldStop(p, disposition) ==
    \/ disposition = "Stop" \/ entry[p].retire \/ entry[p].state # "Busy"
    \/ ~entry[p].resident /\ p \notin background

\* stop_outcome
StopOutcome(l, stopped) ==
    IF l \in receipts \/ (stopped /\ byRun[l] = None) THEN "reaped" ELSE "other"

NoLease(l) == IF l \in receipts THEN "reaped" ELSE "other"

\* A resumed session turned out to be unusable: the Host is stopped and another acquired,
\* at the same epoch.  Codex launches acquire once.
ReplaceHost(l) ==
    /\ launch[l] = "acquired" /\ ~Codex
    /\ \E p \in Process : entry[p].state = "absent"   \* bound: one reservation is left
    /\ IF byRun[l] = None
       THEN /\ launch' = [launch EXCEPT ![l] = Ensure]
            /\ UNCHANGED <<entry, idleLru, stop, wait>>
       ELSE /\ PlanStop({byRun[l]})
            /\ wait' = Waits(<<"launch", l>>, {byRun[l]})
            /\ launch' = [launch EXCEPT ![l] = "replacing"]
    /\ UNCHANGED <<byRun, residents, receipts, shutdown, deleting, startup, sweeping, outside, disk,
                   handler, cleaner, before, acked, fence, policy, kind, restarts>>

HostReplaced(l) ==
    /\ launch[l] = "replacing" /\ Answered(<<"launch", l>>)
    /\ launch' = [launch EXCEPT ![l] = Ensure]
    /\ wait' = Forget(<<"launch", l>>)
    /\ UNCHANGED <<fleet, tasks, outside, disk, handler, cleaner, before, acked, fence, policy,
                   kind, restarts>>

\* The terminal handler gives the Host back.
Release(l, disposition) ==
    /\ launch[l] = "bound" /\ handler[l] = "idle"
    /\ IF byRun[l] = None
       THEN /\ handler' = [handler EXCEPT ![l] = NoLease(l)]
            /\ UNCHANGED <<entry, idleLru, stop, wait>>
       ELSE IF ShouldStop(byRun[l], disposition)
       THEN /\ PlanStop({byRun[l]})
            /\ wait' = Waits(<<"handler", l>>, {byRun[l]})
            /\ handler' = [handler EXCEPT ![l] = "stopping"]
       ELSE /\ handler' = [handler EXCEPT ![l] = "checking"]
            /\ UNCHANGED <<entry, idleLru, stop, wait>>
    /\ UNCHANGED <<byRun, residents, receipts, shutdown, deleting, startup, sweeping, outside, disk,
                   launch, cleaner, before, acked, fence, policy, kind, restarts>>

\* mutant: nothing is checked again
FinishReleaseUnchecked(l, quiescent) ==
    LET p == byRun[l]
    IN /\ handler[l] = "checking" /\ p # None
       /\ entry' = [entry EXCEPT ![p].state = "IdleWarm", ![p].lease = None]
       /\ byRun' = [byRun EXCEPT ![l] = None]
       /\ idleLru' = idleLru \cup {p}
       /\ handler' = [handler EXCEPT ![l] = "reusable"]
       /\ UNCHANGED <<stop, wait, residents, receipts, shutdown, deleting, startup, sweeping,
                      outside, disk, launch, cleaner, before, acked, fence, policy, kind, restarts>>

\* The Host was asked whether it is quiescent without the lock; everything is checked again.
FinishRelease(l, quiescent) ==
    LET p == byRun[l]
        reusable == /\ quiescent /\ p # None
                    /\ entry[p].state = "Busy" /\ ~entry[p].retire /\ Healthy(p)
    IN /\ handler[l] = "checking"
       /\ \/ /\ p = None
             /\ handler' = [handler EXCEPT ![l] = NoLease(l)]
             /\ UNCHANGED <<entry, byRun, idleLru, stop, wait>>
          \/ /\ p # None /\ reusable
             /\ entry' = [entry EXCEPT ![p].state = "IdleWarm", ![p].lease = None]
             /\ byRun' = [byRun EXCEPT ![l] = None]
             /\ idleLru' = idleLru \cup {p}
             /\ handler' = [handler EXCEPT ![l] = "reusable"]
             /\ UNCHANGED <<stop, wait>>
          \/ /\ p # None /\ ~reusable
             /\ PlanStop({p})
             /\ wait' = Waits(<<"handler", l>>, {p})
             /\ handler' = [handler EXCEPT ![l] = "stopping"]
             /\ UNCHANGED byRun
       /\ UNCHANGED <<residents, receipts, shutdown, deleting, startup, sweeping, outside, disk,
                      launch, cleaner, before, acked, fence, policy, kind, restarts>>

ReleaseAnswered(l) ==
    /\ handler[l] = "stopping" /\ Answered(<<"handler", l>>)
    /\ handler' = [handler EXCEPT ![l] = StopOutcome(l, ~Refused(<<"handler", l>>))]
    /\ wait' = Forget(<<"handler", l>>)
    /\ UNCHANGED <<fleet, tasks, outside, disk, launch, cleaner, before, acked, fence, policy,
                   kind, restarts>>

\* retire_agent_run_on_host: a trusted failure forbids reuse before anything slow.
RetireRun(l) ==
    /\ byRun[l] # None /\ launch[l] = "bound"
    /\ entry[byRun[l]].state # "Starting" /\ ~entry[byRun[l]].retire
    /\ entry' = [entry EXCEPT ![byRun[l]].retire = TRUE]
    /\ UNCHANGED <<byRun, residents, idleLru, receipts, shutdown, deleting, tasks, outside, disk,
                   callers, policy, kind, restarts>>

-----------------------------------------------------------------------------
(* The cleanup worker: cleanup_agent_run_runtime, one attempt. *)

ReadLaunch(l) ==
    /\ cleaner[l] = "idle" /\ l \notin acked /\ launch[l] # "idle"
    /\ cleaner' = [cleaner EXCEPT ![l] = "read"]
    /\ before' = [before EXCEPT ![l] = InProgress(l)]
    /\ UNCHANGED <<fleet, tasks, outside, disk, launch, handler, acked, wait, fence, policy,
                   kind, restarts>>

\* confirmed_stop: every record that names the lease is of a reaped process.
ConfirmedStop(l) ==
    LET named == {p \in Process : record[p].lease = l}
    IN named # {} /\ \A p \in named : record[p].state = "reaped"

\* mutant: what was reaped before is forgotten
NoLeaseIsStoppedNow(l) == ~Codex \/ before[l] \/ launch[l] = "failed"

\* Without a lease a Codex cleanup needs evidence: a receipt, or a launch that is known and
\* bound no route.  Other Runtimes take a missing lease as stopped.
NoLeaseIsStopped(l) ==
    ~Codex \/ l \in receipts \/ ConfirmedStop(l) \/ before[l] \/ launch[l] = "failed"

\* mutant: one proof is enough
AttemptedOnce(l, stopped) ==
    cleaner' = [cleaner EXCEPT ![l] = IF stopped THEN "proven" ELSE "idle"]

\* After a proof that began during the launch the worker waits for its end and stops again.
Attempted(l, stopped) ==
    cleaner' = [cleaner EXCEPT ![l] = IF ~stopped THEN "idle"
                                      ELSE IF before[l] THEN "relaunch" ELSE "proven"]

\* The fleet is busy, or the launch goes on, until the deadline.
StopDelayed(l) ==
    /\ cleaner[l] \in {"read", "relaunch"}
    /\ cleaner' = [cleaner EXCEPT ![l] = "idle"]
    /\ UNCHANGED <<fleet, tasks, outside, disk, launch, handler, before, acked, wait, fence,
                   policy, kind, restarts>>

\* stop_agent_run_until_with_outcome
StopAgentRun(l) ==
    /\ cleaner[l] = "read"
    /\ IF byRun[l] = None
       THEN /\ Attempted(l, NoLeaseIsStopped(l))
            /\ UNCHANGED <<entry, idleLru, stop, wait>>
       ELSE /\ entry' = [entry EXCEPT ![byRun[l]] = [StopEntry(byRun[l]) EXCEPT !.retire = TRUE]]
            /\ idleLru' = idleLru \ {p \in {byRun[l]} : Launches(p)}
            /\ stop' = [stop EXCEPT ![byRun[l]] = IF Launches(byRun[l]) THEN "reaping" ELSE @]
            /\ wait' = Waits(<<"cleaner", l>>, {byRun[l]})
            /\ cleaner' = [cleaner EXCEPT ![l] = "stopping"]
    /\ UNCHANGED <<byRun, residents, receipts, shutdown, deleting, startup, sweeping, outside, disk,
                   launch, handler, before, acked, fence, policy, kind, restarts>>

\* The stop ended, or the deadline passed before.
StopAnswered(l) ==
    /\ cleaner[l] = "stopping"
    /\ LET stopped == Answered(<<"cleaner", l>>) /\ ~Refused(<<"cleaner", l>>)
       IN Attempted(l, StopOutcome(l, stopped) = "reaped")
    /\ wait' = Forget(<<"cleaner", l>>)
    /\ UNCHANGED <<fleet, tasks, outside, disk, launch, handler, before, acked, fence, policy,
                   kind, restarts>>

StopAfterLaunch(l) ==
    /\ cleaner[l] = "relaunch" /\ ~InProgress(l)
    /\ cleaner' = [cleaner EXCEPT ![l] = "read"]
    /\ before' = [before EXCEPT ![l] = FALSE]
    /\ UNCHANGED <<fleet, tasks, outside, disk, launch, handler, acked, wait, fence, policy,
                   kind, restarts>>

\* acknowledge_cleanup, after the durable acknowledgement: by the worker that has the proof,
\* or by the terminal handler.  A Codex terminal needs a confirmed release.
Acknowledge(l) ==
    /\ l \notin acked
    /\ \/ cleaner[l] = "proven"
       \/ handler[l] \in {"reusable", "reaped"} \cup (IF Codex THEN {} ELSE {"other"})
    /\ acked' = acked \cup {l}
    /\ cleaner' = [cleaner EXCEPT ![l] = IF @ = "proven" THEN "idle" ELSE @]
    /\ receipts' = receipts \ {l}
    /\ record' = [p \in Process |->
                    IF record[p].lease # l THEN record[p]
                    ELSE IF record[p].state = "reaped" THEN NoRecord
                    ELSE [record[p] EXCEPT !.lease = None]]
    /\ UNCHANGED <<entry, byRun, residents, idleLru, shutdown, deleting, tasks, outside, stale,
                   launch, handler, before, wait, fence, policy, kind, restarts>>

-----------------------------------------------------------------------------
(* drive_startup: the fleet owns the start, whoever waits for it. *)

\* mutant: only those who cancelled are answered
StartFailedSilently == [cancel |-> "yes"]

\* What is heard when a start ends without a Host.
StartFailed == [start |-> "no", cancel |-> "yes"]

\* fail_start_operation: no Host exists, the reservation goes.
FailStart(p) ==
    /\ Remove(p)
    /\ startup' = [startup EXCEPT ![p] = "over"]
    /\ wait' = Answer(p, StartFailed)
    /\ UNCHANGED <<shutdown, deleting, stop, sweeping, background, disk, launch, handler, cleaner,
                   before, acked, fence, policy, kind, restarts>>

\* The eviction could not be reaped, or the reservation was cancelled.
StartRefused(p) ==
    /\ startup[p] = "denied" \/ (startup[p] = "begin" /\ entry[p].cancelled)
    /\ FailStart(p)
    /\ UNCHANGED os

Spawn(p) ==
    /\ startup[p] = "begin" /\ ~entry[p].cancelled
    /\ startup' = [startup EXCEPT ![p] = "spawning"]
    /\ os' = [os EXCEPT ![p] = "alive"]
    /\ UNCHANGED <<fleet, stop, sweeping, background, disk, callers, policy, kind, restarts>>

\* A spawn that fails leaves no process behind.
SpawnFails(p) ==
    /\ startup[p] = "spawning"
    /\ os' = [os EXCEPT ![p] = "dead"]
    /\ FailStart(p)

\* The ownership is recorded before anything can go wrong with the Host.  Writing the
\* record may fail.
SpawnReturns(p, recorded) ==
    /\ startup[p] = "spawning" /\ (recorded => os[p] = "alive")
    /\ record' = IF recorded
                 THEN [record EXCEPT ![p] = [lease |-> IF Codex THEN entry[p].lease ELSE None,
                                             state |-> "live"]]
                 ELSE record
    /\ startup' = [startup EXCEPT ![p] = IF Healthy(p) /\ ~entry[p].cancelled /\ recorded
                                         THEN "spawned" ELSE "retiring"]
    /\ UNCHANGED <<fleet, stop, sweeping, outside, stale, callers, policy, kind, restarts>>

\* mutant: the reservation is committed as it was planned
CommitStartUnchecked(p) ==
    /\ startup[p] = "spawned"
    /\ entry' = [entry EXCEPT ![p].state = "Busy"]
    /\ startup' = [startup EXCEPT ![p] = "committed"]
    /\ UNCHANGED <<byRun, residents, idleLru, receipts, shutdown, deleting, stop, sweeping, outside,
                   disk, callers, policy, kind, restarts>>

\* The Host goes to work if nobody retired or fenced the reservation meanwhile.
CommitStart(p) ==
    /\ startup[p] = "spawned"
    /\ IF /\ entry[p].state = "Starting" /\ ~entry[p].retire /\ ~entry[p].cancelled
          /\ CampOf[entry[p].scope] \notin deleting
       THEN /\ entry' = [entry EXCEPT ![p].state = "Busy"]
            /\ startup' = [startup EXCEPT ![p] = "committed"]
       ELSE /\ startup' = [startup EXCEPT ![p] = "retiring"]
            /\ UNCHANGED entry
    /\ UNCHANGED <<byRun, residents, idleLru, receipts, shutdown, deleting, stop, sweeping, outside,
                   disk, callers, policy, kind, restarts>>

\* The lease is handed to those who wait, outside the lock.
AnswerStart(p) ==
    /\ startup[p] = "committed"
    /\ startup' = [startup EXCEPT ![p] = "over"]
    /\ wait' = Answer(p, [start |-> "yes", cancel |-> "no"])
    /\ UNCHANGED <<fleet, stop, sweeping, outside, disk, launch, handler, cleaner, before, acked,
                   fence, policy, kind, restarts>>

\* finish_stop: the receipt on disk.
FinishedRecord(p) == [record EXCEPT ![p] = IF @.lease # None THEN [@ EXCEPT !.state = "reaped"]
                                           ELSE NoRecord]

\* retire_failed_start: a Host that cannot be reaped keeps its lease and its capacity.
RetireStart(p, reaped) ==
    /\ startup[p] = "retiring"
    /\ startup' = [startup EXCEPT ![p] = "over"]
    /\ IF reaped
       THEN /\ Remove(p)
            /\ os' = [os EXCEPT ![p] = "dead"]
            /\ record' = FinishedRecord(p)
       ELSE /\ entry' = [entry EXCEPT ![p].state = "Stopping", ![p].retire = TRUE]
            /\ UNCHANGED <<byRun, residents, idleLru, receipts, os, record>>
    /\ wait' = Answer(p, StartFailed)
    /\ UNCHANGED <<shutdown, deleting, stop, sweeping, background, stale, launch, handler, cleaner,
                   before, acked, fence, policy, kind, restarts>>

-----------------------------------------------------------------------------
(* drive_stop *)

\* The process is reaped and its entry removed.
StopReaped(p) ==
    /\ stop[p] = "reaping"
    /\ os' = [os EXCEPT ![p] = "dead"]
    /\ Remove(p)
    /\ stop' = [stop EXCEPT ![p] = "removed"]
    /\ wait' = Answer(p, [retire |-> "yes"])
    /\ UNCHANGED <<shutdown, deleting, startup, sweeping, background, disk, launch, handler,
                   cleaner, before, acked, fence, policy, kind, restarts>>

\* The timeout passed: restore_stopping_resident_capacity.
StopExpired(p) ==
    /\ stop[p] = "reaping"
    /\ residents' = IF entry[p].resident THEN residents \cup {p} ELSE residents
    /\ stop' = [stop EXCEPT ![p] = "expired"]
    /\ wait' = Answer(p, [retire |-> "kept"])
    /\ UNCHANGED <<entry, byRun, idleLru, receipts, shutdown, deleting, startup, sweeping, outside,
                   disk, launch, handler, cleaner, before, acked, fence, policy, kind, restarts>>

\* The record is finished and the waiters are answered, a start that needs the capacity too.
CompleteStop(p) ==
    LET reaped == stop[p] = "removed"
    IN /\ stop[p] \in {"removed", "expired"}
       /\ stop' = [stop EXCEPT ![p] = "over"]
       /\ sweeping' = sweeping \ {p}
       /\ record' = IF reaped THEN FinishedRecord(p) ELSE record
       /\ wait' = Answer(p, [stop |-> IF reaped THEN "yes" ELSE "no",
                             awaited |-> IF reaped THEN "yes" ELSE "failed"])
       /\ startup' = [q \in Process |-> IF startup[q] = "evicting" /\ entry[q].evicts = p
                                        THEN IF reaped THEN "begin" ELSE "denied"
                                        ELSE startup[q]]
       /\ UNCHANGED <<fleet, outside, stale, launch, handler, cleaner, before, acked, fence,
                      policy, kind, restarts>>

-----------------------------------------------------------------------------
(* Fences, invalidation, the sweeper, the end of the fleet. *)

\* install_camp_deletion_cutover and mark_camp_deleting: no answer is awaited.
MarkCampDeleting(c) ==
    /\ c \notin deleting
    /\ deleting' = deleting \cup {c}
    /\ PlanStop(InCamp(c))
    /\ UNCHANGED <<byRun, residents, receipts, shutdown, startup, sweeping, outside, disk, callers,
                   policy, kind, restarts>>

\* force_fence_camp_for_deletion
ForceFence(c) ==
    /\ fence[c] = "idle" /\ c \in deleting
    /\ PlanStop(InCamp(c))
    /\ wait' = Waits(<<"fence", c>>, InCamp(c))
    /\ fence' = [fence EXCEPT ![c] = "waiting"]
    /\ UNCHANGED <<byRun, residents, receipts, shutdown, deleting, startup, sweeping, outside, disk,
                   launch, handler, cleaner, before, acked, policy, kind, restarts>>

\* Every stop was confirmed in time and no process of the Thread is left.
FenceHolds(c) == Answered(<<"fence", c>>) /\ ~Refused(<<"fence", c>>) /\ InCamp(c) = {}

FenceAnswered(c) ==
    /\ fence[c] = "waiting"
    /\ fence' = [fence EXCEPT ![c] = IF FenceHolds(c)
                                     THEN "fenced" ELSE "idle"]
    /\ wait' = Forget(<<"fence", c>>)
    /\ UNCHANGED <<fleet, tasks, outside, disk, launch, handler, cleaner, before, acked, policy,
                   kind, restarts>>

\* fence_camp_for_attachment_mutation: only when nothing of the Thread starts or works.
FenceAttachments(c) ==
    /\ \A p \in InCamp(c) : entry[p].state \in {"IdleWarm", "Stopping"}
    /\ InCamp(c) # {}
    /\ PlanStop(InCamp(c))
    /\ UNCHANGED <<byRun, residents, receipts, shutdown, deleting, startup, sweeping, outside, disk,
                   callers, policy, kind, restarts>>

\* What invalidate_camp, invalidate_member and invalidate_adapter match.
Matching == {InCamp(c) : c \in Camp} \cup {OfMember(Present, m) : m \in Member} \cup {Present}

\* invalidate_matching: a Host that works retires when its run ends.
Invalidate(P) ==
    LET busy == {p \in P : entry[p].state = "Busy"}
    IN /\ P # {}
       /\ entry' = [p \in Process |-> IF p \in busy THEN [entry[p] EXCEPT !.retire = TRUE]
                                      ELSE IF p \in P THEN StopEntry(p) ELSE entry[p]]
       /\ idleLru' = idleLru \ {p \in P \ busy : Launches(p)}
       /\ stop' = [p \in Process |-> IF p \in P \ busy /\ Launches(p) THEN "reaping" ELSE stop[p]]
       /\ UNCHANGED <<byRun, residents, receipts, shutdown, deleting, startup, sweeping, outside,
                      disk, callers, policy, kind, restarts>>

\* sweep_idle: Hosts that were idle too long or died, and every stop that failed.  The sweeper
\* waits for all these stops, without a deadline, before it sweeps again.
SweepIdle(expired) ==
    LET P == expired \cup {p \in Present : \/ entry[p].state = "IdleWarm"
                                              /\ (~Healthy(p) \/ entry[p].retire)
                                           \/ entry[p].state = "Stopping"}
    IN /\ expired \subseteq {p \in Present \ background : entry[p].state = "IdleWarm"}
       /\ sweeping = {} /\ P # {}
       /\ PlanStop(P)
       /\ sweeping' = P
       /\ UNCHANGED <<byRun, residents, receipts, shutdown, deleting, startup, outside, disk,
                      callers, policy, kind, restarts>>

\* shutdown_all, shutdown_all_until
ShutdownAll ==
    /\ ~shutdown
    /\ shutdown' = TRUE
    /\ PlanStop(Present)
    /\ UNCHANGED <<byRun, residents, receipts, deleting, startup, sweeping, outside, disk, callers,
                   policy, kind, restarts>>

\* force_kill_current_generation: the deadline of the shutdown passed, with or without a plan;
\* what is on record is killed behind the table's back.
ForceKill ==
    LET owned == {p \in Process \ stale : record[p].state = "live" /\ os[p] = "alive"}
    IN /\ owned # {}
       /\ os' = [p \in Process |-> IF p \in owned THEN "dead" ELSE os[p]]
       /\ UNCHANGED <<fleet, tasks, background, disk, callers, policy, kind, restarts>>

-----------------------------------------------------------------------------
(* The processes, and the crash of the core. *)

HostExit(p) ==
    /\ os[p] = "alive" /\ os' = [os EXCEPT ![p] = "dead"]
    /\ UNCHANGED <<fleet, tasks, background, disk, callers, policy, kind, restarts>>

BackgroundTasks(p) ==
    /\ kind = "zcode" /\ entry[p].state \in {"Busy", "IdleWarm"}
    /\ background' = IF p \in background THEN background \ {p} ELSE background \cup {p}
    /\ UNCHANGED <<fleet, tasks, os, disk, callers, policy, kind, restarts>>

\* The memory is lost; processes, records and acknowledgements are not, and the deletions
\* are marked again before anything can launch.
Crash ==
    /\ restarts < MaxRestart
    /\ restarts' = restarts + 1
    /\ entry' = [p \in Process |-> IF p \in Present THEN [entry[p] EXCEPT !.state = "removed"]
                                   ELSE entry[p]]
    /\ byRun' = [l \in Lease |-> None]
    /\ residents' = {} /\ idleLru' = {} /\ receipts' = {} /\ shutdown' = FALSE
    /\ startup' = [p \in Process |-> IF startup[p] = "none" THEN "none" ELSE "over"]
    /\ stop' = [p \in Process |-> IF stop[p] = "none" THEN "none" ELSE "over"] /\ sweeping' = {}
    /\ stale' = {p \in Process : record[p].state = "live"}
    /\ launch' = [l \in Lease |-> IF launch[l] = "idle" THEN "idle" ELSE "lost"]
    /\ handler' = [l \in Lease |-> "idle"] /\ cleaner' = [l \in Lease |-> "idle"]
    /\ before' = [l \in Lease |-> FALSE]
    /\ wait' = [c \in Caller |-> [p \in Process |-> "none"]]
    /\ fence' = [c \in Camp |-> "idle"]
    /\ UNCHANGED <<deleting, outside, record, acked, policy, kind>>

\* cleanup_stale: a process of an earlier generation is killed, or known to be gone, and
\* its record becomes a receipt.
CleanupStale(p) ==
    /\ p \in stale /\ record[p].state = "live"
    /\ os' = [os EXCEPT ![p] = "dead"]
    /\ record' = FinishedRecord(p)
    /\ stale' = stale \ {p}
    /\ UNCHANGED <<fleet, tasks, background, callers, policy, kind, restarts>>

-----------------------------------------------------------------------------
LaunchStep(l) ==
    \/ BeginLaunch(l) \/ RetireIncompatible(l) \/ AwaitRetirement(l) \/ RetirementsAnswered(l)
    \/ AcquireBlocked(l) \/ AcquireReuse(l) \/ RegisterReuse(l)
    \/ \E p \in Process : AcquireReserve(l, p)
    \/ StartAnswered(l) \/ BindRoute(l) \/ FailLaunch(l)
    \/ ReplaceHost(l) \/ HostReplaced(l)

HandlerStep(l) ==
    \/ \E d \in {"Reusable", "Stop"} : Release(l, d)
    \/ \E q \in BOOLEAN : FinishRelease(l, q)
    \/ ReleaseAnswered(l) \/ RetireRun(l)

CleanerStep(l) ==
    \/ ReadLaunch(l) \/ StopAgentRun(l) \/ StopDelayed(l) \/ StopAnswered(l)
    \/ StopAfterLaunch(l) \/ Acknowledge(l)

StartupStep(p) ==
    \/ StartRefused(p) \/ Spawn(p) \/ SpawnFails(p) \/ CommitStart(p) \/ AnswerStart(p)
    \/ \E b \in BOOLEAN : SpawnReturns(p, b) \/ RetireStart(p, b)

StopStep(p) == StopReaped(p) \/ StopExpired(p) \/ CompleteStop(p)

FenceStep(c) ==
    \/ MarkCampDeleting(c) \/ ForceFence(c) \/ FenceAnswered(c) \/ FenceAttachments(c)

FleetStep ==
    \/ \E P \in Matching : Invalidate(P)
    \/ \E expired \in SUBSET idleLru : SweepIdle(expired)
    \/ ShutdownAll \/ ForceKill

ProcessStep(p) == HostExit(p) \/ BackgroundTasks(p) \/ CleanupStale(p)

Next ==
    \/ \E l \in Lease : LaunchStep(l) \/ HandlerStep(l) \/ CleanerStep(l)
    \/ \E p \in Process : StartupStep(p) \/ StopStep(p) \/ ProcessStep(p)
    \/ \E c \in Camp : FenceStep(c)
    \/ FleetStep \/ Crash

Spec == Init /\ [][Next]_vars

-----------------------------------------------------------------------------
(* Safety *)

\* process_by_run, the lease in each entry and idle_lru say the same: a lease names the one
\* process that carries it, and the idle list holds exactly the warm Hosts, which carry no
\* lease and are not marked to retire (plan_acquire takes them without another look).
LeaseBookkeeping ==
    /\ \A l \in Lease, p \in Process : byRun[l] = p <=> p \in Present /\ entry[p].lease = l
    /\ idleLru = {p \in Process : entry[p].state = "IdleWarm"}
    /\ \A p \in idleLru : entry[p].lease = None /\ ~entry[p].retire

\* A cleanup that is proven is the truth about the processes: whatever timeout, late start
\* or exit came between, no process that was started for the lease, or leased to it last, is
\* alive.  For Codex this includes what the terminal handler acknowledges, and crashes.
CleanupProven ==
    Codex \/ restarts = 0 =>
        \A l \in Lease, p \in Process :
            /\ cleaner[l] = "proven" \/ (Codex /\ l \in acked)
            /\ entry[p].lease = l
            => os[p] # "alive"

\* One native session has one writer: a Codex binding never has two live processes, the
\* one that was retired and the one that takes over included; of a Hermes binding one live
\* process at most is leased, whatever was given back and is warm or being stopped; and the
\* live processes of a DSH binding were started with the same policy.
SingleWriter ==
    restarts = 0 =>
        \A p, q \in Process :
            p # q /\ os[p] = "alive" /\ os[q] = "alive" /\ entry[p].scope = entry[q].scope =>
                /\ ~Codex
                /\ kind = "hermes" => None \in {entry[p].lease, entry[q].lease}
                /\ kind = "dsh" => entry[p].policy = entry[q].policy

\* However evictions, failed stops and starts interleave, the live processes that count as
\* resident stay within the global limit, and those of a member that are not being stopped
\* within the limit of a member.  A ZCode Host that was started as a burst can be evicted like
\* a resident one when its background tasks end; for ZCode nothing is promised.
LiveResident == {p \in Present : entry[p].resident /\ os[p] = "alive"}
Serving == {p \in Present : entry[p].resident /\ entry[p].state # "Stopping"}
ResidentBound ==
    kind # "zcode" =>
        /\ Cardinality(LiveResident) <= MaxGlobal
        /\ \A m \in Member : Cardinality(OfMember(Serving, m)) <= MaxPerMember

\* What the foundational invariants say of the limits: they hold for every resident Host
\* that is kept, one that is being stopped included.
ResidentQuota ==
    /\ Cardinality(LiveResident) <= MaxGlobal
    /\ \A m \in Member : Cardinality(OfMember(LiveResident, m)) <= MaxPerMember

\* A fenced Thread has no live process, and none appears: its deletion may remove files.
FencedQuiet ==
    restarts = 0 =>
        \A c \in Camp, p \in Process :
            fence[c] = "fenced" /\ entry[p].scope # None /\ CampOf[entry[p].scope] = c
            => os[p] # "alive"

\* No Host starts to work for an execution once the fleet shuts down or the Thread is being
\* deleted, and a Host that is being stopped is never handed out again.
NoLateWork ==
    [][ \A p \in Process :
          entry'[p].state = "Busy" /\ entry[p].state # "Busy" =>
              /\ ~shutdown /\ CampOf[entry'[p].scope] \notin deleting
              /\ entry[p].state # "Stopping" ]_vars

\* The tables of the fleet, its limits, its fences and the processes agree whenever no lock is
\* held.
FleetAgrees == TypeOK /\ LeaseBookkeeping /\ ResidentBound /\ FencedQuiet

-----------------------------------------------------------------------------
(* Liveness.  The fleet's own tasks run; a process that is asked to stop again and again is
   reaped at last; the sweeper ticks; an execution that was launched ends some day, by its
   terminal or by a stop, and the dispatcher repeats a cleanup that is not proven; the
   deletion of a Thread is retried.  No execution, terminal, fence or exit need ever come. *)
Fairness ==
    /\ \A l \in Lease : WF_vars(launch[l] # "idle" /\ LaunchStep(l))
    /\ \A l \in Lease : WF_vars(ReadLaunch(l)) /\ SF_vars(StopAgentRun(l))
                        /\ WF_vars(StopAnswered(l) \/ StopAfterLaunch(l)) /\ WF_vars(Acknowledge(l))
    /\ \A p \in Process : WF_vars(StartupStep(p)) /\ WF_vars(StopStep(p)) /\ SF_vars(StopReaped(p))
    /\ \A c \in Camp : WF_vars(ForceFence(c)) /\ WF_vars(FenceAnswered(c))
    /\ WF_vars(\E expired \in SUBSET idleLru : SweepIdle(expired))

FairSpec == Spec /\ Fairness

\* A launch planned a stop and failed before it came to it: nothing ever drives this stop.
Abandoned(p) ==
    stop[p] = "planned" /\ \A l \in Lease : wait[<<"launch", l>>][p] # "planned"

\* A Host that is being stopped is gone at last, whoever gave up waiting for it: the sweeper
\* repeats a stop that expired, and a start that could not be reaped.  Only an abandoned stop
\* prevents it, that of any Host, because the sweeper waits for its end.
StopsEnd ==
    \A p \in Process : entry[p].state = "Stopping" ~> \/ entry[p].state = "removed"
                                                    \/ \E q \in Process : Abandoned(q)

\* A launch comes to its end, though its start was cancelled, refused its eviction or failed,
\* or a Host of another policy was kept: it never stalls on what it planned itself, only on a
\* stop that an earlier launch of its binding abandoned.
LaunchEnds ==
    \A l \in Lease : InProgress(l) ~>
        \/ ~InProgress(l)
        \/ launch[l] = "retiring" /\ \E p \in InScope(ScopeOf[l]) : Abandoned(p)

\* The cleanup of every execution is acknowledged at last, so its lane goes on: the evidence
\* that a Codex cleanup demands is never lost while the core runs.  Only a launch that waits
\* for an abandoned stop keeps its cleanup waiting.
CleanupSettles ==
    \A l \in Lease : launch[l] # "idle" ~>
        \/ l \in acked
        \/ launch[l] = "retiring" /\ \E p \in InScope(ScopeOf[l]) : Abandoned(p)

\* The deletion of a Thread gets past its Runtimes, an abandoned one excepted.
DeletionFences ==
    \A c \in Camp : c \in deleting ~>
        fence[c] = "fenced" \/ \E p \in InCamp(c) : Abandoned(p)

\* Whoever waits for the fleet is answered: a stop, a launch, a deletion.
WaitersAnswered == StopsEnd /\ LaunchEnds /\ DeletionFences

\* What the plan of v1.45 says of the stops that the fleet owns: each comes to an end that all
\* who share it see.
StopsFinish ==
    \A p \in Process : stop[p] \in Unfinished ~> stop[p] \notin Unfinished

=============================================================================
