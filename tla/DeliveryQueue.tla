---------------------------- MODULE DeliveryQueue ----------------------------
(***************************************************************************)
(* One lane of Rovai: the queue of Deliveries addressed to one member in   *)
(* one Thread, the batch AgentRuns that claim them, the inputs those runs  *)
(* submit to an external Runtime, the supplements steered into a live      *)
(* turn, the terminal that settles everything, the cleanup the next claim  *)
(* waits for, and the recovery after a lost Host or a crash of the core.   *)
(*                                                                         *)
(* Every action is one database transaction or one step of a Rovai task    *)
(* that holds no database lock; the actions named Native... and Host...    *)
(* are the Runtime process, which is not part of the program.              *)
(***************************************************************************)
EXTENDS Integers, FiniteSets

CONSTANTS
    MaxDelivery,   \* Deliveries ever enqueued in the lane
    MaxRun,        \* batch runs ever created; MaxDelivery of them always suffice
    MaxEpoch,      \* dispatches of one run
    MaxRestart,    \* crashes of the core
    Codex          \* the member's Runtime is Codex: every terminal owes a cleanup

ASSUME BoundsAssumption ==
    /\ MaxDelivery \in Nat /\ MaxRun \in Nat /\ MaxEpoch \in Nat \ {0}
    /\ MaxRestart \in Nat /\ Codex \in BOOLEAN

Delivery == 1..MaxDelivery      \* in queue order; a message and its Delivery are one
Run == 1..MaxRun                \* in creation order
Epoch == 1..MaxEpoch
None == 0                       \* NULL: no run, no epoch, no source

VARIABLES
    delivery,    \* camp_message_delivery rows
    source,      \* camp_run_continuation: the run a Delivery continues, None for a message
    recall,      \* camp_message.recall_state
    run,         \* agent_run rows
    input,       \* agent_run_input: the messages of a run
    start,       \* runtime_input_delivery rows of kind start, per run and epoch
    steer,       \* runtime_input_delivery rows of kind steer, per Delivery
    steerRun,    \* the run such a row belongs to
    startFate,   \* what the Runtime did with a submitted start input
    steerFate,   \* what the Runtime did with a submitted supplement
    host,        \* the Runtime process of a run
    launch,      \* the launch future in flight: the epoch it was dispatched for
    sender,      \* the supplement sender of a Delivery
    owned,       \* runs dispatched by this generation of the core
    recovering,  \* runs in the network coordinator's memory
    completed,   \* the Mission of the Thread is completed
    restarts     \* crashes so far

rows == <<delivery, source, recall, run, input, start, steer, steerRun>>
native == <<startFate, steerFate, host>>
memory == <<launch, sender, owned, recovering>>
vars == <<rows, native, memory, completed, restarts>>

DeliveryStatus == {"absent", "waiting", "claimed", "settled", "cancelled", "failed"}
FailureCode == {"none", "run", "unknown", "preparation", "unavailable"}
InputStatus == {"none", "prepared", "sent", "accepted", "unknown", "not_accepted"}
Fate == {"none", "open", "taken", "refused", "lost"}
RunStatus == {"absent", "queued", "running", "waiting", "succeeded", "failed", "cancelled"}
WaitReason == {"none", "runtime_recovery", "network_recovery", "network_blocked",
               "delivery_unknown"}
Cleanup == {"none", "pending", "acked"}
SenderStep == {"none", "picked", "resolving", "prepared", "sent"}

Active == {"queued", "running", "waiting"}
Ended == {"succeeded", "failed", "cancelled"}
AnsweredOnly == {"accepted", "unknown"}

Uncertain == {"sent", "accepted", "unknown"}   \* the Runtime may have the input

NoDelivery == [status |-> "absent", mode |-> "start", run |-> None, epoch |-> None,
               code |-> "none"]
Waiting == [NoDelivery EXCEPT !.status = "waiting"]
NoRun == [status |-> "absent", wait |-> "none", epoch |-> None, cleanup |-> "none"]
Idle == [pc |-> "none", run |-> None, epoch |-> None]

\* A waiting Delivery has no trace of an execution.
DeliveryRow == {row \in [status : DeliveryStatus, mode : {"start", "steer"},
                         run : Run \cup {None}, epoch : Epoch \cup {None},
                         code : FailureCode] :
                  row.status \in {"absent", "waiting"} =>
                      row = [NoDelivery EXCEPT !.status = row.status]}

\* Only a dispatched run has an epoch, only a waiting one a reason, only an ended one a debt.
RunRow == {row \in [status : RunStatus, wait : WaitReason, epoch : Epoch \cup {None},
                    cleanup : Cleanup] :
             /\ row.status \in {"absent", "queued"} => row.epoch = None
             /\ row.status \in {"running", "waiting"} => row.epoch # None
             /\ row.wait # "none" => row.status = "waiting"
             /\ row.cleanup # "none" => row.status \in Ended}

\* A sender at work knows the execution it was picked for.
SenderRow == {row \in [pc : SenderStep, run : Run \cup {None}, epoch : Epoch \cup {None}] :
                row.pc # "none" => row.run # None /\ row.epoch # None}

\* Every state is well typed.
TypeOK ==
    /\ delivery \in [Delivery -> DeliveryRow]
    /\ source \in [Delivery -> Run \cup {None}]
    /\ recall \in [Delivery -> {"recallable", "closed", "withdrawn"}]
    /\ run \in [Run -> RunRow]
    /\ input \in [Run -> SUBSET Delivery]
    /\ start \in [Run -> [Epoch -> InputStatus]]
    /\ steer \in [Delivery -> InputStatus]
    /\ steerRun \in [Delivery -> Run \cup {None}]
    /\ startFate \in [Run -> [Epoch -> Fate]]
    /\ steerFate \in [Delivery -> Fate]
    /\ host \in [Run -> {"none", "idle", "turn", "gone"}]
    /\ launch \in [Run -> Epoch \cup {None}]
    /\ sender \in [Delivery -> SenderRow]
    /\ owned \in SUBSET Run
    /\ recovering \in SUBSET Run
    /\ completed \in BOOLEAN
    /\ restarts \in 0..MaxRestart

Init ==
    /\ delivery = [d \in Delivery |-> NoDelivery]
    /\ source = [d \in Delivery |-> None]
    /\ recall = [d \in Delivery |-> "closed"]
    /\ run = [r \in Run |-> NoRun]
    /\ input = [r \in Run |-> {}]
    /\ start = [r \in Run |-> [e \in Epoch |-> "none"]]
    /\ steer = [d \in Delivery |-> "none"]
    /\ steerRun = [d \in Delivery |-> None]
    /\ startFate = [r \in Run |-> [e \in Epoch |-> "none"]]
    /\ steerFate = [d \in Delivery |-> "none"]
    /\ host = [r \in Run |-> "none"]
    /\ launch = [r \in Run |-> None]
    /\ sender = [d \in Delivery |-> Idle]
    /\ owned = {}
    /\ recovering = {}
    /\ completed = FALSE
    /\ restarts = 0

-----------------------------------------------------------------------------
(* Facts the transactions read.                                            *)

\* cancel_requested_at IS NULL: no Stop and no terminal that owes a cleanup.
NotCancelled(r) == run[r].cleanup = "none"
Executing(r) == run[r].status \in {"running", "waiting"} /\ NotCancelled(r)
Current(r, e) == run[r].epoch = e /\ e # None
StartStatus(r) == IF run[r].epoch = None THEN "none" ELSE start[r][run[r].epoch]
Steers(r) == {d \in Delivery : steerRun[d] = r}
InputsOf(r) == {start[r][e] : e \in Epoch} \cup {steer[d] : d \in Steers(r)}
LaneBusyUnlessWaiting == \E r \in Run : run[r].status \in {"queued", "running"}

LaneBusy == \E r \in Run : run[r].status \in Active

\* The next member of a numbered table that is not used yet.
NextDelivery(d) == /\ delivery[d].status = "absent"
                   /\ \A c \in 1..(d - 1) : delivery[c].status # "absent"
NextRun(r) == /\ run[r].status = "absent"
              /\ \A s \in 1..(r - 1) : run[s].status # "absent"

\* A cleanup this generation owes and has not confirmed blocks the lane.
CleanupBlocked(others) ==
    \E r \in owned \cap others : run[r].cleanup = "pending"

\* active_input_availability: a supplement may still be promised to the execution ...
CanSteer(r, e) ==
    /\ run[r].epoch = e /\ run[r].status \in Active /\ NotCancelled(r)
    /\ StartStatus(r) # "unknown"

\* ... or handed to its Runtime now.
Ready(r, e) ==
    /\ CanSteer(r, e) /\ run[r].status # "queued"
    /\ StartStatus(r) = "accepted"

\* A failed or cancelled run may be continued while its messages are still there.
EligibleSource(r) ==
    /\ run[r].status \in {"failed", "cancelled"}
    /\ ~completed
    /\ input[r] # {}
    /\ \A d \in input[r] : recall[d] # "withdrawn"

\* has_terminal_safety_blocker: a start input whose outcome is not settled.
StartUnsettled(r) == \E e \in Epoch : start[r][e] \in {"prepared", "sent", "unknown"}

\* validate_terminal_target: the reporter still speaks for the running execution.
TerminalValid(r, e) ==
    /\ run[r].status = "running" /\ Current(r, e)
    /\ NotCancelled(r)
    /\ ~StartUnsettled(r)

-----------------------------------------------------------------------------
(* What every terminal does with the inputs and Deliveries of its run.     *)

Settled == [succeeded |-> "settled", failed |-> "failed", cancelled |-> "cancelled"]

\* An input that was not dispatched is known not to be accepted; a dispatched one is unknown.
Closed(status) == CASE status = "prepared" -> "not_accepted"
                    [] status = "sent" -> "unknown"
                    [] OTHER -> status

ReturnsToQueue(d, outcome) ==
    /\ outcome = "succeeded"
    /\ delivery[d].mode = "steer"
    /\ steer[d] \notin Uncertain

SettledBatchOnly(d, outcome) ==
    IF delivery[d].mode = "steer" THEN delivery[d]
    ELSE [delivery[d] EXCEPT !.status = Settled[outcome]]

\* settle_run_deliveries with settle_execution: where a claimed Delivery goes.
SettledDelivery(d, outcome) ==
    IF ReturnsToQueue(d, outcome) THEN Waiting
    ELSE IF delivery[d].mode = "steer" /\ Closed(steer[d]) = "unknown"
    THEN [delivery[d] EXCEPT !.status = "failed", !.code = "unknown"]
    ELSE [delivery[d] EXCEPT !.status = Settled[outcome],
                             !.code = IF outcome = "succeeded" THEN "none" ELSE "run"]

\* The terminal transaction of run r: row, supplements, Deliveries and cleanup debt.
EndRun(r, outcome, cleanup) ==
    /\ run' = [run EXCEPT ![r] = [@ EXCEPT !.status = outcome, !.wait = "none",
                                           !.cleanup = cleanup]]
    /\ steer' = [d \in Delivery |-> IF d \in Steers(r) THEN Closed(steer[d]) ELSE steer[d]]
    /\ delivery' = [d \in Delivery |->
           IF delivery[d].run = r /\ delivery[d].status = "claimed"
           THEN SettledDelivery(d, outcome) ELSE delivery[d]]
    /\ recovering' = recovering \ {r}

\* close_abortive_run_effects: the start inputs of a run that did not end by itself.
CloseStarts(r) == start' = [start EXCEPT ![r] = [e \in Epoch |-> Closed(@[e])]]

\* fail_lost_agent_run_in_tx: the outcome of an input is lost, the run ends failed.
FailLost(r) == EndRun(r, "failed", "pending") /\ CloseStarts(r)

-----------------------------------------------------------------------------
(* The User and the members: messages, recalls, continuations, stops.      *)

\* enqueue_deliveries: a message waits for the next batch ...
SendMessage(d) ==
    /\ NextDelivery(d)
    /\ delivery' = [delivery EXCEPT ![d] = Waiting]
    /\ recall' = [recall EXCEPT ![d] = "recallable"]
    /\ UNCHANGED <<steerRun, source, run, input, start, steer, native, memory, completed, restarts>>

\* ... or route_user_message promises it to the execution of now, for good.
SupplementEpoch(r) == run[r].epoch + (IF run[r].status = "queued" THEN 1 ELSE 0)

SendSupplement(d, r) ==
    /\ NextDelivery(d)
    /\ CanSteer(r, run[r].epoch)
    /\ delivery' = [delivery EXCEPT ![d] = [Waiting EXCEPT !.status = "claimed",
           !.mode = "steer", !.run = r, !.epoch = SupplementEpoch(r)]]
    /\ recall' = [recall EXCEPT ![d] = "closed"]
    /\ UNCHANGED <<steerRun, source, run, input, start, steer, native, memory, completed, restarts>>

\* withdraw_message: only a message that no execution was given.
Withdraw(d) ==
    /\ recall[d] = "recallable"
    /\ delivery[d].status = "waiting"
    /\ \A r \in Run : d \notin input[r]
    /\ recall' = [recall EXCEPT ![d] = "withdrawn"]
    /\ delivery' = [delivery EXCEPT ![d].status = "cancelled"]
    /\ UNCHANGED <<steerRun, source, run, input, start, steer, native, memory, completed, restarts>>

\* continue_agent_run: the User asks to run the messages of an ended run again.
Continue(d, r) ==
    /\ NextDelivery(d)
    /\ EligibleSource(r)
    /\ delivery' = [delivery EXCEPT ![d] = Waiting]
    /\ source' = [source EXCEPT ![d] = r]
    /\ UNCHANGED <<steerRun, recall, run, input, start, steer, native, memory, completed, restarts>>

\* The Mission is completed elsewhere; continuations of the Thread lose their source.
CompleteMission ==
    /\ ~completed
    /\ completed' = TRUE
    /\ UNCHANGED <<rows, native, memory, restarts>>

\* A stop needs no cleanup only when the run was never dispatched.
StopCleanup(r) == IF run[r].status = "queued" THEN "acked" ELSE "pending"

Stop(r) ==
    /\ run[r].status \in Active
    /\ NotCancelled(r)
    /\ EndRun(r, "cancelled", StopCleanup(r))
    /\ CloseStarts(r)
    /\ UNCHANGED <<steerRun, source, recall, input, native, launch, sender, owned, completed, restarts>>

-----------------------------------------------------------------------------
(* The scheduler: claim a batch for the idle lane, dispatch the run.       *)

WaitingSet == {d \in Delivery : delivery[d].status = "waiting"}

\* load_waiting_prefix: continuations at the head whose source is gone are cancelled ...
Expired == {d \in WaitingSet : \A c \in WaitingSet : c <= d =>
                                    /\ source[c] # None
                                    /\ ~EligibleSource(source[c])}
Pending == WaitingSet \ Expired
IsFirst(d) == d \in Pending /\ \A c \in Pending : d <= c

\* ... then one continuation alone, or the messages before the next continuation.
Prefix(d) ==
    IF source[d] # None THEN {d}
    ELSE {c \in Pending : c <= d}

Selectable(d) ==
    /\ d \in Pending
    /\ IF source[d] # None THEN IsFirst(d)
       ELSE \A c \in Pending : c <= d => source[c] = None

\* The messages the new run reads: a continuation reads those of its source.
BatchInput(d) == IF source[d] # None THEN input[source[d]] ELSE Prefix(d)

LaneFree == ~LaneBusy /\ ~CleanupBlocked(Run)

CancelExpired(d) == [delivery[d] EXCEPT !.status = "cancelled", !.code = "unavailable"]

\* insert_batch_run: the run, its inputs and its Deliveries in one transaction.
InsertBatchRun(r, last, runStatus, deliveryStatus, code) ==
    /\ run' = [run EXCEPT ![r].status = runStatus]
    /\ input' = [input EXCEPT ![r] = BatchInput(last)]
    /\ delivery' = [d \in Delivery |->
           CASE d \in Expired -> CancelExpired(d)
             [] d \in Prefix(last) -> [delivery[d] EXCEPT !.status = deliveryStatus,
                                                          !.run = r, !.code = code]
             [] OTHER -> delivery[d]]
    /\ recall' = [d \in Delivery |->
           IF d \in Prefix(last) /\ recall[d] = "recallable" THEN "closed" ELSE recall[d]]
    /\ UNCHANGED <<steerRun, source, start, steer, native, memory, completed, restarts>>

ClaimBatch(r) ==
    /\ NextRun(r)
    /\ LaneFree
    /\ \E last \in Delivery : Selectable(last) /\ InsertBatchRun(r, last, "queued", "claimed", "none")

\* A batch whose Runtime, workspace or context is unusable ends with its first Delivery.
RejectBatch(r) ==
    /\ NextRun(r)
    /\ LaneFree
    /\ \E first \in Delivery : IsFirst(first) /\ InsertBatchRun(r, first, "failed", "failed", "run")

\* Nothing is left once the expired continuations are gone.
CancelContinuations ==
    /\ LaneFree
    /\ Expired # {} /\ Pending = {}
    /\ delivery' = [d \in Delivery |-> IF d \in Expired THEN CancelExpired(d) ELSE delivery[d]]
    /\ UNCHANGED <<steerRun, source, recall, run, input, start, steer, native, memory, completed, restarts>>

DispatchableAfterLoss(r) ==
    /\ NotCancelled(r)
    /\ \/ run[r].status = "queued"
       \/ run[r].status = "waiting" /\ run[r].wait = "runtime_recovery"

\* The scheduler lists queued batch runs; a waiting one only the network coordinator names.
Dispatchable(r) ==
    /\ NotCancelled(r)
    /\ \/ run[r].status = "queued"
       \/ /\ run[r].status = "waiting" /\ run[r].wait = "runtime_recovery"
          /\ r \in recovering

\* claim_admission_rejection: never dispatch what the Runtime may already have.
InputReplayable(r) ==
    /\ "accepted" \notin {start[r][e] : e \in Epoch}
    /\ run[r].status = "waiting" => "unknown" \notin InputsOf(r)

ClaimRun(r) ==
    /\ Dispatchable(r)
    /\ InputReplayable(r)
    /\ \A s \in Run \ {r} : run[s].status \notin {"running", "waiting"}
    /\ ~CleanupBlocked(Run \ {r})
    /\ launch[r] = None
    /\ run[r].epoch < MaxEpoch
    /\ run' = [run EXCEPT ![r] = [@ EXCEPT !.status = "running", !.wait = "none",
                                           !.epoch = run[r].epoch + 1]]
    /\ launch' = [launch EXCEPT ![r] = run[r].epoch + 1]
    /\ owned' = owned \cup {r}
    /\ recovering' = recovering \ {r}     \* the entry speaks for the epoch that failed
    /\ UNCHANGED <<steerRun, delivery, source, recall, input, start, steer, native, sender,
                   completed, restarts>>

\* reject_agent_run_dispatch: the run cannot be dispatched and ends without a process.
RejectDispatch(r) ==
    /\ Dispatchable(r)
    /\ launch[r] = None
    /\ EndRun(r, "failed", "none")
    /\ UNCHANGED <<steerRun, source, recall, input, start, native, launch, sender, owned, completed, restarts>>

-----------------------------------------------------------------------------
(* The launch future: a process, a prepared input, the dispatch boundary.  *)

Launching(r, e) == launch[r] = e /\ e # None

StartHost(r) ==
    /\ launch[r] # None
    /\ host[r] \in {"none", "gone"}
    /\ host' = [host EXCEPT ![r] = "idle"]
    /\ UNCHANGED <<rows, startFate, steerFate, memory, completed, restarts>>

\* prepare_input_delivery_for_context: a row per epoch; a refused one is prepared again.
PrepareStart(r, e) ==
    /\ Launching(r, e) /\ host[r] = "idle"
    /\ run[r].status = "running" /\ NotCancelled(r) /\ Current(r, e)
    /\ start[r][e] \in {"none", "not_accepted"}
    /\ start' = [start EXCEPT ![r][e] = "prepared"]
    /\ UNCHANGED <<steerRun, delivery, source, recall, run, input, steer, native, memory, completed, restarts>>

\* begin_runtime_input_dispatch: a stop before this commit forbids the send.
MayDispatch(r, e) == Executing(r) /\ Current(r, e)

DispatchStart(r, e) ==
    /\ Launching(r, e)
    /\ start[r][e] = "prepared"
    /\ MayDispatch(r, e)
    /\ start' = [start EXCEPT ![r][e] = "sent"]
    /\ startFate' = [startFate EXCEPT ![r][e] = "open"]
    /\ UNCHANGED <<steerRun, delivery, source, recall, run, input, steer, steerFate, host, memory,
                   completed, restarts>>

\* The future returns once the input is out of its hands or the run is not its own any more.
LaunchDone(r) ==
    /\ launch[r] # None
    /\ \/ start[r][launch[r]] \in {"sent", "accepted", "unknown", "not_accepted"}
       \/ ~MayDispatch(r, launch[r])
    /\ launch' = [launch EXCEPT ![r] = None]
    /\ UNCHANGED <<rows, native, sender, owned, recovering, completed, restarts>>

\* fail_agent_run_without_runtime_terminal: the launch ends in an error. A Codex run with an
\* input in doubt is lost, any other run fails unless an input is still unsettled. Codex does
\* nothing that can fail between the preparation and the dispatch; Pi reads images there.
FailLaunch(r) ==
    /\ launch[r] # None
    /\ Codex /\ MayDispatch(r, launch[r]) => start[r][launch[r]] # "prepared"
    /\ launch' = [launch EXCEPT ![r] = None]
    /\ IF Codex /\ Current(r, launch[r]) /\ InputsOf(r) \cap Uncertain # {}
       THEN IF Executing(r) THEN FailLost(r)
            ELSE UNCHANGED <<run, delivery, steer, start, recovering>>
       ELSE IF TerminalValid(r, launch[r])
            THEN EndRun(r, "failed", "pending") /\ UNCHANGED start
            ELSE UNCHANGED <<run, delivery, steer, start, recovering>>
    /\ UNCHANGED <<steerRun, source, recall, input, native, sender, owned, completed, restarts>>

-----------------------------------------------------------------------------
(* The Runtime: it takes or refuses what was submitted, ends turns, exits. *)

SetFate(r, from, to) ==
    /\ startFate' = [startFate EXCEPT ![r] =
           [e \in Epoch |-> IF @[e] = from THEN to ELSE @[e]]]
    /\ steerFate' = [d \in Delivery |->
           IF d \in Steers(r) /\ steerFate[d] = from THEN to ELSE steerFate[d]]

NativeStart(r, e) ==
    /\ startFate[r][e] = "open" /\ host[r] = "idle"
    /\ \/ /\ startFate' = [startFate EXCEPT ![r][e] = "taken"]
          /\ host' = [host EXCEPT ![r] = "turn"]
       \/ /\ startFate' = [startFate EXCEPT ![r][e] = "refused"]
          /\ UNCHANGED host
    /\ UNCHANGED <<rows, steerFate, memory, completed, restarts>>

\* A supplement joins the turn in progress; without one it is refused.
NativeSteer(d, r) ==
    /\ steerFate[d] = "open" /\ d \in Steers(r)
    /\ host[r] \in {"idle", "turn"}
    /\ \E fate \in {"taken", "refused"} :
           /\ fate = "taken" => host[r] = "turn"
           /\ steerFate' = [steerFate EXCEPT ![d] = fate]
    /\ UNCHANGED <<rows, startFate, host, memory, completed, restarts>>

NativeTurnEnds(r) ==
    /\ host[r] = "turn"
    /\ host' = [host EXCEPT ![r] = "idle"]
    /\ UNCHANGED <<rows, startFate, steerFate, memory, completed, restarts>>

HostGone(r) == host' = [host EXCEPT ![r] = "gone"] /\ SetFate(r, "open", "lost")

HostExit(r) ==
    /\ host[r] \in {"idle", "turn"}
    /\ HostGone(r)
    /\ UNCHANGED <<rows, memory, completed, restarts>>

-----------------------------------------------------------------------------
(* What this generation hears of a start input and of its turn.            *)

Resumes(r, e) ==
    start[r][e] = "unknown" /\ MayDispatch(r, e) /\ run[r].wait = "delivery_unknown"

\* acknowledge_active_input_delivery: evidence always, and an execution that waited for it
\* goes on.
AckStart(r, e) ==
    /\ r \in owned
    /\ start[r][e] \in {"sent", "unknown"} /\ startFate[r][e] = "taken"
    /\ start' = [start EXCEPT ![r][e] = "accepted"]
    /\ run' = IF Resumes(r, e)
              THEN [run EXCEPT ![r] = [@ EXCEPT !.status = "running", !.wait = "none"]]
              ELSE run
    /\ UNCHANGED <<steerRun, delivery, source, recall, input, steer, native, memory, completed,
                   restarts>>

\* mark_input_delivery_not_accepted on an explicit refusal.
StartRefused(r, e) ==
    /\ r \in owned
    /\ start[r][e] = "sent" /\ startFate[r][e] = "refused"
    /\ start' = [start EXCEPT ![r][e] = "not_accepted"]
    /\ UNCHANGED <<steerRun, delivery, source, recall, run, input, steer, native, memory, completed, restarts>>

\* mark_input_delivery_unknown on a lost connection, a timeout or a failed acknowledgement.
StartUnknown(r, e) ==
    /\ r \in owned
    /\ start[r][e] = "sent"
    /\ start' = [start EXCEPT ![r][e] = "unknown"]
    /\ run' = IF MayDispatch(r, e)
              THEN [run EXCEPT ![r] = [@ EXCEPT !.status = "waiting", !.wait = "delivery_unknown"]]
              ELSE run
    /\ UNCHANGED <<steerRun, delivery, source, recall, input, steer, native, memory, completed, restarts>>

TerminalCleanup == IF Codex THEN {"pending"} ELSE {"none", "pending"}

\* succeed_agent_run, with its cleanup debt for Codex: the turn the Runtime took has ended.
Succeed(r) ==
    /\ r \in owned
    /\ TerminalValid(r, run[r].epoch)
    /\ StartStatus(r) = "accepted" /\ host[r] = "idle"
    /\ EndRun(r, "succeeded", IF Codex THEN "pending" ELSE "none")
    /\ UNCHANGED <<steerRun, source, recall, input, start, native, launch, sender, owned, completed, restarts>>

\* fail_agent_run: the Runtime reports a failed or refused turn.
FailNative(r) ==
    /\ r \in owned
    /\ TerminalValid(r, run[r].epoch)
    /\ StartStatus(r) \in {"accepted", "not_accepted"} /\ host[r] = "idle"
    /\ \E cleanup \in TerminalCleanup : EndRun(r, "failed", cleanup)
    /\ UNCHANGED <<steerRun, source, recall, input, start, native, launch, sender, owned, completed, restarts>>

\* reconcile_runtime_loss: the Host is gone. An input in doubt loses the run, otherwise it waits.
ReconcileLoss(r) ==
    /\ r \in owned
    /\ host[r] = "gone"
    /\ Executing(r)
    /\ IF InputsOf(r) \cap Uncertain # {}
       THEN FailLost(r)
       ELSE /\ run[r].status = "running"
            /\ run' = [run EXCEPT ![r] = [@ EXCEPT !.status = "waiting",
                                                   !.wait = "runtime_recovery"]]
            /\ UNCHANGED <<delivery, steer, start, recovering>>
    /\ UNCHANGED <<steerRun, source, recall, input, native, launch, sender, owned, completed, restarts>>

-----------------------------------------------------------------------------
(* The network coordinator: a refused prompt is retried as a new epoch.    *)

NetworkInputSafe(r) ==
    /\ StartStatus(r) \in {"none", "prepared", "not_accepted"}
    /\ "unknown" \notin InputsOf(r)

MarkNetworkRecovery(r) ==
    /\ ~Codex /\ r \in owned
    /\ run[r].status = "running" /\ NotCancelled(r)
    /\ StartStatus(r) = "not_accepted"     \* the failed prompt that is reported
    /\ NetworkInputSafe(r)
    /\ run' = [run EXCEPT ![r] = [@ EXCEPT !.status = "waiting", !.wait = "network_recovery"]]
    /\ recovering' = recovering \cup {r}
    /\ UNCHANGED <<steerRun, delivery, source, recall, input, start, steer, native, launch, sender, owned,
                   completed, restarts>>

ArmNetworkRecovery(r) ==
    /\ r \in recovering
    /\ run[r].status = "waiting" /\ NotCancelled(r)
    /\ \/ run[r].wait = "network_recovery"
       \/ run[r].wait = "runtime_recovery" /\ ~NetworkInputSafe(r)
    /\ run' = [run EXCEPT ![r].wait =
                  IF NetworkInputSafe(r) THEN "runtime_recovery" ELSE "network_blocked"]
    /\ UNCHANGED <<steerRun, delivery, source, recall, input, start, steer, native, memory, completed, restarts>>

-----------------------------------------------------------------------------
(* Cleanup: the process of an ended run is stopped before the lane moves.  *)

StopHost(r) ==
    /\ r \in owned
    /\ run[r].cleanup = "pending"
    /\ host[r] \in {"idle", "turn"}
    /\ HostGone(r)
    /\ UNCHANGED <<rows, memory, completed, restarts>>

LaunchOverOnly(r) == launch[r] = None
StoppedHostOnly(r) == host[r] = "gone" /\ launch[r] = None

\* acknowledge_runtime_cleanup: no process is left and no launch can still create one.
CleanupProven(r) == host[r] \in {"none", "gone"} /\ launch[r] = None

AckCleanup(r) ==
    /\ r \in owned
    /\ run[r].cleanup = "pending"
    /\ CleanupProven(r)
    /\ run' = [run EXCEPT ![r].cleanup = "acked"]
    /\ UNCHANGED <<steerRun, delivery, source, recall, input, start, steer, native, memory,
                   completed, restarts>>

-----------------------------------------------------------------------------
(* The supplement sender: one worker at a time for a run.                  *)

At(d, pc) == sender[d].pc = pc
StopSender(d) == sender' = [sender EXCEPT ![d] = Idle]
MoveSender(d, pc) == sender' = [sender EXCEPT ![d].pc = pc]

\* pending_inputs: in Delivery order, an unknown predecessor aside.
Sendable(d, r) ==
    /\ delivery[d].mode = "steer" /\ delivery[d].status = "claimed" /\ delivery[d].run = r
    /\ Executing(r) /\ Current(r, delivery[d].epoch)
    /\ StartStatus(r) = "accepted"
    /\ steer[d] \in {"none", "prepared"}
    /\ \A c \in 1..(d - 1) :
           (delivery[c].mode = "steer" /\ delivery[c].status = "claimed" /\ delivery[c].run = r)
               => steer[c] = "unknown"

\* One worker per run in the scheduler's set: a first dispatch counts, a network retry does not.
WorkerFree(r) ==
    /\ \A c \in Delivery : sender[c].run # r
    /\ launch[r] # None => run[r].epoch > 1

PickSupplement(d, r) ==
    /\ At(d, "none")
    /\ Sendable(d, r)
    /\ WorkerFree(r)
    /\ sender' = [sender EXCEPT ![d] = [pc |-> "picked", run |-> r, epoch |-> run[r].epoch]]
    /\ UNCHANGED <<rows, native, launch, owned, recovering, completed, restarts>>

\* return_to_queue: only for a source that is proven not submitted.
Returnable(d) ==
    /\ delivery[d].mode = "steer"
    /\ \/ delivery[d].status = "claimed"
       \/ delivery[d].status = "failed" /\ delivery[d].code = "unknown"
    /\ NotCancelled(delivery[d].run)
    /\ run[delivery[d].run].status \in {"running", "waiting", "succeeded"}

ReturnToQueue(d, status) ==
    delivery' = IF Returnable(d) /\ status \notin Uncertain
                THEN [delivery EXCEPT ![d] = Waiting] ELSE delivery

\* The availability is read again; a Runtime that is not there, has no turn any more or whose
\* route its launch did not bind yet gives the source back.
CheckSupplement(d) ==
    LET r == sender[d].run e == sender[d].epoch IN
    /\ At(d, "picked")
    /\ \/ /\ \/ ~CanSteer(r, e) \/ ~Executing(r)
             \/ host[r] # "turn" \/ launch[r] # None
          /\ ReturnToQueue(d, steer[d]) /\ StopSender(d)
       \/ /\ CanSteer(r, e) /\ ~Ready(r, e)
          /\ StopSender(d) /\ UNCHANGED delivery
       \/ /\ Ready(r, e) /\ Executing(r) /\ host[r] # "gone"
          /\ MoveSender(d, "resolving") /\ UNCHANGED delivery
    /\ UNCHANGED <<steerRun, source, recall, run, input, start, steer, native, launch, owned,
                   recovering, completed, restarts>>

\* The attachments are resolved without the lock, then the input is prepared under it.
PrepareSupplement(d) ==
    LET r == sender[d].run e == sender[d].epoch IN
    /\ At(d, "resolving")
    /\ IF Ready(r, e) /\ Executing(r)
       THEN IF steer[d] \in {"none", "prepared"}
            THEN /\ steer' = [steer EXCEPT ![d] = "prepared"]
                 /\ steerRun' = [steerRun EXCEPT ![d] = r]
                 /\ MoveSender(d, "prepared")
                 /\ UNCHANGED delivery
            ELSE StopSender(d) /\ UNCHANGED <<delivery, steer, steerRun>>
       ELSE /\ ReturnToQueue(d, steer[d]) /\ StopSender(d)
            /\ UNCHANGED <<steer, steerRun>>
    /\ UNCHANGED <<source, recall, run, input, start, native, launch, owned, recovering,
                   completed, restarts>>

\* fail_preparation: an attachment, the context or an image of the source cannot be read.
FailsPreparation(d) == delivery[d].status = "claimed" /\ steer[d] \in {"none", "prepared", "not_accepted"}

PreparationFails(d) ==
    /\ At(d, "resolving") \/ (At(d, "prepared") /\ ~Codex)
    /\ delivery' = IF FailsPreparation(d)
                   THEN [delivery EXCEPT ![d].status = "failed", ![d].code = "preparation"]
                   ELSE delivery
    /\ StopSender(d)
    /\ UNCHANGED <<steerRun, source, recall, run, input, start, steer, native, launch, owned,
                   recovering, completed, restarts>>

DispatchSupplement(d) ==
    LET r == sender[d].run e == sender[d].epoch IN
    /\ At(d, "prepared")
    /\ IF steer[d] = "prepared" /\ MayDispatch(r, e)
       THEN /\ steer' = [steer EXCEPT ![d] = "sent"]
            /\ steerFate' = [steerFate EXCEPT ![d] =
                   IF host[r] \in {"idle", "turn"} THEN "open" ELSE "lost"]
            /\ MoveSender(d, "sent")
       ELSE StopSender(d) /\ UNCHANGED <<steer, steerFate>>
    /\ UNCHANGED <<steerRun, delivery, source, recall, run, input, start, startFate, host,
                   launch, owned, recovering, completed, restarts>>

\* An accepted supplement settles its Delivery, however its run ended meanwhile.
AckDelivery(d) ==
    delivery' = IF delivery[d].status \in {"claimed", "failed"} /\ delivery[d].run = steerRun[d]
                THEN [delivery EXCEPT ![d].status = "settled", ![d].code = "none"]
                ELSE delivery

SupplementAccepted(d) ==
    /\ At(d, "sent") /\ steerFate[d] = "taken"
    /\ steer[d] \in {"sent", "unknown"}
    /\ steer' = [steer EXCEPT ![d] = "accepted"]
    /\ AckDelivery(d) /\ StopSender(d)
    /\ UNCHANGED <<steerRun, source, recall, run, input, start, native, launch, owned,
                   recovering, completed, restarts>>

\* An explicit refusal and the return to the queue, under one lock.
SupplementRefused(d) ==
    /\ At(d, "sent") /\ steerFate[d] = "refused"
    /\ steer[d] \in {"sent", "unknown"}
    /\ steer' = [steer EXCEPT ![d] = "not_accepted"]
    /\ ReturnToQueue(d, "not_accepted") /\ StopSender(d)
    /\ UNCHANGED <<steerRun, source, recall, run, input, start, native, launch, owned,
                   recovering, completed, restarts>>

\* The reply is lost or says nothing about the input.
SupplementUnknown(d) ==
    /\ At(d, "sent")
    /\ steer' = [steer EXCEPT ![d] = IF @ = "sent" THEN "unknown" ELSE @]
    /\ StopSender(d)
    /\ UNCHANGED <<steerRun, delivery, source, recall, run, input, start, native, launch, owned,
                   recovering, completed, restarts>>

\* reconcile_active_input: the User asks again and Codex shows the input in its turn.
ReconcileSupplement(d) ==
    /\ Codex
    /\ steer[d] = "unknown" /\ steerFate[d] = "taken"
    /\ delivery[d].mode = "steer"
    /\ steerRun[d] \in owned /\ host[steerRun[d]] \in {"idle", "turn"}
    /\ steer' = [steer EXCEPT ![d] = "accepted"]
    /\ AckDelivery(d)
    /\ UNCHANGED <<steerRun, source, recall, run, input, start, native, memory, completed,
                   restarts>>

-----------------------------------------------------------------------------
(* A crash of the core and the recovery of its next start.                 *)

\* prepare_v2_recovery: nothing prepared is trusted, nothing in doubt is dispatched again.
Recovered(status) == IF status \in {"prepared", "sent"} THEN "unknown" ELSE status

Lost(r) == /\ run[r].status \in {"running", "waiting"} /\ NotCancelled(r)
           /\ \E s \in InputsOf(r) : Recovered(s) \in {"accepted", "unknown"}

RecoveredRun(r) ==
    IF Lost(r) THEN [run[r] EXCEPT !.status = "failed", !.wait = "none", !.cleanup = "pending"]
    ELSE IF run[r].status = "running" \/ run[r].wait = "network_recovery"
    THEN [run[r] EXCEPT !.status = "waiting", !.wait = "runtime_recovery"]
    ELSE run[r]

RecoveredDelivery(d) ==
    IF delivery[d].status # "claimed" \/ delivery[d].run = None THEN delivery[d]
    ELSE IF ~Lost(delivery[d].run) THEN delivery[d]
    ELSE [delivery[d] EXCEPT !.status = "failed",
             !.code = IF delivery[d].mode = "steer" /\ Recovered(steer[d]) = "unknown"
                      THEN "unknown" ELSE "run"]

Crash ==
    /\ restarts < MaxRestart
    /\ restarts' = restarts + 1
    /\ start' = [r \in Run |-> [e \in Epoch |-> Recovered(start[r][e])]]
    /\ steer' = [d \in Delivery |-> Recovered(steer[d])]
    /\ run' = [r \in Run |-> RecoveredRun(r)]
    /\ delivery' = [d \in Delivery |-> RecoveredDelivery(d)]
    /\ launch' = [r \in Run |-> None]
    /\ sender' = [d \in Delivery |-> Idle]
    /\ owned' = {} /\ recovering' = {}
    /\ UNCHANGED <<source, recall, input, steerRun, native, completed>>

-----------------------------------------------------------------------------
UserStep ==
    \/ \E d \in Delivery : SendMessage(d) \/ Withdraw(d)
    \/ \E d \in Delivery, r \in Run : SendSupplement(d, r) \/ Continue(d, r)
    \/ CompleteMission
    \/ \E r \in Run : Stop(r)

SchedulerStep ==
    \/ \E r \in Run : ClaimBatch(r) \/ RejectBatch(r) \/ ClaimRun(r) \/ RejectDispatch(r)
    \/ CancelContinuations

LaunchStep ==
    \/ \E r \in Run : StartHost(r) \/ LaunchDone(r) \/ FailLaunch(r)
    \/ \E r \in Run, e \in Epoch : PrepareStart(r, e) \/ DispatchStart(r, e)

NativeStep ==
    \/ \E r \in Run, e \in Epoch : NativeStart(r, e)
    \/ \E d \in Delivery, r \in Run : NativeSteer(d, r)
    \/ \E r \in Run : NativeTurnEnds(r) \/ HostExit(r)

RuntimeEvent ==
    \/ \E r \in Run, e \in Epoch : AckStart(r, e) \/ StartRefused(r, e) \/ StartUnknown(r, e)
    \/ \E r \in Run : Succeed(r) \/ FailNative(r) \/ ReconcileLoss(r)

RecoveryStep ==
    \E r \in Run : MarkNetworkRecovery(r) \/ ArmNetworkRecovery(r)

CleanupStep == \E r \in Run : StopHost(r) \/ AckCleanup(r)

SenderMove(d) ==
    \/ CheckSupplement(d) \/ PrepareSupplement(d) \/ PreparationFails(d)
    \/ DispatchSupplement(d) \/ SupplementAccepted(d) \/ SupplementRefused(d)
    \/ SupplementUnknown(d)

SupplementStep ==
    \/ \E d \in Delivery, r \in Run : PickSupplement(d, r)
    \/ \E d \in Delivery : SenderMove(d) \/ ReconcileSupplement(d)

Next == \/ UserStep \/ SchedulerStep \/ LaunchStep \/ NativeStep \/ RuntimeEvent
        \/ RecoveryStep \/ CleanupStep \/ SupplementStep \/ Crash

Spec == Init /\ [][Next]_vars

\* What the program and its deadlines bring about. The scheduler is woken after every commit
\* and by a fallback tick; a launch and every request it waits for have a timeout and a launch
\* does not prepare refused inputs for ever (hence the strong fairness); a terminal
\* or an exit the Runtime reports is processed; the cleanup worker retries until it is
\* confirmed. Of the Runtime itself only this is assumed: a turn ends.
LaneFairness ==
    /\ WF_vars(CancelContinuations)
    /\ \A r \in Run :
        /\ WF_vars(ClaimBatch(r) \/ RejectBatch(r))
        /\ WF_vars(ClaimRun(r) \/ RejectDispatch(r))
        /\ WF_vars(\E e \in Epoch : DispatchStart(r, e))
        /\ SF_vars(LaunchDone(r) \/ FailLaunch(r))
        /\ WF_vars(\E e \in Epoch : AckStart(r, e) \/ StartRefused(r, e) \/ StartUnknown(r, e))
        /\ WF_vars(NativeTurnEnds(r))
        /\ WF_vars(Succeed(r) \/ FailNative(r) \/ ReconcileLoss(r))
        /\ WF_vars(StopHost(r)) /\ WF_vars(AckCleanup(r))

FairSpec == Spec /\ LaneFairness

-----------------------------------------------------------------------------
(* What the lane promises.                                                 *)

\* At most one run of the lane is open, however claims, steers, recoveries and restarts meet.
OneOpenRun == \A r, s \in Run : run[r].status \in Active /\ run[s].status \in Active => r = s

\* Two turns of one generation never run at once: the next claim waits until the process of
\* the ended run is gone, unless its turn is known to be over.
OneLiveTurn == \A r, s \in owned : host[r] = "turn" /\ host[s] = "turn" => r = s

\* A claimed Delivery always has an open run that will settle it: a batch member is among the
\* messages of that run, a supplement keeps the epoch it was promised to.
ClaimedIsOwned ==
    \A d \in Delivery : delivery[d].status = "claimed" =>
        /\ delivery[d].run # None /\ run[delivery[d].run].status \in Active
        /\ delivery[d].mode = "start" /\ source[d] = None => d \in input[delivery[d].run]
        /\ delivery[d].mode = "steer" =>
               delivery[d].epoch \in 1..(run[delivery[d].run].epoch + 1)

\* An execution whose start input is in doubt waits, and no other execution waits for that.
UnknownStartWaits ==
    \A r \in Run : Executing(r) =>
        (run[r].wait = "delivery_unknown" <=> StartStatus(r) = "unknown")

\* A terminal leaves no input that could still be dispatched or whose outcome nobody recorded.
TerminalInputsClosed ==
    \A r \in Run : run[r].status \in Ended =>
        InputsOf(r) \cap {"prepared", "sent"} = {}

\* A run is dispatched again only when every earlier epoch is known not to be accepted, so no
\* old input can block its terminal or run twice.
OldEpochsSettled ==
    \A r \in Run : Executing(r) =>
        \A e \in 1..(run[r].epoch - 1) : start[r][e] \in {"none", "not_accepted"}

\* What is known of an input agrees with the run it starts or supplements, whatever loss,
\* acknowledgement, network retry, terminal or crash came last.
InputsSettled == UnknownStartWaits /\ TerminalInputsClosed /\ OldEpochsSettled

\* The Runtime's own view of a Delivery: the native turns that consumed it.
Consumed(d) ==
    (IF steerFate[d] = "taken" THEN 1 ELSE 0)
    + (IF delivery[d].mode = "start" /\ delivery[d].run # None
       THEN Cardinality({e \in Epoch : startFate[delivery[d].run][e] = "taken"}) ELSE 0)

Place(d) == CASE delivery[d].status = "absent" -> "nobody"
              [] delivery[d].status = "waiting" -> "queue"
              [] delivery[d].status = "claimed" -> "run"
              [] OTHER -> "closed"

InputOnce == INSTANCE InputOnce WITH Item <- Delivery,
                 place <- [d \in Delivery |-> Place(d)],
                 taken <- [d \in Delivery |-> Consumed(d)]

\* The queue, the batch claim, the supplements and the recovery implement InputOnce: whatever
\* crashes, refusals and lost replies do, a Delivery is consumed by one native turn at most and
\* never goes back to the queue once a turn may have it.
ConsumedOnce == InputOnce!Spec

\* The lane serves its queue: a waiting Delivery is claimed, recalled or cancelled, unless a
\* run of the lane waits for evidence or for the User.
LaneServed ==
    \A d \in Delivery : delivery[d].status = "waiting" ~>
        \/ delivery[d].status # "waiting"
        \/ \E r \in Run : run[r].status = "waiting"

\* A launch that ends leaves no run behind that looks as if it were working on its input.
LaunchFailureEndsRun ==
    \A r \in owned : run[r].status = "running" /\ launch[r] = None =>
        StartStatus(r) \notin {"none", "prepared"}

-----------------------------------------------------------------------------
(* What the documents say and the code does not do.                        *)

\* An explicit refusal returns the supplement of a run that succeeded to the queue.
RefusedSupplementReturns ==
    \A d \in Delivery :
        /\ At(d, "none") /\ delivery[d].mode = "steer"
        /\ steer[d] = "not_accepted" /\ steerFate[d] = "refused"
        /\ run[steerRun[d]].status = "succeeded"
        => delivery[d].status # "failed"

\* A batch Delivery is settled by the terminal of its own run and by nothing else.
SettledByOwnRun ==
    [][\A d \in Delivery :
          /\ delivery[d].mode = "start" /\ delivery[d].status = "claimed"
          /\ delivery'[d].status # "claimed"
          => run'[delivery[d].run].status \notin Active]_vars

\* A run that a crash interrupted before its input was prepared is dispatched again.
CrashedRunResumes ==
    \A r \in Run :
        (r \notin owned /\ run[r].status = "waiting" /\ run[r].wait = "runtime_recovery")
            ~> run[r].status # "waiting"
=============================================================================
