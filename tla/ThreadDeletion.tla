--------------------------- MODULE ThreadDeletion ---------------------------
(***************************************************************************)
(* The permanent deletion of one Thread that runs a Mission. A delete      *)
(* command marks the Thread and returns; a coordinator stops its           *)
(* executions, deletes the business rows and hands the rest to a journal,  *)
(* which waits for the files and, where the user chose so, for the Git     *)
(* worktree. Preparation of the worktree, the worker that removes it and   *)
(* the business delete share one lifecycle gate, acceptance does not.      *)
(***************************************************************************)
EXTENDS Naturals, FiniteSets

CONSTANTS
    Retain, Cleanup,    \* delete commands, by their workspace disposition
    UserCleanup,        \* commands that clean the worktree of a Mission that stays
    Execution,          \* runs of the Thread
    NoAdapter,          \* those of them whose adapter kind is not recorded
    Limit,              \* AUTOMATIC_RETRY_LIMIT
    MaxFaults,          \* bound: failures of Git, files, stops or the database
    MaxCrashes,         \* bound: ends of the core
    None

Delete == Retain \cup Cleanup
Orphan == "orphan"      \* the fresh id missions.cleanup.retry makes
Command == Delete \cup UserCleanup \cup {Orphan}

ASSUME DispositionAssumption == Retain \cap Cleanup = {} /\ Delete \cap UserCleanup = {}
ASSUME AdapterAssumption == NoAdapter \subseteq Execution
ASSUME BoundAssumption == Limit \in Nat \ {0} /\ MaxFaults \in Nat /\ MaxCrashes \in Nat
ASSUME NoneAssumption == None \notin Command

VARIABLES
    camp,       \* the Thread's row: its deletion marker and retry checkpoint
    receipt,    \* results of the delete commands
    journal,    \* the camp_delete_cleanup row of camp_attachment_view_operation
    ws,         \* the mission_workspace row
    disk,       \* the worktree, its branch and the Thread's managed files
    exec,       \* the Thread's runs
    gate,       \* mission_workspace_gate
    prep,       \* a preparation of the worktree
    worker,     \* cleanup_mission_workspaces_locked
    coord,      \* process_camp_deletions, one at a time under camp_deletion_gate
    used,       \* user cleanup commands that were sent
    faults, crashes

vars == <<camp, receipt, journal, ws, disk, exec, gate, prep, worker, coord, used, faults, crashes>>
rows == <<camp, receipt, journal>>
actors == <<prep, worker, coord>>
rest == <<used, faults, crashes>>

NoReceipt == [status |-> "none"]
Rejected == [status |-> "rejected"]
NoRow == [state |-> "none", owner |-> None, wt |-> FALSE, br |-> FALSE]
IdlePrep == [at |-> "idle", run |-> None]
IdleCoord == [at |-> "idle", targets |-> {}, unproven |-> FALSE]

Open == camp.state = "open"
Deleting == camp.state = "deleting"
Gone == camp.state = "gone"
Finished(row) == row.wt /\ row.br
HasRow == ws.state # "none"

Init ==
    /\ camp = [state |-> "open", op |-> None, attempts |-> 0, attention |-> FALSE, due |-> FALSE]
    /\ receipt = [d \in Delete |-> NoReceipt]
    /\ journal = [status |-> "none", attempts |-> 0, attention |-> FALSE, due |-> FALSE]
    /\ ws = NoRow
    /\ disk = [tree |-> FALSE, branch |-> FALSE, files |-> TRUE]
    /\ exec = [e \in Execution |-> "none"]
    /\ gate = "free"
    /\ prep = IdlePrep /\ worker = "idle" /\ coord = IdleCoord
    /\ used = {} /\ faults = 0 /\ crashes = 0

\* Something outside the core fails.
Fault == faults < MaxFaults /\ faults' = faults + 1

(***************************************************************************)
(* Runs. What an execution does is the matter of PlannedShutdown; here it  *)
(* is only waited for. A run is claimed and registered under one database  *)
(* lock.                                                                   *)
(***************************************************************************)

Enqueue(e) ==
    /\ Open /\ exec[e] = "none"
    /\ exec' = [exec EXCEPT ![e] = "queued"]
    /\ UNCHANGED <<rows, ws, disk, gate, actors, rest>>

Claim(e) ==
    /\ Open /\ exec[e] = "prepared"
    /\ exec' = [exec EXCEPT ![e] = "running"]
    /\ UNCHANGED <<rows, ws, disk, gate, actors, rest>>

Finish(e) ==
    /\ exec[e] = "running"
    /\ exec' = [exec EXCEPT ![e] = "done"]
    /\ UNCHANGED <<rows, ws, disk, gate, actors, rest>>

\* The cancellation worker confirms a stop on its own.
ConfirmStop(e) ==
    /\ exec[e] = "stopping"
    /\ exec' = [exec EXCEPT ![e] = "done"]
    /\ UNCHANGED <<rows, ws, disk, gate, actors, rest>>

\* runtime_cleanup_blocked_since_connection for the Thread
Unconfirmed == {e \in Execution : exec[e] = "stopping"}
\* workspace_in_use
InUse == \E e \in Execution : exec[e] \in {"queued", "prepared", "running", "stopping"}

(***************************************************************************)
(* Commands                                                                *)
(***************************************************************************)

Accepted == {d \in Delete : receipt[d].status = "accepted"}

\* existing_operation: the marker, or the first accepted receipt once the Thread is gone.
ExistingOperation ==
    IF camp.op # None THEN camp.op
    ELSE IF Accepted # {} THEN (CHOOSE r \in {receipt[d] : d \in Accepted} : TRUE).op ELSE None

Records(d, r) == receipt' = [receipt EXCEPT ![d] = r]

\* A command that repeats a deletion, with an old version, or after the Thread is gone.
AnswerDelete(d) ==
    /\ receipt[d] = NoReceipt
    /\ IF ExistingOperation # None
       THEN Records(d, [status |-> "accepted", op |-> ExistingOperation, scheduled |-> FALSE])
       ELSE Records(d, Rejected)
    /\ UNCHANGED <<camp, journal, ws, disk, exec, gate, actors, rest>>

\* A removal of the worktree that the user may not turn into Retain any more.
CleanupRunning == ws.state = "cleanup_pending" /\ ~Finished(ws)

\* The runs are settled: one that this core owns has still to be stopped.
Settled(e) ==
    CASE exec[e] = "running" -> "stopping"
      [] exec[e] \in {"queued", "prepared"} -> "done"
      [] OTHER -> exec[e]

\* accept and install_camp_deletion_cutover
Accept(d) ==
    LET live == HasRow /\ ~Finished(ws) IN
    /\ receipt[d] = NoReceipt /\ ExistingOperation = None
    /\ d \in Retain => ~CleanupRunning
    /\ exec' = [e \in Execution |-> Settled(e)]
    /\ ws' = IF ~live THEN NoRow
             ELSE IF d \in Cleanup THEN [ws EXCEPT !.state = "cleanup_pending", !.owner = d]
             ELSE IF ws.state \in {"cleanup_pending", "cleanup_failed"}
             THEN [ws EXCEPT !.state = "ready", !.owner = None] ELSE ws
    /\ camp' = [state |-> "deleting", op |-> d, attempts |-> 0, attention |-> FALSE, due |-> TRUE]
    /\ Records(d, [status |-> "accepted", op |-> d, scheduled |-> live /\ d \in Cleanup])
    /\ UNCHANGED <<journal, disk, gate, actors, rest>>

\* retry
Retry ==
    /\ ExistingOperation # None /\ journal.status # "completed"
    /\ camp' = IF camp.op = None THEN camp
               ELSE [camp EXCEPT !.attempts = 0, !.attention = FALSE, !.due = TRUE]
    /\ IF journal.status = "none" THEN UNCHANGED <<journal, ws>>
       ELSE /\ journal' = [journal EXCEPT !.attempts = 0, !.attention = FALSE, !.due = TRUE]
            /\ ws' = IF ws.owner = ExistingOperation /\ ws.state = "cleanup_failed" /\ ~Finished(ws)
                     THEN [ws EXCEPT !.state = "cleanup_pending"] ELSE ws
    /\ UNCHANGED <<receipt, disk, exec, gate, actors, rest>>

\* missions.workspace.cleanup. Its envelope names no Thread: a deletion does not refuse it.
CleanWorkspace(c) ==
    /\ c \notin used /\ gate = "free" /\ ~Gone /\ HasRow
    /\ ws.state \notin {"cleanup_pending", "preparing"} /\ ~Finished(ws) /\ ~InUse
    /\ ws' = [ws EXCEPT !.state = "cleanup_pending", !.owner = c]
    /\ used' = used \cup {c}
    /\ UNCHANGED <<rows, disk, exec, gate, actors, faults, crashes>>

\* missions.cleanup.retry, for a worktree that no deletion owns
RetryOrphan ==
    /\ gate = "free" /\ Gone /\ ws.state = "cleanup_failed" /\ ~Finished(ws)
    /\ ws.owner # ExistingOperation
    /\ ws' = [ws EXCEPT !.state = "cleanup_pending", !.owner = Orphan]
    /\ UNCHANGED <<rows, disk, exec, gate, actors, rest>>

(***************************************************************************)
(* prepare_mission_execution_workspace                                     *)
(***************************************************************************)

PrepStep(a) == prep.at = a /\ UNCHANGED <<rows, worker, coord, used, crashes>>
PrepTo(a) == prep' = [prep EXCEPT !.at = a] /\ UNCHANGED gate
PrepEnds == prep' = IdlePrep /\ gate' = "free"

PrepBegin(e) ==
    /\ PrepStep("idle") /\ gate = "free" /\ Open /\ exec[e] = "queued"
    /\ gate' = "prep"
    /\ prep' = [at |-> IF HasRow THEN ws.state ELSE "new", run |-> e]
    /\ UNCHANGED <<ws, disk, exec, faults>>

PrepError ==
    /\ PrepStep(prep.at) /\ prep.at # "idle"
    /\ \/ prep.at \in {"new", "ready", "preparing", "validate"} /\ Fault
       \/ prep.at \in {"cleanup_pending", "cleanup_failed"} /\ ~Finished(ws) /\ UNCHANGED faults
    /\ PrepEnds
    /\ UNCHANGED <<ws, disk, exec>>

PrepPlan ==
    /\ PrepStep("new")
    /\ IF Open THEN ws' = [NoRow EXCEPT !.state = "preparing"] /\ PrepTo("preparing")
       ELSE UNCHANGED ws /\ PrepEnds
    /\ UNCHANGED <<disk, exec, faults>>

\* The compare-and-set of every write of a preparation.
StillOurs(s) == Open /\ ws.state = s

\* A worktree that is there is used again: it was ready, or its removal failed and left it
\* intact.
PrepAdopt ==
    /\ prep.at \in {"ready", "cleanup_failed"}
    /\ PrepStep(prep.at) /\ disk.tree
    /\ IF StillOurs(prep.at) THEN ws' = [NoRow EXCEPT !.state = "ready"] /\ PrepTo("validate")
       ELSE UNCHANGED ws /\ PrepEnds
    /\ UNCHANGED <<disk, exec, faults>>

\* A worktree that was removed is made again.
PrepAgain ==
    /\ prep.at \in {"cleanup_pending", "cleanup_failed", "ready"}
    /\ PrepStep(prep.at) /\ ~disk.tree /\ (prep.at = "ready" \/ Finished(ws) \/ ~HasRow)
    /\ IF StillOurs(prep.at) THEN ws' = [NoRow EXCEPT !.state = "preparing"] /\ PrepTo("preparing")
       ELSE UNCHANGED ws /\ PrepEnds
    /\ UNCHANGED <<disk, exec, faults>>

Materialize ==
    /\ PrepStep("preparing")
    /\ disk' = [disk EXCEPT !.tree = TRUE, !.branch = TRUE]
    /\ PrepTo("made")
    /\ UNCHANGED <<ws, exec, faults>>

PrepReady ==
    /\ PrepStep("made")
    /\ IF StillOurs("preparing") THEN ws' = [ws EXCEPT !.state = "ready"] /\ PrepTo("validate")
       ELSE UNCHANGED ws /\ PrepEnds
    /\ UNCHANGED <<disk, exec, faults>>

\* mission_workspace_preparation_is_current
PrepReturn ==
    /\ PrepStep("validate")
    /\ exec' = IF StillOurs("ready") /\ exec[prep.run] = "queued"
               THEN [exec EXCEPT ![prep.run] = "prepared"] ELSE exec
    /\ PrepEnds
    /\ UNCHANGED <<ws, disk, faults>>

(***************************************************************************)
(* cleanup_mission_workspaces_locked                                       *)
(***************************************************************************)

WorkerStep(a) == worker = a /\ UNCHANGED <<rows, exec, prep, coord, used, crashes>>
Row(row) == IF HasRow THEN row ELSE ws

\* mutant: worktrees of deleted Threads are not seen
PendingOfThread == CleanupRunning /\ Open

\* Worktrees to remove, but for those of a Thread that is being deleted.
Pending == CleanupRunning /\ ~Deleting

WorkerStart ==
    /\ WorkerStep("idle") /\ gate = "free" /\ Pending
    /\ gate' = "worker"
    /\ worker' = IF ws.wt THEN "branch" ELSE "verify"
    /\ UNCHANGED <<ws, disk, faults>>

\* The branch is looked up; one that is not there counts as removed.
Verify ==
    /\ WorkerStep("verify") /\ ws.state = "cleanup_pending"
    /\ ws' = [ws EXCEPT !.br = @ \/ ~disk.branch]
    /\ worker' = "tree"
    /\ UNCHANGED <<disk, gate, faults>>

RemoveTree ==
    /\ WorkerStep("tree")
    /\ disk' = [disk EXCEPT !.tree = FALSE]
    /\ worker' = "flag"
    /\ UNCHANGED <<ws, gate, faults>>

FlagTree ==
    /\ WorkerStep("flag")
    /\ ws' = Row([ws EXCEPT !.wt = TRUE])
    /\ worker' = "branch"
    /\ UNCHANGED <<disk, gate, faults>>

RemoveBranch ==
    /\ WorkerStep("branch")
    /\ disk' = [disk EXCEPT !.branch = FALSE]
    /\ worker' = "end"
    /\ UNCHANGED <<ws, gate, faults>>

FlagEnd ==
    /\ WorkerStep("end")
    /\ ws' = Row([ws EXCEPT !.state = "cleanup_pending", !.wt = TRUE, !.br = TRUE])
    /\ worker' = "publish"
    /\ UNCHANGED <<disk, gate, faults>>

\* mutant: the worker drops the row its journal waits for
NeverOwned == FALSE

\* An open journal of the same command keeps the row until it completes.
OwnedByJournal ==
    journal.status \in {"planned", "committed"} /\ ws.owner = ExistingOperation

Publish ==
    /\ WorkerStep("publish")
    /\ ws' = IF Gone /\ ~OwnedByJournal THEN NoRow ELSE ws
    /\ worker' = "idle" /\ gate' = "free"
    /\ UNCHANGED <<disk, faults>>

\* Git or the database fails, or Git refuses before anything was removed: the worktree of a
\* Thread that stays is then ready again.
WorkerFails(refused) ==
    /\ worker \in {"verify", "tree", "flag", "branch", "end"} /\ WorkerStep(worker)
    /\ refused => worker \in {"verify", "tree"}
    /\ worker = "branch" => HasRow /\ ~ws.br
    /\ Fault
    /\ ws' = IF ws.state # "cleanup_pending" THEN ws
             ELSE IF refused /\ Open THEN [NoRow EXCEPT !.state = "ready"]
             ELSE [ws EXCEPT !.state = "cleanup_failed"]
    /\ worker' = "idle" /\ gate' = "free"
    /\ UNCHANGED disk

(***************************************************************************)
(* process_camp_deletions_locked                                           *)
(***************************************************************************)

CoordStep(a) == coord.at = a /\ UNCHANGED <<receipt, prep, worker, used, crashes>>
CoordTo(a) == coord' = [IdleCoord EXCEPT !.at = a]

Backoff ==
    /\ \/ camp.op # None /\ ~camp.due /\ ~camp.attention
          /\ camp' = [camp EXCEPT !.due = TRUE] /\ UNCHANGED journal
       \/ journal.status = "committed" /\ ~journal.due /\ ~journal.attention
          /\ journal' = [journal EXCEPT !.due = TRUE] /\ UNCHANGED camp
    /\ UNCHANGED <<receipt, ws, disk, exec, gate, actors, rest>>

\* due_camps and list_camp_runtime_cleanup_targets
StartDeletion ==
    /\ CoordStep("idle") /\ Deleting /\ camp.due /\ ~camp.attention
    /\ coord' = [at |-> "stop", targets |-> Unconfirmed \ NoAdapter, unproven |-> FALSE]
    /\ UNCHANGED <<camp, journal, ws, disk, exec, gate, faults>>

\* stop_deleted_camp_runtimes
StopTarget(e) ==
    /\ CoordStep("stop") /\ e \in coord.targets
    /\ \/ /\ exec' = IF exec[e] = "stopping" THEN [exec EXCEPT ![e] = "done"] ELSE exec
          /\ coord' = [coord EXCEPT !.targets = @ \ {e}]
          /\ UNCHANGED faults
       \/ /\ Fault
          /\ coord' = [coord EXCEPT !.targets = @ \ {e}, !.unproven = TRUE]
          /\ UNCHANGED exec
    /\ UNCHANGED <<camp, journal, ws, disk, gate>>

\* force_fence_camp_for_deletion follows when every stop was proven.
FenceFleet ==
    /\ CoordStep("stop") /\ coord.targets = {}
    /\ \/ coord.unproven /\ CoordTo("failed") /\ UNCHANGED faults
       \/ ~coord.unproven /\ CoordTo("wait") /\ UNCHANGED faults
       \/ ~coord.unproven /\ Fault /\ CoordTo("failed")
    /\ UNCHANGED <<camp, journal, ws, disk, exec, gate>>

\* prepare_camp_delete_cleanup, under the gate
Prepare ==
    /\ CoordStep("wait") /\ gate = "free"
    /\ \/ /\ journal' = IF journal.status = "none" THEN [journal EXCEPT !.status = "planned"] ELSE journal
          /\ gate' = "coord" /\ CoordTo("commit") /\ UNCHANGED faults
       \/ /\ Fault
          /\ CoordTo("failed") /\ UNCHANGED <<journal, gate>>
    /\ UNCHANGED <<camp, ws, disk, exec>>

\* mutant: an execution that was not stopped does not hold the deletion
NeverHeld == FALSE

Held == Unconfirmed # {}

Scheduled == receipt[ExistingOperation].scheduled

\* mutant: the row of a worktree that is kept stays, and the trigger marks it
RowMarked ==
    IF ws.state \in {"ready", "preparing"} THEN [ws EXCEPT !.state = "cleanup_pending"] ELSE ws

\* The row of a worktree that is kept is dropped; of the others, the trigger
\* mission_camp_delete_cleanup marks those that nobody marked.
RowAfterDelete ==
    IF ~Scheduled THEN NoRow
    ELSE IF ws.state \in {"ready", "preparing"} THEN [ws EXCEPT !.state = "cleanup_pending"] ELSE ws

\* commit_business_delete
Commit ==
    /\ CoordStep("commit")
    /\ gate' = "free"
    /\ \/ /\ ~Held
          /\ ws' = RowAfterDelete
          /\ journal' = [status |-> "committed", attempts |-> 0, attention |-> FALSE, due |-> TRUE]
          /\ camp' = [state |-> "gone", op |-> None, attempts |-> 0, attention |-> FALSE, due |-> FALSE]
          /\ CoordTo("files") /\ UNCHANGED faults
       \/ Held /\ CoordTo("failed") /\ UNCHANGED <<camp, journal, ws, faults>>
       \/ ~Held /\ Fault
          /\ CoordTo("failed") /\ UNCHANGED <<camp, journal, ws>>
    /\ UNCHANGED <<disk, exec>>

\* One failure more; the last one asks for the user's attention.
Failed(row) ==
    [row EXCEPT !.attempts = @ + 1, !.attention = row.attempts + 1 >= Limit, !.due = FALSE]

\* record_camp_failure
RecordDeletionFailure ==
    /\ CoordStep("failed") /\ CoordTo("idle")
    /\ camp' = Failed(camp)
    /\ UNCHANGED <<journal, ws, disk, exec, gate, faults>>

\* due_cleanups
StartCleanup ==
    /\ CoordStep("idle") /\ journal.status = "committed" /\ journal.due /\ ~journal.attention
    /\ CoordTo("files")
    /\ UNCHANGED <<camp, journal, ws, disk, exec, gate, faults>>

\* apply_camp_delete_cleanup_files_at_root
RemoveFiles ==
    /\ CoordStep("files")
    /\ \/ disk' = [disk EXCEPT !.files = FALSE] /\ CoordTo("check") /\ UNCHANGED faults
       \/ UNCHANGED disk /\ CoordTo("stuck") /\ Fault
    /\ UNCHANGED <<camp, journal, ws, exec, gate>>

OwnerMissing == Scheduled /\ ws.owner # ExistingOperation

\* The rest of finish_background_camp_deletion_cleanup, to the last transaction.
CheckWorkspace ==
    LET owned == HasRow /\ ws.owner = ExistingOperation IN
    /\ CoordStep("check")
    /\ CoordTo(IF OwnerMissing \/ (owned /\ ws.state # "cleanup_pending") THEN "stuck"
               ELSE IF owned /\ ~Finished(ws) THEN "idle" ELSE "complete")
    /\ UNCHANGED <<camp, journal, ws, disk, exec, gate, faults>>

\* finalize_camp_delete_cleanup
Complete ==
    /\ CoordStep("complete") /\ CoordTo("idle")
    /\ ws' = IF ws.owner = ExistingOperation /\ Finished(ws) THEN NoRow ELSE ws
    /\ journal' = [journal EXCEPT !.status = "completed", !.attention = FALSE, !.due = FALSE]
    /\ UNCHANGED <<camp, disk, exec, gate, faults>>

RowReopened(j) ==
    IF ~j.attention /\ ws.owner = ExistingOperation /\ ws.state = "cleanup_failed" /\ ~Finished(ws)
    THEN [ws EXCEPT !.state = "cleanup_pending"] ELSE ws

\* record_cleanup_failure
RecordCleanupFailure ==
    /\ CoordStep("stuck") /\ CoordTo("idle")
    /\ journal' = Failed(journal)
    /\ ws' = RowReopened(Failed(journal))
    /\ UNCHANGED <<camp, disk, exec, gate, faults>>

\* The core ends and starts again. The marker is projected before anything runs, and a
\* journal that was prepared is left to the coordinator.
Crash ==
    /\ crashes < MaxCrashes /\ crashes' = crashes + 1
    /\ exec' = [e \in Execution |->
                  CASE exec[e] = "prepared" -> "queued"
                    [] exec[e] \in {"running", "stopping"} -> "done"
                    [] OTHER -> exec[e]]
    /\ gate' = "free" /\ prep' = IdlePrep /\ worker' = "idle" /\ coord' = IdleCoord
    /\ UNCHANGED <<rows, ws, disk, used, faults>>

Runs == \E e \in Execution : Enqueue(e) \/ Claim(e) \/ Finish(e) \/ ConfirmStop(e)
Commands ==
    \/ \E d \in Delete : AnswerDelete(d) \/ Accept(d)
    \/ Retry \/ RetryOrphan
    \/ \E c \in UserCleanup : CleanWorkspace(c)
Preparation ==
    \/ \E e \in Execution : PrepBegin(e)
    \/ PrepError \/ PrepPlan \/ PrepAdopt \/ PrepAgain \/ Materialize \/ PrepReady \/ PrepReturn
Worker ==
    \/ WorkerStart \/ Verify \/ RemoveTree \/ FlagTree \/ RemoveBranch \/ FlagEnd \/ Publish
    \/ \E refused \in BOOLEAN : WorkerFails(refused)
Coordinator ==
    \/ StartDeletion \/ FenceFleet \/ Prepare \/ Commit \/ RecordDeletionFailure
    \/ \E e \in Execution : StopTarget(e)
    \/ StartCleanup \/ RemoveFiles \/ CheckWorkspace \/ Complete \/ RecordCleanupFailure

Next == Runs \/ Commands \/ Preparation \/ Worker \/ Coordinator \/ Backoff \/ Crash

Spec == Init /\ [][Next]_vars

\* The coordinator runs every 15 seconds and the worker twice a minute, whoever forgets to wake
\* them; a preparation and a stop end; the user answers a notice.
FairSpec ==
    /\ Spec
    /\ WF_vars(Preparation) /\ WF_vars(Worker) /\ WF_vars(Coordinator) /\ WF_vars(Backoff)
    /\ \A e \in Execution : WF_vars(ConfirmStop(e))
    /\ WF_vars(Retry /\ (camp.attention \/ journal.attention))
    /\ WF_vars(RetryOrphan)
(***************************************************************************)
(* Properties                                                              *)
(***************************************************************************)

TypeOK ==
    /\ camp \in [state : {"open", "deleting", "gone"}, op : Delete \cup {None},
                 attempts : 0 .. Limit, attention : BOOLEAN, due : BOOLEAN]
    /\ receipt \in [Delete -> {NoReceipt, Rejected}
                      \cup [status : {"accepted"}, op : Delete, scheduled : BOOLEAN]]
    /\ journal \in [status : {"none", "planned", "committed", "completed"},
                    attempts : 0 .. Limit, attention : BOOLEAN, due : BOOLEAN]
    /\ ws \in [state : {"none", "preparing", "ready", "cleanup_pending", "cleanup_failed"},
               owner : Command \cup {None}, wt : BOOLEAN, br : BOOLEAN]
    /\ disk \in [tree : BOOLEAN, branch : BOOLEAN, files : BOOLEAN]
    /\ exec \in [Execution -> {"none", "queued", "prepared", "running", "stopping", "done"}]
    /\ gate \in {"free", "prep", "worker", "coord"}
    /\ prep \in [at : {"idle", "new", "preparing", "ready", "cleanup_pending", "cleanup_failed",
                       "made", "validate"}, run : Execution \cup {None}]
    /\ worker \in {"idle", "verify", "tree", "flag", "branch", "end", "publish"}
    /\ coord \in [at : {"idle", "stop", "wait", "commit", "failed", "files", "check", "complete",
                        "stuck"}, targets : SUBSET Execution, unproven : BOOLEAN]
    /\ used \subseteq UserCleanup /\ faults \in 0 .. MaxFaults /\ crashes \in 0 .. MaxCrashes

\* A deletion that was told to keep the worktree never removes it, whoever was about to
\* clean it when the deletion was accepted.
RetainedSurvives ==
    [][(ExistingOperation \in Retain) =>
         (disk.tree => disk'.tree) /\ (disk.branch => disk'.branch)]_vars

\* A deletion that is reported complete has left nothing: no managed file, and, where the
\* user did not ask to keep them, no worktree, branch or row, not even of a preparation that
\* was under way.
CompletedMeansClean ==
    journal.status = "completed" =>
        /\ ~disk.files
        /\ ExistingOperation \in Cleanup => ~disk.tree /\ ~disk.branch /\ ~HasRow

\* As long as a deletion that promised to remove the worktree is not complete, the row of the
\* worktree is there and names the deletion as its owner.
OwnerKept ==
    ExistingOperation # None /\ Scheduled /\ journal.status # "completed" =>
        HasRow /\ ws.owner = ExistingOperation

\* The business rows of a Thread go only when no execution of it is left whose stop was not
\* confirmed.
StoppedFirst ==
    [][Gone' /\ ~Gone => \A e \in Execution : exec[e] \notin {"running", "stopping"}]_vars

\* Every delete command after the first that was accepted is answered with the operation of
\* the first, also when the Thread is gone.
RepeatNamesOperation ==
    [][\A d \in Delete : receipt'[d] # receipt[d] /\ Accepted # {} =>
         receipt'[d].status = "accepted" /\ receipt'[d].op \in Accepted]_vars

\* A second cleanup command of the user may take the row away for good (ThreadDeletionOwner.cfg);
\* the promise is that nothing else does.
TakenOver == \E c, d \in used : c # d

\* What was accepted is what happens: until the deletion is complete its worktree is in its
\* hands, and when it is complete nothing is left.
PromiseKept == TypeOK /\ (OwnerKept \/ TakenOver) /\ CompletedMeansClean

\* There is one deletion of a Thread, and it comes after the stops.
DeletesInOrder == StoppedFirst /\ RepeatNamesOperation

\* What the contract of the deletion says of its retry, which makes a failed removal pending
\* again: there is something left to remove. Retry, due cleanups and the worker pass a failed
\* row with both checkpoints by.
FailedCanRetry == ws.state = "cleanup_failed" => ~Finished(ws)

\* A user who answers the notices of a deletion sees it complete: whatever failed, and
\* wherever the core ended, it is taken up again. It is lost only when another command takes
\* the row over, or when the removal fails after it recorded that both parts are gone.
DeletionCompletes ==
    (ExistingOperation # None) ~>
        (journal.status = "completed" \/ TakenOver \/ ~FailedCanRetry)
=============================================================================
