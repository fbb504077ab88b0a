----------------------- MODULE ThreadDeletion_proofs -----------------------
(***************************************************************************)
(* Proofs about ThreadDeletion, for any commands, executions, failures and *)
(* ends of the core.                                                       *)
(***************************************************************************)
EXTENDS ThreadDeletion, TLAPS

-----------------------------------------------------------------------------
(* The inductive invariant. *)

BeforeCommit == {"stop", "wait", "commit", "failed"}
AfterCommit == {"files", "check", "complete", "stuck"}

\* The gate is held by the one that works behind it.
GateHeld ==
    /\ gate = "prep" <=> prep.at # "idle"
    /\ gate = "worker" <=> worker # "idle"
    /\ gate = "coord" <=> coord.at = "commit"
    /\ prep.at # "idle" => prep.run \in Execution

\* The deletion of the Thread is the operation o, whichever command asks for it ...
OperationIs(o) ==
    /\ o \in Delete /\ receipt[o].status = "accepted"
    /\ \A d \in Accepted : receipt[d].op = o
    /\ receipt[o].scheduled => o \in Cleanup
    /\ camp.op \in {None, o}

\* ... and the marker of the Thread, the journal and the coordinator tell how far it is.
Stages ==
    /\ Open => camp.op = None /\ Accepted = {} /\ journal.status = "none"
    /\ Deleting => camp.op # None /\ journal.status \in {"none", "planned"}
    /\ Gone => camp.op = None /\ journal.status \in {"committed", "completed"} /\ prep.at = "idle"
    /\ ~Open => \E o \in Delete : OperationIs(o)
    /\ coord.at \in BeforeCommit => Deleting
    /\ coord.at \in AfterCommit => journal.status = "committed"

\* What asked for attention is not tried again before it was answered, so a failure never
\* exceeds the limit.
RetriesLeft ==
    /\ camp.attention \/ camp.attempts < Limit
    /\ journal.attention \/ journal.attempts < Limit
    /\ coord.at \in BeforeCommit => ~camp.attention
    /\ coord.at \in AfterCommit => ~journal.attention

\* The cutover of the acceptance left nothing that runs or could be claimed.
NoRunsLeft == ~Open => \A e \in Execution : exec[e] \in {"none", "stopping", "done"}

\* What the row says is removed is gone, and so is what the worker has behind it; of a worktree
\* that is being made nothing is removed.
RemovedIsGone ==
    /\ ws.wt => ~disk.tree
    /\ ws.br => ~disk.branch
    /\ prep.at = "preparing" \/ (Open /\ ws.state = "preparing") => ~ws.wt /\ ~ws.br
    /\ worker \in {"flag", "branch", "end", "publish"} => ~disk.tree
    /\ worker \in {"end", "publish"} => ~disk.branch
    /\ ~HasRow => ~ws.wt /\ ~ws.br /\ ws.owner = None

\* A worktree has a row, unless the user asked to keep it.
RowOfTree ==
    ExistingOperation \notin Retain =>
        /\ ~HasRow => ~disk.tree /\ ~disk.branch
        /\ prep.at = "preparing" => HasRow

\* Before the Thread is gone a worktree is removed only because the user asked once, and only
\* then a removal may fail.
NobodyAsked ==
    used = {} =>
        /\ Gone \/ worker = "idle"
        /\ Open => ws.state \notin {"cleanup_pending", "cleanup_failed"}
        /\ Deleting => ws.state # "cleanup_failed"

\* A worker that was under way when the Thread was marked has nothing to remove that the user
\* asked to keep.
WorkerKnown ==
    worker # "idle" =>
        /\ Open => ws.state = "cleanup_pending"
        /\ ExistingOperation \in Retain => ~disk.tree /\ ~disk.branch

\* The row of a deletion that keeps the worktree is dropped with the Thread, the row of one that
\* removes it is marked and owned, and there is none of a deletion that found none.
RowOwned ==
    /\ ExistingOperation \in Retain /\ Gone => ~HasRow
    /\ ExistingOperation \in Cleanup /\ ~Scheduled => ~HasRow
    /\ ExistingOperation \in Cleanup /\ Scheduled =>
        /\ journal.status # "completed" => TakenOver \/ (HasRow /\ ws.owner = ExistingOperation)
        /\ Deleting => TakenOver \/ ws.state \in {"cleanup_pending", "cleanup_failed"}
        /\ coord.at = "complete" => HasRow /\ ws.owner = ExistingOperation /\ Finished(ws)

\* The journal completes when the files and the row are gone.
CompletedAfter ==
    /\ coord.at \in {"check", "complete"} => ~disk.files
    /\ journal.status = "completed" =>
        ~disk.files /\ (ExistingOperation \in Cleanup => ~HasRow)

DeletionInv ==
    /\ TypeOK /\ GateHeld /\ Stages /\ RetriesLeft /\ NoRunsLeft /\ RemovedIsGone
    /\ RowOfTree /\ NobodyAsked /\ WorkerKnown /\ RowOwned /\ CompletedAfter

-----------------------------------------------------------------------------
(* Types, and what an operation is known by. *)

USE DEF rows, actors, rest, vars, Open, Deleting, Gone, HasRow, Finished

\* What the assumptions say of the commands, the runs and the bounds.
LEMMA Constants ==
  /\ Delete = Retain \cup Cleanup /\ Retain \cap Cleanup = {} /\ None \notin Delete
  /\ None \notin Command /\ Delete \subseteq Command /\ UserCleanup \subseteq Command
  /\ Orphan \in Command /\ UserCleanup \cap Delete = {}
  /\ NoAdapter \subseteq Execution /\ Limit \in Nat \ {0} /\ MaxFaults \in Nat /\ MaxCrashes \in Nat
BY DispositionAssumption, AdapterAssumption, BoundAssumption, NoneAssumption
DEF Delete, Command

\* The row of each table, and what the actions make of it.
LEMMA Rows ==
  ASSUME TypeOK
  PROVE  /\ \A d \in Delete :
               \/ receipt[d] \in {NoReceipt, Rejected}
               \/ /\ receipt[d].status = "accepted" /\ receipt[d].op \in Delete
                  /\ receipt[d].scheduled \in BOOLEAN
         /\ NoRow.state = "none" /\ NoRow.owner = None /\ ~NoRow.wt /\ ~NoRow.br
         /\ NoReceipt.status = "none" /\ Rejected.status = "rejected"
         /\ NoReceipt # Rejected
BY DEF TypeOK, NoRow, NoReceipt, Rejected

\* Whatever command was accepted, it names one operation.
LEMMA TheOperation ==
  ASSUME NEW c, NEW R, NEW o \in Delete, R[o].status = "accepted", c \in {None, o},
         \A d \in Delete : R[d].status = "accepted" => R[d].op = o
  PROVE  (IF c # None THEN c
          ELSE IF {d \in Delete : R[d].status = "accepted"} # {}
               THEN (CHOOSE r \in {R[d] : d \in {x \in Delete : R[x].status = "accepted"}} : TRUE).op
               ELSE None) = o
<1> DEFINE A == {R[d] : d \in {x \in Delete : R[x].status = "accepted"}}
           r == CHOOSE q \in A : TRUE
<1>1. R[o] \in A
  OBVIOUS
<1>2. r \in A
  BY <1>1
<1>3. r.op = o
  BY <1>2
<1> QED
  BY <1>3

\* The operation that is recorded is the one an accepted receipt names.
LEMMA OperationKnown ==
  ASSUME NEW o, OperationIs(o)
  PROVE  ExistingOperation = o /\ o \in Delete
<1>1. o \in Delete /\ receipt[o].status = "accepted" /\ camp.op \in {None, o}
  BY DEF OperationIs
<1>2. \A d \in Delete : receipt[d].status = "accepted" => receipt[d].op = o
  BY DEF OperationIs, Accepted
<1> QED
  BY <1>1, <1>2, TheOperation DEF ExistingOperation, Accepted

\* An open thread has no operation.
LEMMA NoOperation ==
  ASSUME Stages, Open
  PROVE  ExistingOperation = None
BY DEF Stages, ExistingOperation

\* Before the deletion there is no operation, and then there is one.
LEMMA Operations ==
  ASSUME Stages
  PROVE  /\ Open => ExistingOperation = None
         /\ ~Open => ExistingOperation \in Delete /\ OperationIs(ExistingOperation)
         /\ ExistingOperation \in Delete \cup {None}
<1>1. Open => ExistingOperation = None
  BY NoOperation
<1>2. ~Open => ExistingOperation \in Delete /\ OperationIs(ExistingOperation)
  <2> SUFFICES ASSUME ~Open PROVE ExistingOperation \in Delete /\ OperationIs(ExistingOperation)
    OBVIOUS
  <2>1. PICK o \in Delete : OperationIs(o)
    BY DEF Stages
  <2> QED
    BY <2>1, OperationKnown
<1> QED
  BY <1>1, <1>2

\* The operation is that of the receipts and the marker.
LEMMA OperationKept ==
  ASSUME receipt' = receipt, camp'.op = camp.op
  PROVE  /\ ExistingOperation' = ExistingOperation /\ Accepted' = Accepted
         /\ Scheduled' = Scheduled
         /\ \A o : OperationIs(o)' <=> OperationIs(o)
<1>1. Accepted' = Accepted
  BY DEF Accepted
<1>2. ExistingOperation' = ExistingOperation
  BY <1>1 DEF ExistingOperation
<1> QED
  BY <1>1, <1>2 DEF Scheduled, OperationIs

-----------------------------------------------------------------------------
(* What the actions make of the rows. *)

CampRow == [state : {"open", "deleting", "gone"}, op : Delete \cup {None},
            attempts : 0 .. Limit, attention : BOOLEAN, due : BOOLEAN]
JournalRow == [status : {"none", "planned", "committed", "completed"},
               attempts : 0 .. Limit, attention : BOOLEAN, due : BOOLEAN]
WorkspaceState == {"none", "preparing", "ready", "cleanup_pending", "cleanup_failed"}
WorkspaceRow == [state : WorkspaceState, owner : Command \cup {None}, wt : BOOLEAN, br : BOOLEAN]
Files == [tree : BOOLEAN, branch : BOOLEAN, files : BOOLEAN]
ReceiptRow == {NoReceipt, Rejected}
                \cup [status : {"accepted"}, op : Delete, scheduled : BOOLEAN]
ExecState == {"none", "queued", "prepared", "running", "stopping", "done"}
PrepState == {"idle", "new", "preparing", "ready", "cleanup_pending", "cleanup_failed", "made",
              "validate"}
PrepRecord == [at : PrepState, run : Execution \cup {None}]
CoordRecord == [at : {"idle"} \cup BeforeCommit \cup AfterCommit,
                targets : SUBSET Execution, unproven : BOOLEAN]

\* The type invariant by the names given to the rows here.
LEMMA Typed ==
  TypeOK <=>
    /\ camp \in CampRow /\ journal \in JournalRow /\ ws \in WorkspaceRow /\ disk \in Files
    /\ receipt \in [Delete -> ReceiptRow] /\ exec \in [Execution -> ExecState]
    /\ prep \in PrepRecord /\ coord \in CoordRecord
    /\ gate \in {"free", "prep", "worker", "coord"}
    /\ worker \in {"idle", "verify", "tree", "flag", "branch", "end", "publish"}
    /\ used \subseteq UserCleanup /\ faults \in 0 .. MaxFaults /\ crashes \in 0 .. MaxCrashes
<1>1. {"idle"} \cup BeforeCommit \cup AfterCommit
        = {"idle", "stop", "wait", "commit", "failed", "files", "check", "complete", "stuck"}
  BY DEF BeforeCommit, AfterCommit
<1> QED
  BY <1>1
  DEF TypeOK, CampRow, JournalRow, WorkspaceState, WorkspaceRow, Files, ReceiptRow, ExecState,
      PrepState, PrepRecord, CoordRecord

\* The updates of one row.
Renewed(row) == [row EXCEPT !.attempts = 0, !.attention = FALSE, !.due = TRUE]
Due(row) == [row EXCEPT !.due = TRUE]
WithStatus(row, s) == [row EXCEPT !.status = s]
Counted(row, n, a) == [row EXCEPT !.attempts = n, !.attention = a, !.due = FALSE]
Closed(row) == [row EXCEPT !.status = "completed", !.attention = FALSE, !.due = FALSE]
WithState(row, s) == [row EXCEPT !.state = s]
HandedTo(row, s, c) == [row EXCEPT !.state = s, !.owner = c]
Verified(row, b) == [row EXCEPT !.br = b]
Flagged(row) == [row EXCEPT !.wt = TRUE]
AllFlagged(row) == [row EXCEPT !.state = "cleanup_pending", !.wt = TRUE, !.br = TRUE]

\* The row of the thread when its retries begin anew or it is made due.
LEMMA CampUpdates ==
  ASSUME NEW row \in CampRow
  PROVE  /\ Renewed(row) \in CampRow /\ Due(row) \in CampRow
         /\ Renewed(row).state = row.state /\ Renewed(row).op = row.op
         /\ Renewed(row).attempts = 0 /\ ~Renewed(row).attention
         /\ Due(row).state = row.state /\ Due(row).op = row.op
         /\ Due(row).attempts = row.attempts /\ Due(row).attention = row.attention
<1>1. Renewed(row) \in CampRow
  <2>1. 0 \in 0 .. Limit
    BY BoundAssumption
  <2> QED
    BY <2>1 DEF CampRow, Renewed
<1>2. Due(row) \in CampRow
  BY DEF CampRow, Due
<1>3. /\ Renewed(row).state = row.state /\ Renewed(row).op = row.op
      /\ Renewed(row).attempts = 0 /\ Renewed(row).attention = FALSE
  BY DEF CampRow, Renewed
<1>4. /\ Due(row).state = row.state /\ Due(row).op = row.op
      /\ Due(row).attempts = row.attempts /\ Due(row).attention = row.attention
  BY DEF CampRow, Due
<1> QED
  BY <1>1, <1>2, <1>3, <1>4

\* The row of the thread after a failed attempt: the attempts run out or attention is asked for.
LEMMA CampFailed ==
  ASSUME NEW row \in CampRow, row.attempts < Limit
  PROVE  /\ Failed(row) \in CampRow /\ Failed(row).state = row.state /\ Failed(row).op = row.op
         /\ Failed(row).attention \/ Failed(row).attempts < Limit
<1> DEFINE n == row.attempts + 1
           a == row.attempts + 1 >= Limit
<1>1. row.attempts \in Nat /\ n \in 0 .. Limit /\ Limit \in Nat /\ a \in BOOLEAN
  BY BoundAssumption DEF CampRow
<1>2. Failed(row) = Counted(row, n, a)
  BY DEF Failed, Counted, CampRow
<1>3. a \/ n < Limit
  BY <1>1
<1> HIDE DEF n, a
<1>4. /\ Counted(row, n, a) \in CampRow
      /\ Counted(row, n, a).state = row.state /\ Counted(row, n, a).op = row.op
      /\ Counted(row, n, a).attempts = n /\ Counted(row, n, a).attention = a
  BY <1>1 DEF Counted, CampRow
<1> QED
  BY <1>2, <1>3, <1>4

\* The row of the journal when it is renewed, made due, closed or moved on.
LEMMA JournalUpdates ==
  ASSUME NEW row \in JournalRow
  PROVE  /\ Renewed(row) \in JournalRow /\ Due(row) \in JournalRow /\ Closed(row) \in JournalRow
         /\ Renewed(row).status = row.status /\ Renewed(row).attempts = 0
         /\ ~Renewed(row).attention
         /\ Due(row).status = row.status
         /\ Due(row).attempts = row.attempts /\ Due(row).attention = row.attention
         /\ Closed(row).status = "completed" /\ Closed(row).attempts = row.attempts
         /\ ~Closed(row).attention
         /\ WithStatus(row, "planned") \in JournalRow
         /\ WithStatus(row, "planned").status = "planned"
         /\ WithStatus(row, "planned").attempts = row.attempts
         /\ WithStatus(row, "planned").attention = row.attention
<1>1. Renewed(row) \in JournalRow
  <2>1. 0 \in 0 .. Limit
    BY BoundAssumption
  <2> QED
    BY <2>1 DEF JournalRow, Renewed
<1>2. Due(row) \in JournalRow
  BY DEF JournalRow, Due
<1>3. Closed(row) \in JournalRow
  BY DEF JournalRow, Closed
<1>4. WithStatus(row, "planned") \in JournalRow
  BY DEF JournalRow, WithStatus
<1>5. /\ Renewed(row).status = row.status /\ Renewed(row).attempts = 0
      /\ Renewed(row).attention = FALSE
  BY DEF JournalRow, Renewed
<1>6. /\ Due(row).status = row.status
      /\ Due(row).attempts = row.attempts /\ Due(row).attention = row.attention
  BY DEF JournalRow, Due
<1>7. /\ Closed(row).status = "completed" /\ Closed(row).attempts = row.attempts
      /\ Closed(row).attention = FALSE
  BY DEF JournalRow, Closed
<1>8. /\ WithStatus(row, "planned").status = "planned"
      /\ WithStatus(row, "planned").attempts = row.attempts
      /\ WithStatus(row, "planned").attention = row.attention
  BY DEF JournalRow, WithStatus
<1> QED
  BY <1>1, <1>2, <1>3, <1>4, <1>5, <1>6, <1>7, <1>8

\* The row of the journal after a failed attempt.
LEMMA JournalFailed ==
  ASSUME NEW row \in JournalRow, row.attempts < Limit
  PROVE  /\ Failed(row) \in JournalRow /\ Failed(row).status = row.status
         /\ Failed(row).attention \/ Failed(row).attempts < Limit
<1> DEFINE n == row.attempts + 1
           a == row.attempts + 1 >= Limit
<1>1. row.attempts \in Nat /\ n \in 0 .. Limit /\ Limit \in Nat /\ a \in BOOLEAN
  BY BoundAssumption DEF JournalRow
<1>2. Failed(row) = Counted(row, n, a)
  BY DEF Failed, Counted, JournalRow
<1>3. a \/ n < Limit
  BY <1>1
<1> HIDE DEF n, a
<1>4. /\ Counted(row, n, a) \in JournalRow
      /\ Counted(row, n, a).status = row.status
      /\ Counted(row, n, a).attempts = n /\ Counted(row, n, a).attention = a
  BY <1>1 DEF Counted, JournalRow
<1> QED
  BY <1>2, <1>3, <1>4

\* The row of the workspace when its state or its owner changes.
LEMMA WorkspaceUpdates ==
  ASSUME NEW row \in WorkspaceRow
  PROVE  /\ \A s \in WorkspaceState :
              /\ WithState(row, s) \in WorkspaceRow /\ WithState(row, s).state = s
              /\ WithState(row, s).owner = row.owner
              /\ WithState(row, s).wt = row.wt /\ WithState(row, s).br = row.br
         /\ \A s \in WorkspaceState, c \in Command \cup {None} :
              /\ HandedTo(row, s, c) \in WorkspaceRow /\ HandedTo(row, s, c).state = s
              /\ HandedTo(row, s, c).owner = c
              /\ HandedTo(row, s, c).wt = row.wt /\ HandedTo(row, s, c).br = row.br
         /\ \A b \in BOOLEAN :
              /\ Verified(row, b) \in WorkspaceRow /\ Verified(row, b).state = row.state
              /\ Verified(row, b).owner = row.owner
              /\ Verified(row, b).wt = row.wt /\ Verified(row, b).br = b
<1>1. ASSUME NEW s \in WorkspaceState
      PROVE  /\ WithState(row, s) \in WorkspaceRow /\ WithState(row, s).state = s
             /\ WithState(row, s).owner = row.owner
             /\ WithState(row, s).wt = row.wt /\ WithState(row, s).br = row.br
  BY DEF WithState, WorkspaceRow
<1>2. ASSUME NEW s \in WorkspaceState, NEW c \in Command \cup {None}
      PROVE  /\ HandedTo(row, s, c) \in WorkspaceRow /\ HandedTo(row, s, c).state = s
             /\ HandedTo(row, s, c).owner = c
             /\ HandedTo(row, s, c).wt = row.wt /\ HandedTo(row, s, c).br = row.br
  BY DEF HandedTo, WorkspaceRow
<1>3. ASSUME NEW b \in BOOLEAN
      PROVE  /\ Verified(row, b) \in WorkspaceRow /\ Verified(row, b).state = row.state
             /\ Verified(row, b).owner = row.owner
             /\ Verified(row, b).wt = row.wt /\ Verified(row, b).br = b
  BY DEF Verified, WorkspaceRow
<1> QED
  BY <1>1, <1>2, <1>3

\* The row of the workspace when a removal is recorded.
LEMMA WorkspaceFlags ==
  ASSUME NEW row \in WorkspaceRow
  PROVE  /\ Flagged(row) \in WorkspaceRow /\ Flagged(row).state = row.state
         /\ Flagged(row).owner = row.owner /\ Flagged(row).wt = TRUE /\ Flagged(row).br = row.br
         /\ AllFlagged(row) \in WorkspaceRow /\ AllFlagged(row).state = "cleanup_pending"
         /\ AllFlagged(row).owner = row.owner
         /\ AllFlagged(row).wt = TRUE /\ AllFlagged(row).br = TRUE
<1>1. /\ Flagged(row) \in WorkspaceRow /\ Flagged(row).state = row.state
      /\ Flagged(row).owner = row.owner /\ Flagged(row).wt = TRUE /\ Flagged(row).br = row.br
  BY DEF Flagged, WorkspaceRow
<1>2. /\ AllFlagged(row) \in WorkspaceRow /\ AllFlagged(row).state = "cleanup_pending"
      /\ AllFlagged(row).owner = row.owner
      /\ AllFlagged(row).wt = TRUE /\ AllFlagged(row).br = TRUE
  BY DEF AllFlagged, WorkspaceRow, WorkspaceState
<1> QED
  BY <1>1, <1>2

\* A new row, and the row of nothing.
Fresh(s) == [NoRow EXCEPT !.state = s]

\* The row of a workspace that was just created, and the one of a workspace that is not there.
LEMMA NewRows ==
  /\ NoRow \in WorkspaceRow /\ NoRow.state = "none" /\ NoRow.owner = None /\ ~NoRow.wt /\ ~NoRow.br
  /\ \A s \in WorkspaceState :
       /\ Fresh(s) \in WorkspaceRow /\ Fresh(s).state = s /\ Fresh(s).owner = None
       /\ ~Fresh(s).wt /\ ~Fresh(s).br
BY DEF Fresh, NoRow, WorkspaceRow, WorkspaceState

-----------------------------------------------------------------------------
(* What each action does. *)

\* The worker removes a worktree in steps and keeps its row, unless the Thread is gone and no
\* journal waits for it.
LEMMA WorkerFields ==
  ASSUME TypeOK
  PROVE  /\ Worker => UNCHANGED <<rows, exec, prep, coord, used, crashes>>
         /\ WorkerStart =>
              /\ worker = "idle" /\ gate = "free" /\ gate' = "worker" /\ CleanupRunning /\ ~Deleting
              /\ worker' = (IF ws.wt THEN "branch" ELSE "verify")
              /\ UNCHANGED <<ws, disk, faults>>
         /\ Verify =>
              /\ worker = "verify" /\ worker' = "tree" /\ UNCHANGED <<disk, gate, faults>>
              /\ ws' \in WorkspaceRow /\ ws'.state = ws.state /\ ws'.owner = ws.owner
              /\ ws.state = "cleanup_pending"
              /\ ws'.wt = ws.wt /\ ws'.br = (ws.br \/ ~disk.branch)
         /\ RemoveTree =>
              /\ worker = "tree" /\ worker' = "flag" /\ UNCHANGED <<ws, gate, faults>>
              /\ disk' \in Files /\ disk'.tree = FALSE
              /\ disk'.branch = disk.branch /\ disk'.files = disk.files
         /\ FlagTree =>
              /\ worker = "flag" /\ worker' = "branch" /\ UNCHANGED <<disk, gate, faults>>
              /\ ws' \in WorkspaceRow /\ ws'.state = ws.state /\ ws'.owner = ws.owner
              /\ ws'.br = ws.br /\ ws'.wt = (HasRow \/ ws.wt)
         /\ RemoveBranch =>
              /\ worker = "branch" /\ worker' = "end" /\ UNCHANGED <<ws, gate, faults>>
              /\ disk' \in Files /\ disk'.branch = FALSE
              /\ disk'.tree = disk.tree /\ disk'.files = disk.files
         /\ FlagEnd =>
              /\ worker = "end" /\ worker' = "publish" /\ UNCHANGED <<disk, gate, faults>>
              /\ \/ ~HasRow /\ ws' = ws
                 \/ /\ HasRow /\ ws' \in WorkspaceRow /\ ws'.state = "cleanup_pending"
                    /\ ws'.owner = ws.owner /\ ws'.wt = TRUE /\ ws'.br = TRUE
         /\ Publish =>
              /\ worker = "publish" /\ worker' = "idle" /\ gate' = "free"
              /\ UNCHANGED <<disk, faults>>
              /\ \/ ws' = ws
                 \/ Gone /\ ~OwnedByJournal /\ ws' = NoRow
         /\ \A f \in BOOLEAN : WorkerFails(f) =>
              /\ worker \in {"verify", "tree", "flag", "branch", "end"} /\ worker' = "idle"
              /\ gate' = "free"
              /\ disk' = disk /\ faults' \in 0 .. MaxFaults
              /\ \/ ws' = ws
                 \/ /\ ws.state = "cleanup_pending" /\ Open /\ worker \in {"verify", "tree"}
                    /\ ws' \in WorkspaceRow /\ ws'.state = "ready" /\ ws'.owner = None
                    /\ ~ws'.wt /\ ~ws'.br
                 \/ /\ ws.state = "cleanup_pending" /\ ws' \in WorkspaceRow
                    /\ ws'.state = "cleanup_failed" /\ ws'.owner = ws.owner
                    /\ ws'.wt = ws.wt /\ ws'.br = ws.br
<1> USE DEF WorkerStep
<1>a. ws \in WorkspaceRow /\ disk \in Files
  BY Typed
<1>0. Worker => UNCHANGED <<rows, exec, prep, coord, used, crashes>>
  BY DEF Worker, WorkerStart, Verify, RemoveTree, FlagTree, RemoveBranch, FlagEnd, Publish,
         WorkerFails
<1>1. WorkerStart =>
        /\ worker = "idle" /\ gate = "free" /\ gate' = "worker" /\ CleanupRunning /\ ~Deleting
        /\ worker' = (IF ws.wt THEN "branch" ELSE "verify")
        /\ UNCHANGED <<ws, disk, faults>>
  BY DEF WorkerStart, Pending
<1>2. ASSUME Verify
      PROVE  /\ worker = "verify" /\ worker' = "tree" /\ UNCHANGED <<disk, gate, faults>>
             /\ ws' \in WorkspaceRow /\ ws'.state = ws.state /\ ws'.owner = ws.owner
             /\ ws.state = "cleanup_pending"
             /\ ws'.wt = ws.wt /\ ws'.br = (ws.br \/ ~disk.branch)
  <2> DEFINE b == ws.br \/ ~disk.branch
  <2>1. ws' = Verified(ws, b) /\ b \in BOOLEAN
    BY <1>2, <1>a DEF Verify, Verified, WorkspaceRow
  <2> HIDE DEF b
  <2>2. ws.state \in WorkspaceState /\ ws.owner \in Command \cup {None}
    BY <1>a DEF WorkspaceRow
  <2>3. /\ ws' \in WorkspaceRow /\ ws'.state = ws.state /\ ws'.owner = ws.owner
        /\ ws'.wt = ws.wt /\ ws'.br = b
    BY <1>a, <2>1, <2>2, WorkspaceUpdates
  <2> QED
    BY <1>2, <2>3 DEF Verify, b
<1>3. ASSUME RemoveTree
      PROVE  /\ worker = "tree" /\ worker' = "flag" /\ UNCHANGED <<ws, gate, faults>>
             /\ disk' \in Files /\ disk'.tree = FALSE
             /\ disk'.branch = disk.branch /\ disk'.files = disk.files
  BY <1>3, <1>a DEF RemoveTree, Files
<1>4. ASSUME FlagTree
      PROVE  /\ worker = "flag" /\ worker' = "branch" /\ UNCHANGED <<disk, gate, faults>>
             /\ ws' \in WorkspaceRow /\ ws'.state = ws.state /\ ws'.owner = ws.owner
             /\ ws'.br = ws.br /\ ws'.wt = (HasRow \/ ws.wt)
  <2>1. ws' = IF HasRow THEN Flagged(ws) ELSE ws
    BY <1>4 DEF FlagTree, Row, Flagged
  <2>2. ws.state \in WorkspaceState /\ ws.owner \in Command \cup {None} /\ ws.wt \in BOOLEAN
    BY <1>a DEF WorkspaceRow
  <2> QED
    <3>1. CASE HasRow
      BY <1>4, <1>a, <2>1, <3>1, WorkspaceFlags DEF FlagTree
    <3>2. CASE ~HasRow
      BY <1>4, <1>a, <2>1, <2>2, <3>2 DEF FlagTree
    <3> QED
      BY <3>1, <3>2
<1>5. ASSUME RemoveBranch
      PROVE  /\ worker = "branch" /\ worker' = "end" /\ UNCHANGED <<ws, gate, faults>>
             /\ disk' \in Files /\ disk'.branch = FALSE
             /\ disk'.tree = disk.tree /\ disk'.files = disk.files
  BY <1>5, <1>a DEF RemoveBranch, Files
<1>6. ASSUME FlagEnd
      PROVE  /\ worker = "end" /\ worker' = "publish" /\ UNCHANGED <<disk, gate, faults>>
             /\ \/ ~HasRow /\ ws' = ws
                \/ /\ HasRow /\ ws' \in WorkspaceRow /\ ws'.state = "cleanup_pending"
                   /\ ws'.owner = ws.owner /\ ws'.wt = TRUE /\ ws'.br = TRUE
  <2>1. ws' = IF HasRow THEN AllFlagged(ws) ELSE ws
    BY <1>6 DEF FlagEnd, Row, AllFlagged
  <2>2. ws.state \in WorkspaceState /\ ws.owner \in Command \cup {None} /\ ws.wt \in BOOLEAN
    BY <1>a DEF WorkspaceRow
  <2> QED
    BY <1>6, <1>a, <2>1, WorkspaceFlags DEF FlagEnd
<1>7. ASSUME Publish
      PROVE  /\ worker = "publish" /\ worker' = "idle" /\ gate' = "free"
             /\ UNCHANGED <<disk, faults>>
             /\ \/ ws' = ws
                \/ Gone /\ ~OwnedByJournal /\ ws' = NoRow
  BY <1>7 DEF Publish
<1>8. ASSUME NEW f \in BOOLEAN, WorkerFails(f)
      PROVE  /\ worker \in {"verify", "tree", "flag", "branch", "end"} /\ worker' = "idle"
              /\ gate' = "free"
             /\ disk' = disk /\ faults' \in 0 .. MaxFaults
             /\ \/ ws' = ws
                \/ /\ ws.state = "cleanup_pending" /\ Open /\ worker \in {"verify", "tree"}
                   /\ ws' \in WorkspaceRow /\ ws'.state = "ready" /\ ws'.owner = None
                   /\ ~ws'.wt /\ ~ws'.br
                \/ /\ ws.state = "cleanup_pending" /\ ws' \in WorkspaceRow
                   /\ ws'.state = "cleanup_failed" /\ ws'.owner = ws.owner
                   /\ ws'.wt = ws.wt /\ ws'.br = ws.br
  <2>1. /\ worker \in {"verify", "tree", "flag", "branch", "end"} /\ worker' = "idle"
              /\ gate' = "free"
        /\ disk' = disk /\ (f => worker \in {"verify", "tree"})
    BY <1>8 DEF WorkerFails
  <2>2. faults' \in 0 .. MaxFaults
    BY <1>8, Typed, BoundAssumption DEF WorkerFails, Fault
  <2>3. \/ ws' = ws
        \/ ws.state = "cleanup_pending" /\ f /\ Open /\ ws' = Fresh("ready")
        \/ ws.state = "cleanup_pending" /\ ws' = WithState(ws, "cleanup_failed")
    BY <1>8 DEF WorkerFails, WithState, Fresh
  <2>4. ws.state \in WorkspaceState /\ ws.owner \in Command \cup {None} /\ ws.wt \in BOOLEAN
        /\ "cleanup_failed" \in WorkspaceState /\ "ready" \in WorkspaceState
    BY <1>a DEF WorkspaceRow, WorkspaceState
  <2>5. CASE ws' = ws
    BY <2>1, <2>2, <2>5
  <2>6. CASE ws.state = "cleanup_pending" /\ f /\ Open /\ ws' = Fresh("ready")
    BY <2>1, <2>2, <2>4, <2>6, NewRows
  <2>7. CASE ws.state = "cleanup_pending" /\ ws' = WithState(ws, "cleanup_failed")
    <3>1. /\ ws' \in WorkspaceRow /\ ws'.state = "cleanup_failed" /\ ws'.owner = ws.owner
          /\ ws'.wt = ws.wt /\ ws'.br = ws.br
      <4>1. ASSUME NEW s \in WorkspaceState, ws' = WithState(ws, s)
            PROVE  /\ ws' \in WorkspaceRow /\ ws'.state = s /\ ws'.owner = ws.owner
                   /\ ws'.wt = ws.wt /\ ws'.br = ws.br
        BY <1>a, <4>1, WorkspaceUpdates
      <4> QED
        BY <2>4, <2>7, <4>1
    <3> QED
      BY <2>1, <2>2, <2>7, <3>1
  <2> QED
    BY <2>3, <2>5, <2>6, <2>7
<1> QED
  BY <1>0, <1>1, <1>2, <1>3, <1>4, <1>5, <1>6, <1>7, <1>8

\* A preparation writes the row of the worktree under the gate, and only while the Thread is
\* open; it makes the worktree when the row says so.
Ends == prep' = IdlePrep /\ gate' = "free"
Goes(a) == prep' \in PrepRecord /\ prep'.at = a /\ prep'.run = prep.run /\ gate' = gate
Writes(s) ==
    /\ Open /\ ws' \in WorkspaceRow /\ ws'.state = s /\ ws'.owner = None /\ ~ws'.wt /\ ~ws'.br

\* What each step of a preparation reads and writes.
LEMMA PrepFields ==
  ASSUME TypeOK
  PROVE  /\ Preparation => UNCHANGED <<rows, worker, coord, used, crashes>>
         /\ \A e \in Execution : PrepBegin(e) =>
              /\ prep.at = "idle" /\ gate = "free" /\ gate' = "prep" /\ Open
              /\ prep' \in PrepRecord /\ prep'.at # "idle" /\ prep'.run = e
              /\ prep'.at = "preparing" => ws.state = "preparing"
              /\ UNCHANGED <<ws, disk, exec, faults>>
         /\ PrepError =>
              /\ prep.at # "idle" /\ Ends /\ faults' \in 0 .. MaxFaults
              /\ UNCHANGED <<ws, disk, exec>>
         /\ PrepPlan =>
              /\ prep.at = "new" /\ UNCHANGED <<disk, exec, faults>>
              /\ \/ Writes("preparing") /\ Goes("preparing")
                 \/ ws' = ws /\ Ends
         /\ PrepAdopt =>
              /\ prep.at \in {"ready", "cleanup_failed"} /\ UNCHANGED <<disk, exec, faults>>
              /\ \/ Writes("ready") /\ Goes("validate")
                 \/ ws' = ws /\ Ends
         /\ PrepAgain =>
              /\ prep.at \in {"cleanup_pending", "cleanup_failed", "ready"}
              /\ UNCHANGED <<disk, exec, faults>>
              /\ \/ Writes("preparing") /\ Goes("preparing")
                 \/ ws' = ws /\ Ends
         /\ Materialize =>
              /\ prep.at = "preparing" /\ Goes("made") /\ UNCHANGED <<ws, exec, faults>>
              /\ disk' \in Files /\ disk'.tree = TRUE /\ disk'.branch = TRUE
              /\ disk'.files = disk.files
         /\ PrepReady =>
              /\ prep.at = "made" /\ UNCHANGED <<disk, exec, faults>>
              /\ \/ /\ Open /\ ws.state = "preparing" /\ Goes("validate")
                    /\ ws' \in WorkspaceRow /\ ws'.state = "ready" /\ ws'.owner = ws.owner
                    /\ ws'.wt = ws.wt /\ ws'.br = ws.br
                 \/ ws' = ws /\ Ends
         /\ PrepReturn =>
              /\ prep.at = "validate" /\ Ends /\ UNCHANGED <<ws, disk, faults>>
              /\ exec' \in [Execution -> ExecState] /\ (~Open => exec' = exec)
<1> USE DEF PrepStep, PrepEnds, Ends
<1>a. ws \in WorkspaceRow /\ disk \in Files /\ prep \in PrepRecord
  BY Typed
<1>b. ASSUME NEW a \in PrepState, PrepTo(a) PROVE Goes(a)
  BY <1>a, <1>b DEF PrepTo, Goes, PrepRecord
<1>c. /\ {"preparing", "made", "validate"} \subseteq PrepState
      /\ {"preparing", "ready"} \subseteq WorkspaceState
  BY DEF PrepState, WorkspaceState
<1>d. ASSUME NEW s \in {"preparing", "ready"}, Open, ws' = [NoRow EXCEPT !.state = s]
      PROVE  Writes(s)
  <2>1. ws' = Fresh(s)
    BY <1>d DEF Fresh
  <2> QED
    BY <1>c, <1>d, <2>1, NewRows DEF Writes
<1>0. Preparation => UNCHANGED <<rows, worker, coord, used, crashes>>
  BY DEF Preparation, PrepBegin, PrepError, PrepPlan, PrepAdopt, PrepAgain, Materialize,
         PrepReady, PrepReturn
<1>1. ASSUME NEW e \in Execution, PrepBegin(e)
      PROVE  /\ prep.at = "idle" /\ gate = "free" /\ gate' = "prep" /\ Open
             /\ prep' \in PrepRecord /\ prep'.at # "idle" /\ prep'.run = e
             /\ prep'.at = "preparing" => ws.state = "preparing"
             /\ UNCHANGED <<ws, disk, exec, faults>>
  BY <1>1, <1>a DEF PrepBegin, PrepRecord, PrepState, WorkspaceRow, WorkspaceState
<1>2. ASSUME PrepError
      PROVE  /\ prep.at # "idle" /\ Ends /\ faults' \in 0 .. MaxFaults
             /\ UNCHANGED <<ws, disk, exec>>
  BY <1>2, Typed, BoundAssumption DEF PrepError, Fault
<1>3. ASSUME PrepPlan
      PROVE  /\ prep.at = "new" /\ UNCHANGED <<disk, exec, faults>>
             /\ \/ Writes("preparing") /\ Goes("preparing")
                \/ ws' = ws /\ Ends
  BY <1>3, <1>b, <1>c, <1>d DEF PrepPlan
<1>4. ASSUME PrepAdopt
      PROVE  /\ prep.at \in {"ready", "cleanup_failed"} /\ UNCHANGED <<disk, exec, faults>>
             /\ \/ Writes("ready") /\ Goes("validate")
                \/ ws' = ws /\ Ends
  BY <1>4, <1>b, <1>c, <1>d DEF PrepAdopt, StillOurs
<1>5. ASSUME PrepAgain
      PROVE  /\ prep.at \in {"cleanup_pending", "cleanup_failed", "ready"}
             /\ UNCHANGED <<disk, exec, faults>>
             /\ \/ Writes("preparing") /\ Goes("preparing")
                \/ ws' = ws /\ Ends
  BY <1>5, <1>b, <1>c, <1>d DEF PrepAgain, StillOurs
<1>6. ASSUME Materialize
      PROVE  /\ prep.at = "preparing" /\ Goes("made") /\ UNCHANGED <<ws, exec, faults>>
             /\ disk' \in Files /\ disk'.tree = TRUE /\ disk'.branch = TRUE
             /\ disk'.files = disk.files
  <2>1. Goes("made")
    BY <1>6, <1>b, <1>c DEF Materialize
  <2>2. disk' \in Files /\ disk'.tree = TRUE /\ disk'.branch = TRUE /\ disk'.files = disk.files
    BY <1>6, <1>a DEF Materialize, Files
  <2> QED
    BY <1>6, <2>1, <2>2 DEF Materialize
<1>7. ASSUME PrepReady
      PROVE  /\ prep.at = "made" /\ UNCHANGED <<disk, exec, faults>>
             /\ \/ /\ Open /\ ws.state = "preparing" /\ Goes("validate")
                   /\ ws' \in WorkspaceRow /\ ws'.state = "ready" /\ ws'.owner = ws.owner
                   /\ ws'.wt = ws.wt /\ ws'.br = ws.br
                \/ ws' = ws /\ Ends
  <2>1. CASE StillOurs("preparing")
    <3>1. ws' = WithState(ws, "ready")
      BY <1>7, <2>1 DEF PrepReady, WithState
    <3>2. /\ ws' \in WorkspaceRow /\ ws'.state = "ready" /\ ws'.owner = ws.owner
          /\ ws'.wt = ws.wt /\ ws'.br = ws.br
      BY <1>a, <1>c, <3>1, WorkspaceUpdates
    <3> QED
      BY <1>7, <1>b, <1>c, <2>1, <3>2 DEF PrepReady, StillOurs
  <2> QED
    BY <1>7, <2>1 DEF PrepReady
<1>8. ASSUME PrepReturn
      PROVE  /\ prep.at = "validate" /\ Ends /\ UNCHANGED <<ws, disk, faults>>
             /\ exec' \in [Execution -> ExecState] /\ (~Open => exec' = exec)
  BY <1>8, Typed DEF PrepReturn, StillOurs, ExecState
<1> QED
  BY <1>0, <1>1, <1>2, <1>3, <1>4, <1>5, <1>6, <1>7, <1>8

\* The coordinator works in stages; only its transactions write the rows.
At(a) == coord.at = a
Stage(a) == coord' \in CoordRecord /\ coord'.at = a

\* What each step of the coordinator reads and writes.
LEMMA CoordFields ==
  ASSUME TypeOK, RetriesLeft
  PROVE  /\ Coordinator => UNCHANGED <<receipt, prep, worker, used, crashes>>
         /\ StartDeletion =>
              /\ At("idle") /\ Stage("stop") /\ Deleting /\ ~camp.attention
              /\ UNCHANGED <<camp, journal, ws, disk, exec, gate, faults>>
         /\ \A e \in Execution : StopTarget(e) =>
              /\ At("stop") /\ Stage("stop") /\ faults' \in 0 .. MaxFaults
              /\ exec' \in [Execution -> ExecState]
              /\ \A x \in Execution : exec'[x] \in {exec[x], "done"}
              /\ UNCHANGED <<camp, journal, ws, disk, gate>>
         /\ FenceFleet =>
              /\ At("stop") /\ (Stage("wait") \/ Stage("failed")) /\ faults' \in 0 .. MaxFaults
              /\ UNCHANGED <<camp, journal, ws, disk, exec, gate>>
         /\ Prepare =>
              /\ At("wait") /\ faults' \in 0 .. MaxFaults /\ UNCHANGED <<camp, ws, disk, exec>>
              /\ \/ /\ gate = "free" /\ gate' = "coord" /\ Stage("commit")
                    /\ journal' \in JournalRow
                    /\ journal'.status
                         = (IF journal.status = "none" THEN "planned" ELSE journal.status)
                    /\ journal'.attempts = journal.attempts
                    /\ journal'.attention = journal.attention
                 \/ Stage("failed") /\ UNCHANGED <<journal, gate>>
         /\ Commit =>
              /\ At("commit") /\ gate' = "free" /\ faults' \in 0 .. MaxFaults
              /\ UNCHANGED <<disk, exec>>
              /\ \/ /\ Unconfirmed = {} /\ Stage("files")
                    /\ camp' \in CampRow /\ camp'.state = "gone" /\ camp'.op = None
                    /\ camp'.attempts = 0
                    /\ journal' \in JournalRow /\ journal'.status = "committed"
                    /\ journal'.attempts = 0 /\ ~journal'.attention
                    /\ \/ ~Scheduled /\ ws' = NoRow
                       \/ Scheduled /\ ws' = ws
                       \/ /\ Scheduled /\ ws' \in WorkspaceRow /\ HasRow
                          /\ ws'.state = "cleanup_pending"
                          /\ ws'.owner = ws.owner /\ ws'.wt = ws.wt /\ ws'.br = ws.br
                 \/ Stage("failed") /\ UNCHANGED <<camp, journal, ws>>
         /\ RecordDeletionFailure =>
              /\ At("failed") /\ Stage("idle") /\ UNCHANGED <<journal, ws, disk, exec, gate,
                                                              faults>>
              /\ ~camp.attention =>
                    /\ camp' \in CampRow /\ camp'.state = camp.state /\ camp'.op = camp.op
                    /\ camp'.attention \/ camp'.attempts < Limit
         /\ StartCleanup =>
              /\ At("idle") /\ Stage("files") /\ journal.status = "committed" /\ ~journal.attention
              /\ UNCHANGED <<camp, journal, ws, disk, exec, gate, faults>>
         /\ RemoveFiles =>
              /\ At("files") /\ faults' \in 0 .. MaxFaults
              /\ UNCHANGED <<camp, journal, ws, exec, gate>>
              /\ \/ /\ Stage("check") /\ disk' \in Files /\ disk'.files = FALSE
                    /\ disk'.tree = disk.tree /\ disk'.branch = disk.branch
                 \/ Stage("stuck") /\ disk' = disk
         /\ CheckWorkspace =>
              /\ At("check") /\ UNCHANGED <<camp, journal, ws, disk, exec, gate, faults>>
              /\ \/ Stage("stuck") \/ Stage("idle")
                 \/ /\ Stage("complete") /\ ~OwnerMissing
                    /\ HasRow /\ ws.owner = ExistingOperation => Finished(ws)
         /\ Complete =>
              /\ At("complete") /\ Stage("idle") /\ UNCHANGED <<camp, disk, exec, gate, faults>>
              /\ journal' \in JournalRow /\ journal'.status = "completed"
              /\ journal'.attempts = journal.attempts /\ ~journal'.attention
              /\ ws' = (IF ws.owner = ExistingOperation /\ Finished(ws) THEN NoRow ELSE ws)
         /\ RecordCleanupFailure =>
              /\ At("stuck") /\ Stage("idle") /\ UNCHANGED <<camp, disk, exec, gate, faults>>
              /\ ~journal.attention =>
                    /\ journal' \in JournalRow /\ journal'.status = journal.status
                    /\ journal'.attention \/ journal'.attempts < Limit
              /\ \/ ws' = ws
                 \/ /\ ws' \in WorkspaceRow /\ ws'.state = "cleanup_pending"
                    /\ ws.state = "cleanup_failed"
                    /\ ws'.owner = ws.owner /\ ws'.wt = ws.wt /\ ws'.br = ws.br
<1> USE DEF CoordStep, At
<1>a. /\ ws \in WorkspaceRow /\ disk \in Files /\ coord \in CoordRecord /\ camp \in CampRow
      /\ journal \in JournalRow /\ exec \in [Execution -> ExecState]
  BY Typed
<1>b. ASSUME NEW a \in {"idle"} \cup BeforeCommit \cup AfterCommit, CoordTo(a) PROVE Stage(a)
  BY <1>b DEF CoordTo, Stage, CoordRecord, IdleCoord
<1>c. /\ CoordTo("idle") => Stage("idle")
      /\ CoordTo("wait") => Stage("wait")
      /\ CoordTo("failed") => Stage("failed")
      /\ CoordTo("commit") => Stage("commit")
      /\ CoordTo("files") => Stage("files")
      /\ CoordTo("check") => Stage("check")
      /\ CoordTo("stuck") => Stage("stuck")
      /\ CoordTo("complete") => Stage("complete")
  BY <1>b DEF BeforeCommit, AfterCommit
<1>d. faults \in 0 .. MaxFaults /\ (Fault => faults' \in 0 .. MaxFaults)
  BY Typed, BoundAssumption DEF Fault
<1>e. ASSUME NEW s \in WorkspaceState, ws' = WithState(ws, s)
      PROVE  /\ ws' \in WorkspaceRow /\ ws'.state = s /\ ws'.owner = ws.owner
             /\ ws'.wt = ws.wt /\ ws'.br = ws.br
  BY <1>a, <1>e, WorkspaceUpdates
<1>0. Coordinator => UNCHANGED <<receipt, prep, worker, used, crashes>>
  BY DEF Coordinator, StartDeletion, FenceFleet, Prepare, Commit, RecordDeletionFailure,
         StopTarget, StartCleanup, RemoveFiles, CheckWorkspace, Complete, RecordCleanupFailure
<1>1. ASSUME StartDeletion
      PROVE  /\ At("idle") /\ Stage("stop") /\ Deleting /\ ~camp.attention
             /\ UNCHANGED <<camp, journal, ws, disk, exec, gate, faults>>
  <2>1. Unconfirmed \ NoAdapter \in SUBSET Execution
    BY DEF Unconfirmed
  <2>2. Stage("stop")
    BY <1>1, <2>1 DEF StartDeletion, Stage, CoordRecord, BeforeCommit
  <2> QED
    BY <1>1, <2>2 DEF StartDeletion
<1>2. ASSUME NEW e \in Execution, StopTarget(e)
      PROVE  /\ At("stop") /\ Stage("stop") /\ faults' \in 0 .. MaxFaults
             /\ exec' \in [Execution -> ExecState]
             /\ \A x \in Execution : exec'[x] \in {exec[x], "done"}
             /\ UNCHANGED <<camp, journal, ws, disk, gate>>
  <2>1. coord.targets \ {e} \in SUBSET Execution
    BY <1>a DEF CoordRecord
  <2>2. Stage("stop")
    <3>1. CASE coord' = [coord EXCEPT !.targets = coord.targets \ {e}]
      BY <1>2, <1>a, <2>1, <3>1 DEF StopTarget, Stage, CoordRecord
    <3>2. CASE coord' = [coord EXCEPT !.targets = coord.targets \ {e}, !.unproven = TRUE]
      BY <1>2, <1>a, <2>1, <3>2 DEF StopTarget, Stage, CoordRecord
    <3> QED
      BY <1>2, <3>1, <3>2 DEF StopTarget
  <2>3. exec' \in [Execution -> ExecState] /\ \A x \in Execution : exec'[x] \in {exec[x], "done"}
    BY <1>2, <1>a DEF StopTarget, ExecState
  <2> QED
    BY <1>2, <1>d, <2>2, <2>3 DEF StopTarget
<1>3. ASSUME FenceFleet
      PROVE  /\ At("stop") /\ (Stage("wait") \/ Stage("failed")) /\ faults' \in 0 .. MaxFaults
             /\ UNCHANGED <<camp, journal, ws, disk, exec, gate>>
  BY <1>3, <1>c, <1>d DEF FenceFleet
<1>4. ASSUME Prepare
      PROVE  /\ At("wait") /\ faults' \in 0 .. MaxFaults /\ UNCHANGED <<camp, ws, disk, exec>>
             /\ \/ /\ gate = "free" /\ gate' = "coord" /\ Stage("commit")
                   /\ journal' \in JournalRow
                   /\ journal'.status
                        = (IF journal.status = "none" THEN "planned" ELSE journal.status)
                   /\ journal'.attempts = journal.attempts
                   /\ journal'.attention = journal.attention
                \/ Stage("failed") /\ UNCHANGED <<journal, gate>>
  <2>1. /\ WithStatus(journal, "planned") \in JournalRow
        /\ WithStatus(journal, "planned").status = "planned"
        /\ WithStatus(journal, "planned").attempts = journal.attempts
        /\ WithStatus(journal, "planned").attention = journal.attention
    BY <1>a, JournalUpdates
  <2>2. /\ At("wait") /\ faults' \in 0 .. MaxFaults /\ UNCHANGED <<camp, ws, disk, exec>>
        /\ \/ /\ journal' = IF journal.status = "none" THEN WithStatus(journal, "planned") ELSE journal
              /\ gate = "free" /\ gate' = "coord" /\ Stage("commit")
           \/ Stage("failed") /\ UNCHANGED <<journal, gate>>
    BY <1>4, <1>c, <1>d DEF Prepare, WithStatus
  <2> QED
    BY <1>a, <2>1, <2>2
<1>5. ASSUME Commit
      PROVE  /\ At("commit") /\ gate' = "free" /\ faults' \in 0 .. MaxFaults
             /\ UNCHANGED <<disk, exec>>
             /\ \/ /\ Unconfirmed = {} /\ Stage("files")
                   /\ camp' \in CampRow /\ camp'.state = "gone" /\ camp'.op = None
                   /\ camp'.attempts = 0
                   /\ journal' \in JournalRow /\ journal'.status = "committed"
                   /\ journal'.attempts = 0 /\ ~journal'.attention
                   /\ \/ ~Scheduled /\ ws' = NoRow
                      \/ Scheduled /\ ws' = ws
                      \/ /\ Scheduled /\ ws' \in WorkspaceRow /\ HasRow
                         /\ ws'.state = "cleanup_pending"
                         /\ ws'.owner = ws.owner /\ ws'.wt = ws.wt /\ ws'.br = ws.br
                \/ Stage("failed") /\ UNCHANGED <<camp, journal, ws>>
  <2>1. At("commit") /\ gate' = "free" /\ faults' \in 0 .. MaxFaults /\ UNCHANGED <<disk, exec>>
    BY <1>5, <1>d DEF Commit
  <2>2. CASE Stage("failed") /\ UNCHANGED <<camp, journal, ws>>
    BY <2>1, <2>2
  <2>3. CASE /\ ~Held /\ ws' = RowAfterDelete /\ Stage("files")
             /\ journal' = [status |-> "committed", attempts |-> 0, attention |-> FALSE, due |-> TRUE]
             /\ camp' = [state |-> "gone", op |-> None, attempts |-> 0, attention |-> FALSE,
                         due |-> FALSE]
    <3>0. 0 \in 0 .. Limit
      BY BoundAssumption
    <3>1. /\ camp' \in CampRow /\ camp'.state = "gone" /\ camp'.op = None /\ camp'.attempts = 0
      BY <2>3, <3>0 DEF CampRow
    <3>2. /\ journal' \in JournalRow /\ journal'.status = "committed"
          /\ journal'.attempts = 0 /\ ~journal'.attention
      BY <2>3, <3>0 DEF JournalRow
    <3>3. \/ ~Scheduled /\ ws' = NoRow
          \/ Scheduled /\ ws' = ws
          \/ Scheduled /\ HasRow /\ ws' = WithState(ws, "cleanup_pending")
      BY <2>3 DEF RowAfterDelete, WithState
    <3>4. "cleanup_pending" \in WorkspaceState
      BY DEF WorkspaceState
    <3>5. Unconfirmed = {}
      BY <2>3 DEF Held
    <3>6. \/ ~Scheduled /\ ws' = NoRow
          \/ Scheduled /\ ws' = ws
          \/ /\ Scheduled /\ ws' \in WorkspaceRow /\ HasRow
             /\ ws'.state = "cleanup_pending"
             /\ ws'.owner = ws.owner /\ ws'.wt = ws.wt /\ ws'.br = ws.br
      BY <1>e, <3>3, <3>4
    <3> QED
      BY <2>1, <2>3, <3>1, <3>2, <3>5, <3>6
  <2> QED
    BY <1>5, <1>c, <2>2, <2>3 DEF Commit
<1>6. ASSUME RecordDeletionFailure
      PROVE  /\ At("failed") /\ Stage("idle") /\ UNCHANGED <<journal, ws, disk, exec, gate, faults>>
             /\ ~camp.attention =>
                   /\ camp' \in CampRow /\ camp'.state = camp.state /\ camp'.op = camp.op
                   /\ camp'.attention \/ camp'.attempts < Limit
  <2>1. camp' = Failed(camp)
    BY <1>6 DEF RecordDeletionFailure
  <2>2. ~camp.attention => camp.attempts < Limit
    BY DEF RetriesLeft
  <2> QED
    BY <1>6, <1>a, <1>c, <2>1, <2>2, CampFailed DEF RecordDeletionFailure
<1>7. ASSUME StartCleanup
      PROVE  /\ At("idle") /\ Stage("files") /\ journal.status = "committed" /\ ~journal.attention
             /\ UNCHANGED <<camp, journal, ws, disk, exec, gate, faults>>
  BY <1>7, <1>c DEF StartCleanup
<1>8. ASSUME RemoveFiles
      PROVE  /\ At("files") /\ faults' \in 0 .. MaxFaults
             /\ UNCHANGED <<camp, journal, ws, exec, gate>>
             /\ \/ /\ Stage("check") /\ disk' \in Files /\ disk'.files = FALSE
                   /\ disk'.tree = disk.tree /\ disk'.branch = disk.branch
                \/ Stage("stuck") /\ disk' = disk
  <2>1. ASSUME disk' = [disk EXCEPT !.files = FALSE]
        PROVE  /\ disk' \in Files /\ disk'.files = FALSE
               /\ disk'.tree = disk.tree /\ disk'.branch = disk.branch
    BY <1>a, <2>1 DEF Files
  <2> QED
    BY <1>8, <1>c, <1>d, <2>1 DEF RemoveFiles
<1>9. ASSUME CheckWorkspace
      PROVE  /\ At("check") /\ UNCHANGED <<camp, journal, ws, disk, exec, gate, faults>>
             /\ \/ Stage("stuck") \/ Stage("idle")
                \/ /\ Stage("complete") /\ ~OwnerMissing
                   /\ HasRow /\ ws.owner = ExistingOperation => Finished(ws)
  BY <1>9, <1>c DEF CheckWorkspace
<1>10. ASSUME Complete
       PROVE  /\ At("complete") /\ Stage("idle") /\ UNCHANGED <<camp, disk, exec, gate, faults>>
              /\ journal' \in JournalRow /\ journal'.status = "completed"
              /\ journal'.attempts = journal.attempts /\ ~journal'.attention
              /\ ws' = (IF ws.owner = ExistingOperation /\ Finished(ws) THEN NoRow ELSE ws)
  <2>1. journal' = Closed(journal)
    BY <1>10 DEF Complete, Closed
  <2>2. /\ journal' \in JournalRow /\ journal'.status = "completed"
        /\ journal'.attempts = journal.attempts /\ ~journal'.attention
    BY <1>a, <2>1, JournalUpdates
  <2> QED
    BY <1>10, <1>c, <2>2 DEF Complete
<1>11. ASSUME RecordCleanupFailure
       PROVE  /\ At("stuck") /\ Stage("idle") /\ UNCHANGED <<camp, disk, exec, gate, faults>>
              /\ ~journal.attention =>
                    /\ journal' \in JournalRow /\ journal'.status = journal.status
                    /\ journal'.attention \/ journal'.attempts < Limit
              /\ \/ ws' = ws
                 \/ /\ ws' \in WorkspaceRow /\ ws'.state = "cleanup_pending"
                    /\ ws.state = "cleanup_failed"
                    /\ ws'.owner = ws.owner /\ ws'.wt = ws.wt /\ ws'.br = ws.br
  <2>1. journal' = Failed(journal)
    BY <1>11 DEF RecordCleanupFailure
  <2>2. ~journal.attention => journal.attempts < Limit
    BY DEF RetriesLeft
  <2>3. ~journal.attention =>
          /\ journal' \in JournalRow /\ journal'.status = journal.status
          /\ journal'.attention \/ journal'.attempts < Limit
    BY <1>a, <2>1, <2>2, JournalFailed
  <2>4. ws' = ws \/ (ws.state = "cleanup_failed" /\ ws' = WithState(ws, "cleanup_pending"))
    BY <1>11 DEF RecordCleanupFailure, RowReopened, WithState
  <2>5. "cleanup_pending" \in WorkspaceState
    BY DEF WorkspaceState
  <2>6. \/ ws' = ws
        \/ /\ ws' \in WorkspaceRow /\ ws'.state = "cleanup_pending"
           /\ ws.state = "cleanup_failed"
           /\ ws'.owner = ws.owner /\ ws'.wt = ws.wt /\ ws'.br = ws.br
    BY <1>e, <2>4, <2>5
  <2> QED
    BY <1>11, <1>c, <2>3, <2>6 DEF RecordCleanupFailure
<1> QED
  BY <1>0, <1>1, <1>2, <1>3, <1>4, <1>5, <1>6, <1>7, <1>8, <1>9, <1>10, <1>11

\* What users and time do. A deletion is accepted once and takes the row of the worktree over;
\* a command that repeats it is answered, a retry only gives new attempts.
LEMMA CommandFields ==
  ASSUME TypeOK
  PROVE  /\ \A d \in Delete : AnswerDelete(d) =>
              /\ receipt[d] = NoReceipt
              /\ UNCHANGED <<camp, journal, ws, disk, exec, gate, actors, rest>>
              /\ \A x \in Delete : x # d => receipt'[x] = receipt[x]
              /\ ExistingOperation = None => receipt'[d].status = "rejected"
              /\ ExistingOperation # None => /\ receipt'[d].status = "accepted"
                                             /\ receipt'[d].op = ExistingOperation
              /\ ExistingOperation \in Delete \cup {None} => receipt' \in [Delete -> ReceiptRow]
         /\ \A d \in Delete : Accept(d) =>
              /\ receipt[d] = NoReceipt /\ ExistingOperation = None
              /\ d \in Retain => ~CleanupRunning
              /\ UNCHANGED <<journal, disk, gate, actors, rest>>
              /\ exec' \in [Execution -> ExecState]
              /\ \A x \in Execution : exec'[x] \in {"none", "stopping", "done"}
              /\ receipt' \in [Delete -> ReceiptRow]
              /\ \A x \in Delete : x # d => receipt'[x] = receipt[x]
              /\ receipt'[d].status = "accepted" /\ receipt'[d].op = d
              /\ receipt'[d].scheduled <=> (HasRow /\ ~Finished(ws) /\ d \in Cleanup)
              /\ camp' \in CampRow /\ camp'.state = "deleting" /\ camp'.op = d
              /\ camp'.attempts = 0 /\ ~camp'.attention
              /\ (~HasRow \/ Finished(ws)) => ws' = NoRow
              /\ (HasRow /\ ~Finished(ws)) =>
                    /\ ws' \in WorkspaceRow /\ HasRow' /\ ws'.wt = ws.wt /\ ws'.br = ws.br
                    /\ d \in Cleanup => ws'.state = "cleanup_pending" /\ ws'.owner = d
                    /\ d \notin Cleanup =>
                          ws' = ws \/ (ws'.state = "ready" /\ ws'.owner = None)
         /\ Retry =>
              /\ ExistingOperation # None /\ UNCHANGED <<receipt, disk, exec, gate, actors, rest>>
              /\ camp' \in CampRow /\ camp'.state = camp.state /\ camp'.op = camp.op
              /\ \/ camp'.attempts = camp.attempts /\ camp'.attention = camp.attention
                 \/ camp'.attempts = 0 /\ ~camp'.attention
              /\ journal' \in JournalRow /\ journal'.status = journal.status
              /\ \/ journal'.attempts = journal.attempts /\ journal'.attention = journal.attention
                 \/ journal'.attempts = 0 /\ ~journal'.attention
              /\ \/ ws' = ws
                 \/ /\ ws' \in WorkspaceRow /\ ws'.state = "cleanup_pending"
                    /\ ws.state = "cleanup_failed"
                    /\ ws'.owner = ws.owner /\ ws'.wt = ws.wt /\ ws'.br = ws.br
         /\ RetryOrphan =>
              /\ gate = "free" /\ Gone /\ ws.state = "cleanup_failed" /\ ~Finished(ws)
              /\ ws.owner # ExistingOperation /\ UNCHANGED <<rows, disk, exec, gate, actors, rest>>
              /\ ws' \in WorkspaceRow /\ ws'.state = "cleanup_pending"
              /\ ws'.owner = Orphan /\ ws'.wt = ws.wt /\ ws'.br = ws.br
         /\ \A c \in UserCleanup : CleanWorkspace(c) =>
              /\ c \notin used /\ gate = "free" /\ ~Gone /\ HasRow
              /\ ws.state \notin {"cleanup_pending", "preparing"} /\ ~Finished(ws)
              /\ used' = used \cup {c} /\ UNCHANGED <<rows, disk, exec, gate, actors, faults,
                                                      crashes>>
              /\ ws' \in WorkspaceRow /\ ws'.state = "cleanup_pending"
              /\ ws'.owner = c /\ ws'.wt = ws.wt /\ ws'.br = ws.br
         /\ Backoff =>
              /\ UNCHANGED <<receipt, ws, disk, exec, gate, actors, rest>>
              /\ camp' \in CampRow /\ camp'.state = camp.state /\ camp'.op = camp.op
              /\ camp'.attempts = camp.attempts /\ camp'.attention = camp.attention
              /\ journal' \in JournalRow /\ journal'.status = journal.status
              /\ journal'.attempts = journal.attempts /\ journal'.attention = journal.attention
         /\ Crash =>
              /\ UNCHANGED <<rows, ws, disk, used, faults>> /\ crashes' \in 0 .. MaxCrashes
              /\ gate' = "free" /\ prep' = IdlePrep /\ worker' = "idle" /\ coord' = IdleCoord
              /\ exec' \in [Execution -> ExecState]
              /\ \A x \in Execution : exec'[x] \in {exec[x], "done"} \/ exec[x] = "prepared"
<1>a. /\ ws \in WorkspaceRow /\ camp \in CampRow /\ journal \in JournalRow
      /\ exec \in [Execution -> ExecState] /\ receipt \in [Delete -> ReceiptRow]
  BY Typed
<1>b. /\ ws.state \in WorkspaceState /\ "cleanup_pending" \in WorkspaceState
      /\ "ready" \in WorkspaceState
  BY <1>a DEF WorkspaceRow, WorkspaceState
<1>c. ASSUME NEW s \in WorkspaceState, ws' = WithState(ws, s)
      PROVE  /\ ws' \in WorkspaceRow /\ ws'.state = s /\ ws'.owner = ws.owner
             /\ ws'.wt = ws.wt /\ ws'.br = ws.br
  BY <1>a, <1>c, WorkspaceUpdates
<1>d. ASSUME NEW s \in WorkspaceState, NEW c \in Command \cup {None}, ws' = HandedTo(ws, s, c)
      PROVE  /\ ws' \in WorkspaceRow /\ ws'.state = s /\ ws'.owner = c
             /\ ws'.wt = ws.wt /\ ws'.br = ws.br
  BY <1>a, <1>d, WorkspaceUpdates
<1>e. /\ Delete \subseteq Command /\ UserCleanup \subseteq Command /\ Orphan \in Command
  BY Constants
<1>1. ASSUME NEW d \in Delete, AnswerDelete(d)
      PROVE  /\ receipt[d] = NoReceipt
             /\ UNCHANGED <<camp, journal, ws, disk, exec, gate, actors, rest>>
             /\ \A x \in Delete : x # d => receipt'[x] = receipt[x]
             /\ ExistingOperation = None => receipt'[d].status = "rejected"
             /\ ExistingOperation # None => /\ receipt'[d].status = "accepted"
                                            /\ receipt'[d].op = ExistingOperation
             /\ ExistingOperation \in Delete \cup {None} => receipt' \in [Delete -> ReceiptRow]
  <2>1. receipt' = [receipt EXCEPT ![d] =
                      IF ExistingOperation # None
                      THEN [status |-> "accepted", op |-> ExistingOperation, scheduled |-> FALSE]
                      ELSE Rejected]
    BY <1>1 DEF AnswerDelete, Records
  <2>2. ExistingOperation \in Delete =>
          [status |-> "accepted", op |-> ExistingOperation, scheduled |-> FALSE] \in ReceiptRow
    BY DEF ReceiptRow
  <2>3. Rejected \in ReceiptRow /\ Rejected.status = "rejected"
    BY DEF ReceiptRow, Rejected
  <2>4. /\ receipt[d] = NoReceipt
        /\ UNCHANGED <<camp, journal, ws, disk, exec, gate, actors, rest>>
    BY <1>1 DEF AnswerDelete
  <2>5. CASE ExistingOperation = None
    BY <1>a, <2>1, <2>3, <2>4, <2>5
  <2>6. CASE ExistingOperation # None
    BY <1>a, <2>1, <2>2, <2>4, <2>6
  <2> QED
    BY <2>5, <2>6
<1>2. ASSUME NEW d \in Delete, Accept(d)
      PROVE  /\ receipt[d] = NoReceipt /\ ExistingOperation = None
             /\ d \in Retain => ~CleanupRunning
             /\ UNCHANGED <<journal, disk, gate, actors, rest>>
             /\ exec' \in [Execution -> ExecState]
             /\ \A x \in Execution : exec'[x] \in {"none", "stopping", "done"}
             /\ receipt' \in [Delete -> ReceiptRow]
             /\ \A x \in Delete : x # d => receipt'[x] = receipt[x]
             /\ receipt'[d].status = "accepted" /\ receipt'[d].op = d
             /\ receipt'[d].scheduled <=> (HasRow /\ ~Finished(ws) /\ d \in Cleanup)
             /\ camp' \in CampRow /\ camp'.state = "deleting" /\ camp'.op = d
             /\ camp'.attempts = 0 /\ ~camp'.attention
             /\ (~HasRow \/ Finished(ws)) => ws' = NoRow
             /\ (HasRow /\ ~Finished(ws)) =>
                   /\ ws' \in WorkspaceRow /\ HasRow' /\ ws'.wt = ws.wt /\ ws'.br = ws.br
                   /\ d \in Cleanup => ws'.state = "cleanup_pending" /\ ws'.owner = d
                   /\ d \notin Cleanup =>
                         ws' = ws \/ (ws'.state = "ready" /\ ws'.owner = None)
  <2> DEFINE live == HasRow /\ ~Finished(ws)
             promised == live /\ d \in Cleanup
  <2>1. /\ receipt[d] = NoReceipt /\ ExistingOperation = None
        /\ d \in Retain => ~CleanupRunning
        /\ UNCHANGED <<journal, disk, gate, actors, rest>>
    BY <1>2 DEF Accept
  <2>2. /\ exec' \in [Execution -> ExecState]
        /\ \A x \in Execution : exec'[x] \in {"none", "stopping", "done"}
    <3>1. exec' = [x \in Execution |-> Settled(x)]
      BY <1>2 DEF Accept
    <3>2. \A x \in Execution : Settled(x) \in {"none", "stopping", "done"}
      BY <1>a DEF Settled, ExecState
    <3> QED
      BY <3>1, <3>2 DEF ExecState
  <2>3. /\ receipt' \in [Delete -> ReceiptRow]
        /\ \A x \in Delete : x # d => receipt'[x] = receipt[x]
        /\ receipt'[d].status = "accepted" /\ receipt'[d].op = d
        /\ receipt'[d].scheduled <=> promised
    <3>1. receipt' = [receipt EXCEPT ![d] = [status |-> "accepted", op |-> d, scheduled |-> promised]]
      BY <1>2 DEF Accept, Records
    <3>2. promised \in BOOLEAN
      OBVIOUS
    <3> HIDE DEF promised
    <3>3. [status |-> "accepted", op |-> d, scheduled |-> promised] \in ReceiptRow
      BY <3>2 DEF ReceiptRow
    <3> QED
      BY <1>a, <3>1, <3>3
  <2>4. /\ camp' \in CampRow /\ camp'.state = "deleting" /\ camp'.op = d
        /\ camp'.attempts = 0 /\ ~camp'.attention
    <3>1. camp' = [state |-> "deleting", op |-> d, attempts |-> 0, attention |-> FALSE, due |-> TRUE]
      BY <1>2 DEF Accept
    <3>2. 0 \in 0 .. Limit
      BY BoundAssumption
    <3> QED
      BY <3>1, <3>2 DEF CampRow
  <2>5. CASE ~live
    <3>1. ws' = NoRow
      BY <1>2, <2>5 DEF Accept
    <3> QED
      BY <2>1, <2>2, <2>3, <2>4, <2>5, <3>1
  <2>6. CASE live
    <3>1. \/ d \in Cleanup /\ ws' = HandedTo(ws, "cleanup_pending", d)
          \/ d \notin Cleanup /\ (ws' = ws \/ ws' = HandedTo(ws, "ready", None))
      BY <1>2, <2>6 DEF Accept, HandedTo
    <3>2. CASE d \in Cleanup
      <4>1. /\ ws' \in WorkspaceRow /\ ws'.state = "cleanup_pending" /\ ws'.owner = d
            /\ ws'.wt = ws.wt /\ ws'.br = ws.br
        BY <1>b, <1>d, <1>e, <3>1, <3>2
      <4> QED
        BY <2>1, <2>2, <2>3, <2>4, <2>6, <3>2, <4>1
    <3>3. CASE d \notin Cleanup /\ ws' = ws
      BY <1>a, <2>1, <2>2, <2>3, <2>4, <2>6, <3>3
    <3>4. CASE d \notin Cleanup /\ ws' = HandedTo(ws, "ready", None)
      <4>1. /\ ws' \in WorkspaceRow /\ ws'.state = "ready" /\ ws'.owner = None
            /\ ws'.wt = ws.wt /\ ws'.br = ws.br
        BY <1>b, <1>d, <3>4
      <4> QED
        BY <2>1, <2>2, <2>3, <2>4, <2>6, <3>4, <4>1
    <3> QED
      BY <3>1, <3>2, <3>3, <3>4
  <2> QED
    BY <2>5, <2>6
<1>3. ASSUME Retry
      PROVE  /\ ExistingOperation # None /\ UNCHANGED <<receipt, disk, exec, gate, actors, rest>>
             /\ camp' \in CampRow /\ camp'.state = camp.state /\ camp'.op = camp.op
             /\ \/ camp'.attempts = camp.attempts /\ camp'.attention = camp.attention
                \/ camp'.attempts = 0 /\ ~camp'.attention
             /\ journal' \in JournalRow /\ journal'.status = journal.status
             /\ \/ journal'.attempts = journal.attempts /\ journal'.attention = journal.attention
                \/ journal'.attempts = 0 /\ ~journal'.attention
             /\ \/ ws' = ws
                \/ /\ ws' \in WorkspaceRow /\ ws'.state = "cleanup_pending"
                   /\ ws.state = "cleanup_failed"
                   /\ ws'.owner = ws.owner /\ ws'.wt = ws.wt /\ ws'.br = ws.br
  <2>1. ExistingOperation # None /\ UNCHANGED <<receipt, disk, exec, gate, actors, rest>>
    BY <1>3 DEF Retry
  <2>2. camp' = camp \/ camp' = Renewed(camp)
    BY <1>3 DEF Retry, Renewed
  <2>3. /\ camp' \in CampRow /\ camp'.state = camp.state /\ camp'.op = camp.op
        /\ \/ camp'.attempts = camp.attempts /\ camp'.attention = camp.attention
           \/ camp'.attempts = 0 /\ ~camp'.attention
    BY <1>a, <2>2, CampUpdates
  <2>4. journal' = journal \/ journal' = Renewed(journal)
    BY <1>3 DEF Retry, Renewed
  <2>5. /\ journal' \in JournalRow /\ journal'.status = journal.status
        /\ \/ journal'.attempts = journal.attempts /\ journal'.attention = journal.attention
           \/ journal'.attempts = 0 /\ ~journal'.attention
    BY <1>a, <2>4, JournalUpdates
  <2>6. ws' = ws \/ (ws.state = "cleanup_failed" /\ ws' = WithState(ws, "cleanup_pending"))
    BY <1>3 DEF Retry, WithState
  <2>7. \/ ws' = ws
        \/ /\ ws' \in WorkspaceRow /\ ws'.state = "cleanup_pending"
           /\ ws.state = "cleanup_failed"
           /\ ws'.owner = ws.owner /\ ws'.wt = ws.wt /\ ws'.br = ws.br
    BY <1>b, <1>c, <2>6
  <2> QED
    BY <2>1, <2>3, <2>5, <2>7
<1>4. ASSUME RetryOrphan
      PROVE  /\ gate = "free" /\ Gone /\ ws.state = "cleanup_failed" /\ ~Finished(ws)
             /\ ws.owner # ExistingOperation /\ UNCHANGED <<rows, disk, exec, gate, actors, rest>>
             /\ ws' \in WorkspaceRow /\ ws'.state = "cleanup_pending"
             /\ ws'.owner = Orphan /\ ws'.wt = ws.wt /\ ws'.br = ws.br
  <2>1. ws' = HandedTo(ws, "cleanup_pending", Orphan)
    BY <1>4 DEF RetryOrphan, HandedTo
  <2>2. /\ ws' \in WorkspaceRow /\ ws'.state = "cleanup_pending"
        /\ ws'.owner = Orphan /\ ws'.wt = ws.wt /\ ws'.br = ws.br
    BY <1>b, <1>d, <1>e, <2>1
  <2> QED
    BY <1>4, <2>2 DEF RetryOrphan
<1>5. ASSUME NEW c \in UserCleanup, CleanWorkspace(c)
      PROVE  /\ c \notin used /\ gate = "free" /\ ~Gone /\ HasRow
             /\ ws.state \notin {"cleanup_pending", "preparing"} /\ ~Finished(ws)
             /\ used' = used \cup {c} /\ UNCHANGED <<rows, disk, exec, gate, actors, faults,
                                                     crashes>>
             /\ ws' \in WorkspaceRow /\ ws'.state = "cleanup_pending"
             /\ ws'.owner = c /\ ws'.wt = ws.wt /\ ws'.br = ws.br
  <2>1. ws' = HandedTo(ws, "cleanup_pending", c)
    BY <1>5 DEF CleanWorkspace, HandedTo
  <2>2. /\ ws' \in WorkspaceRow /\ ws'.state = "cleanup_pending"
        /\ ws'.owner = c /\ ws'.wt = ws.wt /\ ws'.br = ws.br
    BY <1>b, <1>d, <1>e, <2>1
  <2> QED
    BY <1>5, <2>2 DEF CleanWorkspace
<1>6. ASSUME Backoff
      PROVE  /\ UNCHANGED <<receipt, ws, disk, exec, gate, actors, rest>>
             /\ camp' \in CampRow /\ camp'.state = camp.state /\ camp'.op = camp.op
             /\ camp'.attempts = camp.attempts /\ camp'.attention = camp.attention
             /\ journal' \in JournalRow /\ journal'.status = journal.status
             /\ journal'.attempts = journal.attempts /\ journal'.attention = journal.attention
  <2>1. /\ camp' = camp \/ camp' = Due(camp)
        /\ journal' = journal \/ journal' = Due(journal)
        /\ UNCHANGED <<receipt, ws, disk, exec, gate, actors, rest>>
    BY <1>6 DEF Backoff, Due
  <2>2. /\ camp' \in CampRow /\ camp'.state = camp.state /\ camp'.op = camp.op
        /\ camp'.attempts = camp.attempts /\ camp'.attention = camp.attention
    BY <1>a, <2>1, CampUpdates
  <2>3. /\ journal' \in JournalRow /\ journal'.status = journal.status
        /\ journal'.attempts = journal.attempts /\ journal'.attention = journal.attention
    BY <1>a, <2>1, JournalUpdates
  <2> QED
    BY <2>1, <2>2, <2>3
<1>7. ASSUME Crash
      PROVE  /\ UNCHANGED <<rows, ws, disk, used, faults>> /\ crashes' \in 0 .. MaxCrashes
             /\ gate' = "free" /\ prep' = IdlePrep /\ worker' = "idle" /\ coord' = IdleCoord
             /\ exec' \in [Execution -> ExecState]
             /\ \A x \in Execution : exec'[x] \in {exec[x], "done"} \/ exec[x] = "prepared"
  <2>1. crashes' \in 0 .. MaxCrashes
    BY <1>7, Typed, BoundAssumption DEF Crash
  <2>2. /\ exec' \in [Execution -> ExecState]
        /\ \A x \in Execution : exec'[x] \in {exec[x], "done"} \/ exec[x] = "prepared"
    BY <1>7, <1>a DEF Crash, ExecState
  <2> QED
    BY <1>7, <2>1, <2>2 DEF Crash
<1> QED
  BY <1>1, <1>2, <1>3, <1>4, <1>5, <1>6, <1>7

-----------------------------------------------------------------------------
(* Every step keeps the invariant: first the types. *)

\* Every step keeps the types.
LEMMA TypeStep ==
  ASSUME DeletionInv, [Next]_vars
  PROVE  TypeOK'
<1>a. TypeOK /\ Stages /\ RetriesLeft /\ GateHeld
  BY DEF DeletionInv
<1>b. /\ camp \in CampRow /\ journal \in JournalRow /\ ws \in WorkspaceRow /\ disk \in Files
      /\ receipt \in [Delete -> ReceiptRow] /\ exec \in [Execution -> ExecState]
      /\ prep \in PrepRecord /\ coord \in CoordRecord
      /\ gate \in {"free", "prep", "worker", "coord"}
      /\ worker \in {"idle", "verify", "tree", "flag", "branch", "end", "publish"}
      /\ used \subseteq UserCleanup /\ faults \in 0 .. MaxFaults /\ crashes \in 0 .. MaxCrashes
  BY <1>a, Typed
<1>c. IdlePrep \in PrepRecord /\ IdleCoord \in CoordRecord /\ NoRow \in WorkspaceRow
  BY NewRows DEF IdlePrep, PrepRecord, PrepState, IdleCoord, CoordRecord
<1> DEFINE New ==
      /\ camp' \in CampRow /\ journal' \in JournalRow /\ ws' \in WorkspaceRow /\ disk' \in Files
      /\ receipt' \in [Delete -> ReceiptRow] /\ exec' \in [Execution -> ExecState]
      /\ prep' \in PrepRecord /\ coord' \in CoordRecord
      /\ gate' \in {"free", "prep", "worker", "coord"}
      /\ worker' \in {"idle", "verify", "tree", "flag", "branch", "end", "publish"}
      /\ used' \subseteq UserCleanup /\ faults' \in 0 .. MaxFaults /\ crashes' \in 0 .. MaxCrashes
<1>1. ASSUME Runs PROVE New
  <2>1. ASSUME NEW e \in Execution, Enqueue(e) \/ Claim(e) \/ Finish(e) \/ ConfirmStop(e) PROVE New
    BY <2>1, <1>b DEF Enqueue, Claim, Finish, ConfirmStop, ExecState
  <2> QED
    BY <1>1, <2>1 DEF Runs
<1>2. ASSUME Commands PROVE New
  <2>a. ExistingOperation \in Delete \cup {None}
    BY <1>a, Operations
  <2>1. ASSUME NEW d \in Delete, AnswerDelete(d) PROVE New
    BY <2>1, <1>a, <1>b, <2>a, CommandFields
  <2>2. ASSUME NEW d \in Delete, Accept(d) PROVE New
    BY <2>2, <1>a, <1>b, <1>c, CommandFields
  <2>3. ASSUME Retry PROVE New
    BY <2>3, <1>a, <1>b, CommandFields
  <2>4. ASSUME RetryOrphan PROVE New
    BY <2>4, <1>a, <1>b, CommandFields
  <2>5. ASSUME NEW c \in UserCleanup, CleanWorkspace(c) PROVE New
    BY <2>5, <1>a, <1>b, CommandFields
  <2> QED
    BY <1>2, <2>1, <2>2, <2>3, <2>4, <2>5 DEF Commands
<1>3. ASSUME Preparation PROVE New
  <2>0. UNCHANGED <<rows, worker, coord, used, crashes>>
    BY <1>3, <1>a, PrepFields
  <2>1. ASSUME NEW e \in Execution, PrepBegin(e) PROVE New
    BY <2>0, <2>1, <1>a, <1>b, <1>c, PrepFields
  <2>2. ASSUME PrepError PROVE New
    BY <2>0, <2>2, <1>a, <1>b, <1>c, PrepFields DEF Ends
  <2>3. ASSUME PrepPlan \/ PrepAdopt \/ PrepAgain PROVE New
    BY <2>0, <2>3, <1>a, <1>b, <1>c, PrepFields DEF Ends, Goes, Writes
  <2>4. ASSUME Materialize PROVE New
    BY <2>0, <2>4, <1>a, <1>b, <1>c, PrepFields DEF Goes
  <2>5. ASSUME PrepReady PROVE New
    BY <2>0, <2>5, <1>a, <1>b, <1>c, PrepFields DEF Ends, Goes
  <2>6. ASSUME PrepReturn PROVE New
    BY <2>0, <2>6, <1>a, <1>b, <1>c, PrepFields DEF Ends
  <2> QED
    BY <1>3, <2>1, <2>2, <2>3, <2>4, <2>5, <2>6 DEF Preparation
<1>4. ASSUME Worker PROVE New
  <2>0. UNCHANGED <<rows, exec, prep, coord, used, crashes>>
    BY <1>4, <1>a, WorkerFields
  <2>1. ASSUME WorkerStart \/ Verify \/ RemoveTree \/ FlagTree \/ RemoveBranch PROVE New
    BY <2>0, <2>1, <1>a, <1>b, <1>c, WorkerFields
  <2>2. ASSUME FlagEnd \/ Publish PROVE New
    BY <2>0, <2>2, <1>a, <1>b, <1>c, WorkerFields
  <2>3. ASSUME NEW f \in BOOLEAN, WorkerFails(f) PROVE New
    BY <2>0, <2>3, <1>a, <1>b, <1>c, WorkerFields
  <2> QED
    BY <1>4, <2>1, <2>2, <2>3 DEF Worker
<1>5. ASSUME Coordinator PROVE New
  <2>0. UNCHANGED <<receipt, prep, worker, used, crashes>>
    BY <1>5, <1>a, CoordFields
  <2>a. (coord.at = "failed" => ~camp.attention) /\ (coord.at = "stuck" => ~journal.attention)
    BY <1>a DEF RetriesLeft, BeforeCommit, AfterCommit
  <2>1. ASSUME StartDeletion \/ FenceFleet \/ StartCleanup \/ CheckWorkspace PROVE New
    BY <2>0, <2>1, <1>a, <1>b, CoordFields DEF Stage
  <2>2. ASSUME NEW e \in Execution, StopTarget(e) PROVE New
    BY <2>0, <2>2, <1>a, <1>b, CoordFields DEF Stage
  <2>3. ASSUME Prepare PROVE New
    BY <2>0, <2>3, <1>a, <1>b, CoordFields DEF Stage
  <2>4. ASSUME Commit PROVE New
    BY <2>0, <2>4, <1>a, <1>b, <1>c, CoordFields DEF Stage
  <2>5. ASSUME RecordDeletionFailure PROVE New
    BY <2>0, <2>5, <2>a, <1>a, <1>b, CoordFields DEF Stage, At
  <2>6. ASSUME RemoveFiles PROVE New
    BY <2>0, <2>6, <1>a, <1>b, CoordFields DEF Stage
  <2>7. ASSUME Complete PROVE New
    BY <2>0, <2>7, <1>a, <1>b, <1>c, CoordFields DEF Stage
  <2>8. ASSUME RecordCleanupFailure PROVE New
    BY <2>0, <2>8, <2>a, <1>a, <1>b, CoordFields DEF Stage, At
  <2> QED
    BY <1>5, <2>1, <2>2, <2>3, <2>4, <2>5, <2>6, <2>7, <2>8 DEF Coordinator
<1>6. ASSUME Backoff PROVE New
  BY <1>6, <1>a, <1>b, CommandFields
<1>7. ASSUME Crash PROVE New
  BY <1>7, <1>a, <1>b, <1>c, CommandFields
<1>8. ASSUME UNCHANGED vars PROVE New
  BY <1>8, <1>b
<1>9. New
  BY <1>1, <1>2, <1>3, <1>4, <1>5, <1>6, <1>7, <1>8 DEF Next
<1>10. {"idle"} \cup BeforeCommit \cup AfterCommit
         = {"idle", "stop", "wait", "commit", "failed", "files", "check", "complete", "stuck"}
  BY DEF BeforeCommit, AfterCommit
<1> QED
  BY <1>9, <1>10 DEF TypeOK, CampRow, JournalRow, WorkspaceState, WorkspaceRow, Files, ReceiptRow,
      ExecState, PrepState, PrepRecord, CoordRecord

-----------------------------------------------------------------------------
(* Then the operation: only an acceptance begins one, and nothing changes  *)
(* it.                                                                     *)

\* The operation stays what it is.
Steady ==
    /\ ExistingOperation' = ExistingOperation
    /\ ~Open => (Scheduled' <=> Scheduled)
    /\ \A o : OperationIs(o) => OperationIs(o)'
    /\ Open => Accepted' = {}

\* A step that leaves the receipts alone and the operation of the thread keeps the operation.
LEMMA KeptSteady ==
  ASSUME Stages, receipt' = receipt, camp'.op = camp.op
  PROVE  Steady
BY OperationKept DEF Steady, Stages

\* An operation that is recorded is the operation, after the step as before.
LEMMA NextOperation ==
  ASSUME NEW o \in Delete, receipt'[o].status = "accepted", camp'.op \in {None, o},
         \A d \in Delete : receipt'[d].status = "accepted" => receipt'[d].op = o
  PROVE  ExistingOperation' = o /\ (Scheduled' <=> receipt'[o].scheduled)
<1>1. ExistingOperation' = o
  BY TheOperation DEF ExistingOperation, Accepted
<1> QED
  BY <1>1 DEF Scheduled

\* A repeated command changes nothing but its own answer.
LEMMA AnswerSteady ==
  ASSUME TypeOK, Stages, NEW d \in Delete, AnswerDelete(d)
  PROVE  Steady
<1>1. /\ receipt[d] = NoReceipt /\ camp' = camp
      /\ \A x \in Delete : x # d => receipt'[x] = receipt[x]
      /\ ExistingOperation = None => receipt'[d].status = "rejected"
      /\ ExistingOperation # None => /\ receipt'[d].status = "accepted"
                                     /\ receipt'[d].op = ExistingOperation
  BY CommandFields
<1>2. receipt[d].status # "accepted" /\ None \notin Delete
  BY <1>1, Rows, Constants
<1>3. CASE Open
  <2>1. ExistingOperation = None /\ Accepted = {} /\ camp.op = None
    BY <1>3, NoOperation DEF Stages
  <2>2. Accepted' = {}
    BY <1>1, <2>1 DEF Accepted
  <2>3. ExistingOperation' = None
    BY <1>1, <2>1, <2>2 DEF ExistingOperation
  <2> QED
    BY <1>3, <2>1, <2>2, <2>3 DEF Steady, OperationIs, Accepted
<1>4. CASE ~Open
  <2>0. PICK o \in Delete : OperationIs(o)
    BY <1>4 DEF Stages
  <2>1. ExistingOperation = o /\ OperationIs(o)
    BY <2>0, OperationKnown
  <2>2. /\ receipt[o].status = "accepted" /\ camp.op \in {None, o}
        /\ \A x \in Delete : receipt[x].status = "accepted" => receipt[x].op = o
        /\ receipt[o].scheduled => o \in Cleanup
    BY <2>1 DEF OperationIs, Accepted
  <2>3. o # d /\ receipt'[o] = receipt[o] /\ camp'.op \in {None, o}
    BY <1>1, <1>2, <2>1, <2>2
  <2>4. \A x \in Delete : receipt'[x].status = "accepted" => receipt'[x].op = o
    BY <1>1, <1>2, <2>1, <2>2
  <2>5. ExistingOperation' = o /\ (Scheduled' <=> receipt'[o].scheduled)
    BY <2>1, <2>2, <2>3, <2>4, NextOperation
  <2>6. Scheduled <=> receipt[o].scheduled
    BY <2>1 DEF Scheduled
  <2>7. ASSUME NEW p, OperationIs(p) PROVE p = o
    BY <2>1, <2>7, OperationKnown
  <2>8. OperationIs(o)'
    BY <2>1, <2>2, <2>3, <2>4 DEF OperationIs, Accepted
  <2>9. ExistingOperation' = ExistingOperation
    BY <2>1, <2>5
  <2> QED
    BY <1>4, <2>3, <2>5, <2>6, <2>7, <2>8, <2>9 DEF Steady
<1> QED
  BY <1>3, <1>4

\* The business delete drops the marker; the receipt still names the operation.
LEMMA CommitSteady ==
  ASSUME TypeOK, Stages, RetriesLeft, Commit
  PROVE  Steady
<1>1. receipt' = receipt /\ (camp' = camp \/ camp'.op = None) /\ coord.at = "commit"
  BY CoordFields DEF Coordinator, At
<1>2. ~Open
  BY <1>1 DEF Stages, BeforeCommit
<1>0. PICK o \in Delete : OperationIs(o)
  BY <1>2 DEF Stages
<1>3. ExistingOperation = o /\ OperationIs(o)
  BY <1>0, OperationKnown
<1>4. /\ receipt[o].status = "accepted" /\ camp'.op \in {None, o}
      /\ \A x \in Delete : receipt[x].status = "accepted" => receipt[x].op = o
      /\ receipt[o].scheduled => o \in Cleanup
  BY <1>1, <1>3 DEF OperationIs, Accepted
<1>5. ExistingOperation' = o /\ (Scheduled' <=> receipt'[o].scheduled)
  BY <1>1, <1>3, <1>4, NextOperation
<1>6. Scheduled <=> receipt[o].scheduled
  BY <1>3 DEF Scheduled
<1>7. ASSUME NEW p, OperationIs(p) PROVE p = o
  BY <1>3, <1>7, OperationKnown
<1>8. OperationIs(o)'
  BY <1>1, <1>3, <1>4 DEF OperationIs, Accepted
<1>9. ExistingOperation' = ExistingOperation
  BY <1>3, <1>5
<1> QED
  BY <1>1, <1>2, <1>5, <1>6, <1>7, <1>8, <1>9 DEF Steady

\* An acceptance makes its command the operation of a Thread that was open.
LEMMA AcceptOperation ==
  ASSUME TypeOK, Stages, NEW d \in Delete, Accept(d)
  PROVE  /\ Open /\ ~Open' /\ Deleting' /\ Accepted = {}
         /\ ExistingOperation' = d /\ OperationIs(d)'
         /\ Scheduled' <=> (HasRow /\ ~Finished(ws) /\ d \in Cleanup)
<1>1. /\ receipt[d] = NoReceipt /\ ExistingOperation = None
      /\ \A x \in Delete : x # d => receipt'[x] = receipt[x]
      /\ receipt'[d].status = "accepted" /\ receipt'[d].op = d
      /\ receipt'[d].scheduled <=> (HasRow /\ ~Finished(ws) /\ d \in Cleanup)
      /\ camp'.state = "deleting" /\ camp'.op = d
  BY CommandFields
<1>2. Open /\ Accepted = {}
  BY <1>1, Operations, Constants DEF Stages
<1>3. \A x \in Delete : receipt'[x].status = "accepted" => receipt'[x].op = d
  BY <1>1, <1>2 DEF Accepted
<1>4. ExistingOperation' = d /\ (Scheduled' <=> receipt'[d].scheduled)
  BY <1>1, <1>3, NextOperation
<1>5. OperationIs(d)'
  BY <1>1, <1>3 DEF OperationIs, Accepted
<1> QED
  BY <1>1, <1>2, <1>4, <1>5

\* Only accepting a command changes the operation that is recorded.
LEMMA OperationMoves ==
  ASSUME TypeOK, Stages, RetriesLeft, [Next]_vars, \A d \in Delete : ~Accept(d)
  PROVE  Steady
<1>1. ASSUME Runs PROVE camp' = camp /\ receipt' = receipt
  BY <1>1 DEF Runs, Enqueue, Claim, Finish, ConfirmStop
<1>2. ASSUME Commands PROVE Steady
  <2>1. ASSUME Retry \/ RetryOrphan \/ \E c \in UserCleanup : CleanWorkspace(c)
        PROVE  receipt' = receipt /\ camp'.op = camp.op
    BY <2>1, CommandFields
  <2> QED
    BY <1>2, <2>1, AnswerSteady, KeptSteady DEF Commands
<1>3. ASSUME Preparation \/ Worker PROVE camp' = camp /\ receipt' = receipt
  BY <1>3, PrepFields, WorkerFields
<1>4. ASSUME Coordinator PROVE Steady
  <2>1. receipt' = receipt
    BY <1>4, CoordFields
  <2>2. ASSUME StartDeletion \/ FenceFleet \/ Prepare \/ StartCleanup \/ RemoveFiles
               \/ CheckWorkspace \/ Complete \/ RecordCleanupFailure
               \/ \E e \in Execution : StopTarget(e)
        PROVE  camp' = camp
    BY <2>2, CoordFields
  <2>3. ASSUME RecordDeletionFailure PROVE camp'.op = camp.op
    <3>1. ~camp.attention
      BY <2>3, CoordFields DEF At, RetriesLeft, BeforeCommit
    <3> QED
      BY <2>3, <3>1, CoordFields
  <2> QED
    BY <1>4, <2>1, <2>2, <2>3, KeptSteady, CommitSteady DEF Coordinator
<1>5. ASSUME Backoff \/ Crash \/ UNCHANGED vars PROVE receipt' = receipt /\ camp'.op = camp.op
  BY <1>5, CommandFields
<1> QED
  BY <1>1, <1>2, <1>3, <1>4, <1>5, KeptSteady DEF Next

-----------------------------------------------------------------------------
(* Then the parts, one by one.                                             *)

\* What the steps of the runs leave alone.
LEMMA RunFields ==
  ASSUME TypeOK, Runs
  PROVE  /\ UNCHANGED <<rows, ws, disk, gate, actors, rest>>
         /\ \A x \in Execution : exec'[x] \in {exec[x], "done"} \/ Open
<1>1. ASSUME NEW e \in Execution, Enqueue(e) \/ Claim(e) \/ Finish(e) \/ ConfirmStop(e)
      PROVE  /\ UNCHANGED <<rows, ws, disk, gate, actors, rest>>
             /\ \A x \in Execution : exec'[x] \in {exec[x], "done"} \/ Open
  BY <1>1 DEF TypeOK, Enqueue, Claim, Finish, ConfirmStop
<1> QED
  BY <1>1 DEF Runs


\* What a step leaves alone is what it was.
LEMMA NothingMoved ==
  ASSUME DeletionInv,
         UNCHANGED <<camp, receipt, journal, ws, disk, gate, prep, worker, coord, used>>
  PROVE  /\ GateHeld' /\ Stages' /\ RetriesLeft' /\ RemovedIsGone' /\ RowOfTree' /\ NobodyAsked'
         /\ WorkerKnown' /\ RowOwned' /\ CompletedAfter'
<1>1. /\ ExistingOperation' = ExistingOperation /\ Accepted' = Accepted
      /\ Scheduled' = Scheduled
      /\ \A o : OperationIs(o)' <=> OperationIs(o)
  BY OperationKept
<1>2. GateHeld' /\ RetriesLeft' /\ RemovedIsGone' /\ NobodyAsked'
  BY DEF DeletionInv, GateHeld, RetriesLeft, RemovedIsGone, NobodyAsked
<1>3. Stages'
  BY <1>1 DEF DeletionInv, Stages
<1>4. RowOfTree'
  BY <1>1 DEF DeletionInv, RowOfTree
<1>5. WorkerKnown'
  BY <1>1 DEF DeletionInv, WorkerKnown
<1>6. TakenOver' <=> TakenOver
  BY DEF TakenOver
<1>7. RowOwned'
  BY <1>1, <1>6 DEF DeletionInv, RowOwned
<1>8. CompletedAfter'
  BY <1>1 DEF DeletionInv, CompletedAfter
<1> QED
  BY <1>2, <1>3, <1>4, <1>5, <1>7, <1>8

\* A thread is open, being deleted or gone.
LEMMA TypeStates ==
  ASSUME TypeOK
  PROVE  Open \/ Deleting \/ Gone
BY DEF TypeOK

\* A row of which only the removal was recorded keeps its state and its owner.
LEMMA RowSteady ==
  ASSUME RowOwned, UNCHANGED <<camp, receipt, journal, coord, used>>,
         ws'.state = ws.state, ws'.owner = ws.owner, Finished(ws) => Finished(ws)'
  PROVE  RowOwned'
<1>1. ExistingOperation' = ExistingOperation /\ Scheduled' = Scheduled
  BY OperationKept
<1>2. TakenOver' <=> TakenOver
  BY DEF TakenOver
<1> QED
  BY <1>1, <1>2 DEF RowOwned

\* The gate: whoever takes it finds it free, and gives it back where its work ends.
LEMMA GateStep ==
  ASSUME DeletionInv, [Next]_vars
  PROVE  GateHeld'
<1>a. /\ TypeOK /\ GateHeld /\ Stages /\ RetriesLeft /\ NoRunsLeft /\ RemovedIsGone
      /\ RowOfTree /\ NobodyAsked /\ WorkerKnown /\ RowOwned /\ CompletedAfter
  BY DEF DeletionInv
<1>1. ASSUME Runs PROVE GateHeld'
  BY <1>1, <1>a, RunFields, NothingMoved
<1>2. ASSUME NEW d \in Delete, Accept(d) PROVE GateHeld'
  BY <1>2, <1>a, CommandFields DEF GateHeld
<1>3. ASSUME Commands, \A d \in Delete : ~Accept(d) PROVE GateHeld'
  <2>1. ASSUME NEW d \in Delete, AnswerDelete(d) PROVE GateHeld'
    BY <2>1, <1>a, CommandFields DEF GateHeld
  <2>2. CASE Retry
    BY <2>2, <1>a, CommandFields DEF GateHeld
  <2>3. CASE RetryOrphan
    BY <2>3, <1>a, CommandFields DEF GateHeld
  <2>4. ASSUME NEW c \in UserCleanup, CleanWorkspace(c) PROVE GateHeld'
    BY <2>4, <1>a, CommandFields DEF GateHeld
  <2> QED
    BY <1>3, <2>1, <2>2, <2>3, <2>4 DEF Commands
<1>4. ASSUME Preparation, \A d \in Delete : ~Accept(d) PROVE GateHeld'
  <2>1. ASSUME NEW e \in Execution, PrepBegin(e) PROVE GateHeld'
    BY <1>4, <2>1, <1>a, PrepFields DEF GateHeld
  <2>2. CASE PrepError
    BY <1>4, <2>2, <1>a, PrepFields DEF GateHeld, Ends, IdlePrep
  <2>3. CASE PrepPlan
    BY <1>4, <2>3, <1>a, PrepFields DEF GateHeld, Ends, Goes, IdlePrep
  <2>4. CASE PrepAdopt
    BY <1>4, <2>4, <1>a, PrepFields DEF GateHeld, Ends, Goes, IdlePrep
  <2>5. CASE PrepAgain
    BY <1>4, <2>5, <1>a, PrepFields DEF GateHeld, Ends, Goes, IdlePrep
  <2>6. CASE Materialize
    BY <1>4, <2>6, <1>a, PrepFields DEF GateHeld, Goes
  <2>7. CASE PrepReady
    BY <1>4, <2>7, <1>a, PrepFields DEF GateHeld, Ends, Goes, IdlePrep
  <2>8. CASE PrepReturn
    BY <1>4, <2>8, <1>a, PrepFields DEF GateHeld, Ends, IdlePrep
  <2> QED
    BY <1>4, <2>1, <2>2, <2>3, <2>4, <2>5, <2>6, <2>7, <2>8 DEF Preparation
<1>5. ASSUME Worker, \A d \in Delete : ~Accept(d) PROVE GateHeld'
  <2>1. CASE WorkerStart
    BY <1>5, <2>1, <1>a, WorkerFields DEF GateHeld
  <2>2. CASE Verify
    BY <1>5, <2>2, <1>a, WorkerFields DEF GateHeld
  <2>3. CASE RemoveTree
    BY <1>5, <2>3, <1>a, WorkerFields DEF GateHeld
  <2>4. CASE FlagTree
    BY <1>5, <2>4, <1>a, WorkerFields DEF GateHeld
  <2>5. CASE RemoveBranch
    BY <1>5, <2>5, <1>a, WorkerFields DEF GateHeld
  <2>6. CASE FlagEnd
    BY <1>5, <2>6, <1>a, WorkerFields DEF GateHeld
  <2>7. CASE Publish
    BY <1>5, <2>7, <1>a, WorkerFields DEF GateHeld
  <2>8. ASSUME NEW f \in BOOLEAN, WorkerFails(f) PROVE GateHeld'
    BY <1>5, <2>8, <1>a, WorkerFields DEF GateHeld
  <2> QED
    BY <1>5, <2>1, <2>2, <2>3, <2>4, <2>5, <2>6, <2>7, <2>8 DEF Worker
<1>6. ASSUME Coordinator, \A d \in Delete : ~Accept(d) PROVE GateHeld'
  <2>1. CASE StartDeletion
    BY <1>6, <2>1, <1>a, CoordFields DEF GateHeld, Stage, At
  <2>2. CASE FenceFleet
    BY <1>6, <2>2, <1>a, CoordFields DEF GateHeld, Stage, At
  <2>3. CASE Prepare
    BY <1>6, <2>3, <1>a, CoordFields DEF GateHeld, Stage, At
  <2>4. CASE Commit
    BY <1>6, <2>4, <1>a, CoordFields DEF GateHeld, Stage, At
  <2>5. CASE RecordDeletionFailure
    BY <1>6, <2>5, <1>a, CoordFields DEF GateHeld, Stage, At
  <2>6. ASSUME NEW e \in Execution, StopTarget(e) PROVE GateHeld'
    BY <1>6, <2>6, <1>a, CoordFields DEF GateHeld, Stage, At
  <2>7. CASE StartCleanup
    BY <1>6, <2>7, <1>a, CoordFields DEF GateHeld, Stage, At
  <2>8. CASE RemoveFiles
    BY <1>6, <2>8, <1>a, CoordFields DEF GateHeld, Stage, At
  <2>9. CASE CheckWorkspace
    BY <1>6, <2>9, <1>a, CoordFields DEF GateHeld, Stage, At
  <2>10. CASE Complete
    BY <1>6, <2>10, <1>a, CoordFields DEF GateHeld, Stage, At
  <2>11. CASE RecordCleanupFailure
    BY <1>6, <2>11, <1>a, CoordFields DEF GateHeld, Stage, At
  <2> QED
    BY <1>6, <2>1, <2>2, <2>3, <2>4, <2>5, <2>6, <2>7, <2>8, <2>9, <2>10, <2>11 DEF Coordinator
<1>7. ASSUME Backoff PROVE GateHeld'
  BY <1>7, <1>a, CommandFields DEF GateHeld
<1>8. ASSUME Crash PROVE GateHeld'
  BY <1>8, <1>a, CommandFields DEF GateHeld, IdlePrep, IdleCoord
<1>9. ASSUME UNCHANGED vars PROVE GateHeld'
  BY <1>9, NothingMoved
<1> QED
  BY <1>1, <1>2, <1>3, <1>4, <1>5, <1>6, <1>7, <1>8, <1>9 DEF Next, Commands

\* The stages: the marker, the journal and the coordinator move on together, and never back.
LEMMA StageStep ==
  ASSUME DeletionInv, [Next]_vars
  PROVE  Stages'
<1>a. /\ TypeOK /\ GateHeld /\ Stages /\ RetriesLeft /\ NoRunsLeft /\ RemovedIsGone
      /\ RowOfTree /\ NobodyAsked /\ WorkerKnown /\ RowOwned /\ CompletedAfter
  BY DEF DeletionInv
<1>b. /\ Delete = Retain \cup Cleanup /\ Retain \cap Cleanup = {} /\ None \notin Delete
      /\ UserCleanup \cap Delete = {}
      /\ ExistingOperation \in Delete \cup {None}
      /\ (Open <=> ExistingOperation = None)
      /\ Limit \in Nat /\ 0 < Limit
  BY <1>a, Constants, Operations
<1>c. (\A d \in Delete : ~Accept(d)) => Steady
  BY <1>a, OperationMoves
<1>d. (coord.at = "failed" => ~camp.attention) /\ (coord.at = "stuck" => ~journal.attention)
  BY <1>a DEF RetriesLeft, BeforeCommit, AfterCommit
<1>1. ASSUME Runs PROVE Stages'
  BY <1>1, <1>a, RunFields, NothingMoved
<1>2. ASSUME NEW d \in Delete, Accept(d) PROVE Stages'
  BY <1>2, <1>a, <1>b, AcceptOperation, CommandFields DEF Stages
<1>3. ASSUME Commands, \A d \in Delete : ~Accept(d) PROVE Stages'
  <2>1. ASSUME NEW d \in Delete, AnswerDelete(d) PROVE Stages'
    BY <2>1, <1>a, <1>c, CommandFields DEF Stages, Steady
  <2>2. CASE Retry
    BY <2>2, <1>a, <1>c, CommandFields DEF Stages, Steady
  <2>3. CASE RetryOrphan
    BY <2>3, <1>a, <1>c, CommandFields DEF Stages, Steady
  <2>4. ASSUME NEW c \in UserCleanup, CleanWorkspace(c) PROVE Stages'
    BY <2>4, <1>a, <1>c, CommandFields DEF Stages, Steady
  <2> QED
    BY <1>3, <2>1, <2>2, <2>3, <2>4 DEF Commands
<1>4. ASSUME Preparation, \A d \in Delete : ~Accept(d) PROVE Stages'
  <2>1. ASSUME NEW e \in Execution, PrepBegin(e) PROVE Stages'
    BY <1>4, <2>1, <1>a, <1>c, PrepFields DEF Stages, Steady
  <2>2. CASE PrepError
    BY <1>4, <2>2, <1>a, <1>c, PrepFields DEF Stages, Steady
  <2>3. CASE PrepPlan
    BY <1>4, <2>3, <1>a, <1>c, PrepFields DEF Stages, Steady
  <2>4. CASE PrepAdopt
    BY <1>4, <2>4, <1>a, <1>c, PrepFields DEF Stages, Steady
  <2>5. CASE PrepAgain
    BY <1>4, <2>5, <1>a, <1>c, PrepFields DEF Stages, Steady
  <2>6. CASE Materialize
    BY <1>4, <2>6, <1>a, <1>c, PrepFields DEF Stages, Steady
  <2>7. CASE PrepReady
    BY <1>4, <2>7, <1>a, <1>c, PrepFields DEF Stages, Steady
  <2>8. CASE PrepReturn
    BY <1>4, <2>8, <1>a, <1>c, PrepFields DEF Stages, Steady
  <2> QED
    BY <1>4, <2>1, <2>2, <2>3, <2>4, <2>5, <2>6, <2>7, <2>8 DEF Preparation
<1>5. ASSUME Worker, \A d \in Delete : ~Accept(d) PROVE Stages'
  <2>1. CASE WorkerStart
    BY <1>5, <2>1, <1>a, <1>c, WorkerFields DEF Stages, Steady
  <2>2. CASE Verify
    BY <1>5, <2>2, <1>a, <1>c, WorkerFields DEF Stages, Steady
  <2>3. CASE RemoveTree
    BY <1>5, <2>3, <1>a, <1>c, WorkerFields DEF Stages, Steady
  <2>4. CASE FlagTree
    BY <1>5, <2>4, <1>a, <1>c, WorkerFields DEF Stages, Steady
  <2>5. CASE RemoveBranch
    BY <1>5, <2>5, <1>a, <1>c, WorkerFields DEF Stages, Steady
  <2>6. CASE FlagEnd
    BY <1>5, <2>6, <1>a, <1>c, WorkerFields DEF Stages, Steady
  <2>7. CASE Publish
    BY <1>5, <2>7, <1>a, <1>c, WorkerFields DEF Stages, Steady
  <2>8. ASSUME NEW f \in BOOLEAN, WorkerFails(f) PROVE Stages'
    BY <1>5, <2>8, <1>a, <1>c, WorkerFields DEF Stages, Steady
  <2> QED
    BY <1>5, <2>1, <2>2, <2>3, <2>4, <2>5, <2>6, <2>7, <2>8 DEF Worker
<1>6. ASSUME Coordinator, \A d \in Delete : ~Accept(d) PROVE Stages'
  <2>1. CASE StartDeletion
    BY <1>6, <2>1, <1>a, <1>c, CoordFields DEF Stages, AfterCommit, Steady, Stage
  <2>2. CASE FenceFleet
    BY <1>6, <2>2, <1>a, <1>c, CoordFields DEF Stages, BeforeCommit, AfterCommit, Steady, Stage, At
  <2>3. CASE Prepare
    BY <1>6, <2>3, <1>a, <1>c, CoordFields DEF Stages, BeforeCommit, AfterCommit, Steady, Stage, At
  <2>4. CASE Commit
    <3>1. coord.at = "commit" /\ gate = "coord" /\ Deleting /\ prep.at = "idle" /\ prep' = prep
      BY <1>6, <2>4, <1>a, CoordFields DEF At, GateHeld, Stages, BeforeCommit
    <3>2. \E o \in Delete : OperationIs(o)'
      BY <1>6, <1>a, <1>c, <3>1 DEF Stages, Steady
    <3>3. \/ /\ camp'.state = "gone" /\ camp'.op = None
             /\ journal'.status = "committed" /\ coord'.at = "files"
          \/ UNCHANGED <<camp, journal>> /\ coord'.at = "failed"
      BY <2>4, <1>a, CoordFields DEF Stage
    <3> QED
      BY <1>a, <3>1, <3>2, <3>3 DEF Stages, BeforeCommit, AfterCommit
  <2>5. CASE RecordDeletionFailure
    BY <1>6, <2>5, <1>a, <1>c, <1>d, CoordFields
    DEF Stages, BeforeCommit, AfterCommit, Steady, Stage, At
  <2>6. ASSUME NEW e \in Execution, StopTarget(e) PROVE Stages'
    BY <1>6, <2>6, <1>a, <1>c, CoordFields DEF Stages, Steady, Stage, At
  <2>7. CASE StartCleanup
    BY <1>6, <2>7, <1>a, <1>c, CoordFields DEF Stages, BeforeCommit, Steady, Stage
  <2>8. CASE RemoveFiles
    BY <1>6, <2>8, <1>a, <1>c, CoordFields DEF Stages, BeforeCommit, AfterCommit, Steady, Stage, At
  <2>9. CASE CheckWorkspace
    BY <1>6, <2>9, <1>a, <1>c, CoordFields DEF Stages, BeforeCommit, AfterCommit, Steady, Stage, At
  <2>10. CASE Complete
    BY <1>6, <2>10, <1>a, <1>c, CoordFields DEF Stages, BeforeCommit, AfterCommit, Steady, Stage, At
  <2>11. CASE RecordCleanupFailure
    BY <1>6, <2>11, <1>a, <1>c, <1>d, CoordFields
    DEF Stages, BeforeCommit, AfterCommit, Steady, Stage, At
  <2> QED
    BY <1>6, <2>1, <2>2, <2>3, <2>4, <2>5, <2>6, <2>7, <2>8, <2>9, <2>10, <2>11 DEF Coordinator
<1>7. ASSUME Backoff PROVE Stages'
  BY <1>7, <1>a, <1>b, <1>c, CommandFields DEF Stages, Steady
<1>8. ASSUME Crash PROVE Stages'
  BY <1>8, <1>a, <1>b, <1>c, CommandFields
  DEF Stages, BeforeCommit, AfterCommit, Steady, IdlePrep, IdleCoord
<1>9. ASSUME UNCHANGED vars PROVE Stages'
  BY <1>9, NothingMoved
<1> QED
  BY <1>1, <1>2, <1>3, <1>4, <1>5, <1>6, <1>7, <1>8, <1>9 DEF Next, Commands

\* The attempts: only what was answered or waits for its time is tried again.
LEMMA RetryStep ==
  ASSUME DeletionInv, [Next]_vars
  PROVE  RetriesLeft'
<1>a. /\ TypeOK /\ GateHeld /\ Stages /\ RetriesLeft /\ NoRunsLeft /\ RemovedIsGone
      /\ RowOfTree /\ NobodyAsked /\ WorkerKnown /\ RowOwned /\ CompletedAfter
  BY DEF DeletionInv
<1>b. /\ Delete = Retain \cup Cleanup /\ Retain \cap Cleanup = {} /\ None \notin Delete
      /\ UserCleanup \cap Delete = {}
      /\ ExistingOperation \in Delete \cup {None}
      /\ (Open <=> ExistingOperation = None)
      /\ Limit \in Nat /\ 0 < Limit
  BY <1>a, Constants, Operations
<1>1. ASSUME Runs PROVE RetriesLeft'
  BY <1>1, <1>a, RunFields, NothingMoved
<1>2. ASSUME NEW d \in Delete, Accept(d) PROVE RetriesLeft'
  BY <1>2, <1>a, <1>b, CommandFields DEF RetriesLeft
<1>3. ASSUME Commands, \A d \in Delete : ~Accept(d) PROVE RetriesLeft'
  <2>1. ASSUME NEW d \in Delete, AnswerDelete(d) PROVE RetriesLeft'
    BY <2>1, <1>a, CommandFields DEF RetriesLeft
  <2>2. CASE Retry
    BY <2>2, <1>a, <1>b, CommandFields DEF RetriesLeft
  <2>3. CASE RetryOrphan
    BY <2>3, <1>a, CommandFields DEF RetriesLeft
  <2>4. ASSUME NEW c \in UserCleanup, CleanWorkspace(c) PROVE RetriesLeft'
    BY <2>4, <1>a, CommandFields DEF RetriesLeft
  <2> QED
    BY <1>3, <2>1, <2>2, <2>3, <2>4 DEF Commands
<1>4. ASSUME Preparation, \A d \in Delete : ~Accept(d) PROVE RetriesLeft'
  <2>1. ASSUME NEW e \in Execution, PrepBegin(e) PROVE RetriesLeft'
    BY <1>4, <2>1, <1>a, PrepFields DEF RetriesLeft
  <2>2. CASE PrepError
    BY <1>4, <2>2, <1>a, PrepFields DEF RetriesLeft
  <2>3. CASE PrepPlan
    BY <1>4, <2>3, <1>a, PrepFields DEF RetriesLeft
  <2>4. CASE PrepAdopt
    BY <1>4, <2>4, <1>a, PrepFields DEF RetriesLeft
  <2>5. CASE PrepAgain
    BY <1>4, <2>5, <1>a, PrepFields DEF RetriesLeft
  <2>6. CASE Materialize
    BY <1>4, <2>6, <1>a, PrepFields DEF RetriesLeft
  <2>7. CASE PrepReady
    BY <1>4, <2>7, <1>a, PrepFields DEF RetriesLeft
  <2>8. CASE PrepReturn
    BY <1>4, <2>8, <1>a, PrepFields DEF RetriesLeft
  <2> QED
    BY <1>4, <2>1, <2>2, <2>3, <2>4, <2>5, <2>6, <2>7, <2>8 DEF Preparation
<1>5. ASSUME Worker, \A d \in Delete : ~Accept(d) PROVE RetriesLeft'
  <2>1. CASE WorkerStart
    BY <1>5, <2>1, <1>a, WorkerFields DEF RetriesLeft
  <2>2. CASE Verify
    BY <1>5, <2>2, <1>a, WorkerFields DEF RetriesLeft
  <2>3. CASE RemoveTree
    BY <1>5, <2>3, <1>a, WorkerFields DEF RetriesLeft
  <2>4. CASE FlagTree
    BY <1>5, <2>4, <1>a, WorkerFields DEF RetriesLeft
  <2>5. CASE RemoveBranch
    BY <1>5, <2>5, <1>a, WorkerFields DEF RetriesLeft
  <2>6. CASE FlagEnd
    BY <1>5, <2>6, <1>a, WorkerFields DEF RetriesLeft
  <2>7. CASE Publish
    BY <1>5, <2>7, <1>a, WorkerFields DEF RetriesLeft
  <2>8. ASSUME NEW f \in BOOLEAN, WorkerFails(f) PROVE RetriesLeft'
    BY <1>5, <2>8, <1>a, WorkerFields DEF RetriesLeft
  <2> QED
    BY <1>5, <2>1, <2>2, <2>3, <2>4, <2>5, <2>6, <2>7, <2>8 DEF Worker
<1>6. ASSUME Coordinator, \A d \in Delete : ~Accept(d) PROVE RetriesLeft'
  <2>1. CASE StartDeletion
    BY <2>1, <1>a, CoordFields DEF RetriesLeft, AfterCommit, Stage
  <2>2. CASE FenceFleet
    BY <2>2, <1>a, CoordFields DEF RetriesLeft, BeforeCommit, AfterCommit, Stage, At
  <2>3. CASE Prepare
    BY <2>3, <1>a, CoordFields DEF RetriesLeft, BeforeCommit, AfterCommit, Stage, At
  <2>4. CASE Commit
    BY <2>4, <1>a, <1>b, CoordFields DEF RetriesLeft, BeforeCommit, AfterCommit, Stage, At
  <2>5. CASE RecordDeletionFailure
    BY <2>5, <1>a, CoordFields DEF RetriesLeft, BeforeCommit, AfterCommit, Stage, At
  <2>6. ASSUME NEW e \in Execution, StopTarget(e) PROVE RetriesLeft'
    BY <2>6, <1>a, CoordFields DEF RetriesLeft, Stage, At
  <2>7. CASE StartCleanup
    BY <2>7, <1>a, CoordFields DEF RetriesLeft, BeforeCommit, Stage
  <2>8. CASE RemoveFiles
    BY <2>8, <1>a, CoordFields DEF RetriesLeft, BeforeCommit, AfterCommit, Stage, At
  <2>9. CASE CheckWorkspace
    BY <2>9, <1>a, CoordFields DEF RetriesLeft, BeforeCommit, AfterCommit, Stage, At
  <2>10. CASE Complete
    BY <2>10, <1>a, CoordFields DEF RetriesLeft, BeforeCommit, AfterCommit, Stage, At
  <2>11. CASE RecordCleanupFailure
    BY <2>11, <1>a, CoordFields DEF RetriesLeft, BeforeCommit, AfterCommit, Stage, At
  <2> QED
    BY <1>6, <2>1, <2>2, <2>3, <2>4, <2>5, <2>6, <2>7, <2>8, <2>9, <2>10, <2>11 DEF Coordinator
<1>7. ASSUME Backoff PROVE RetriesLeft'
  BY <1>7, <1>a, CommandFields DEF RetriesLeft
<1>8. ASSUME Crash PROVE RetriesLeft'
  BY <1>8, <1>a, CommandFields DEF RetriesLeft, BeforeCommit, AfterCommit, IdleCoord
<1>9. ASSUME UNCHANGED vars PROVE RetriesLeft'
  BY <1>9, NothingMoved
<1> QED
  BY <1>1, <1>2, <1>3, <1>4, <1>5, <1>6, <1>7, <1>8, <1>9 DEF Next, Commands

\* The executions: after the cutover a run only ends.
LEMMA RunsStep ==
  ASSUME DeletionInv, [Next]_vars
  PROVE  NoRunsLeft'
<1>a. /\ TypeOK /\ GateHeld /\ Stages /\ RetriesLeft /\ NoRunsLeft /\ RemovedIsGone
      /\ RowOfTree /\ NobodyAsked /\ WorkerKnown /\ RowOwned /\ CompletedAfter
  BY DEF DeletionInv
<1>1. ASSUME Runs PROVE NoRunsLeft'
  BY <1>1, <1>a, RunFields DEF NoRunsLeft
<1>2. ASSUME NEW d \in Delete, Accept(d) PROVE NoRunsLeft'
  BY <1>2, <1>a, CommandFields DEF NoRunsLeft
<1>3. ASSUME Commands, \A d \in Delete : ~Accept(d) PROVE NoRunsLeft'
  <2>1. ASSUME NEW d \in Delete, AnswerDelete(d) PROVE NoRunsLeft'
    BY <2>1, <1>a, CommandFields DEF NoRunsLeft
  <2>2. CASE Retry
    BY <2>2, <1>a, CommandFields DEF NoRunsLeft
  <2>3. CASE RetryOrphan
    BY <2>3, <1>a, CommandFields DEF NoRunsLeft
  <2>4. ASSUME NEW c \in UserCleanup, CleanWorkspace(c) PROVE NoRunsLeft'
    BY <2>4, <1>a, CommandFields DEF NoRunsLeft
  <2> QED
    BY <1>3, <2>1, <2>2, <2>3, <2>4 DEF Commands
<1>4. ASSUME Preparation, \A d \in Delete : ~Accept(d) PROVE NoRunsLeft'
  <2>1. ASSUME NEW e \in Execution, PrepBegin(e) PROVE NoRunsLeft'
    BY <1>4, <2>1, <1>a, PrepFields DEF NoRunsLeft
  <2>2. CASE PrepError
    BY <1>4, <2>2, <1>a, PrepFields DEF NoRunsLeft
  <2>3. CASE PrepPlan
    BY <1>4, <2>3, <1>a, PrepFields DEF NoRunsLeft
  <2>4. CASE PrepAdopt
    BY <1>4, <2>4, <1>a, PrepFields DEF NoRunsLeft
  <2>5. CASE PrepAgain
    BY <1>4, <2>5, <1>a, PrepFields DEF NoRunsLeft
  <2>6. CASE Materialize
    BY <1>4, <2>6, <1>a, PrepFields DEF NoRunsLeft
  <2>7. CASE PrepReady
    BY <1>4, <2>7, <1>a, PrepFields DEF NoRunsLeft
  <2>8. CASE PrepReturn
    BY <1>4, <2>8, <1>a, PrepFields DEF NoRunsLeft
  <2> QED
    BY <1>4, <2>1, <2>2, <2>3, <2>4, <2>5, <2>6, <2>7, <2>8 DEF Preparation
<1>5. ASSUME Worker, \A d \in Delete : ~Accept(d) PROVE NoRunsLeft'
  <2>1. CASE WorkerStart
    BY <1>5, <2>1, <1>a, WorkerFields DEF NoRunsLeft
  <2>2. CASE Verify
    BY <1>5, <2>2, <1>a, WorkerFields DEF NoRunsLeft
  <2>3. CASE RemoveTree
    BY <1>5, <2>3, <1>a, WorkerFields DEF NoRunsLeft
  <2>4. CASE FlagTree
    BY <1>5, <2>4, <1>a, WorkerFields DEF NoRunsLeft
  <2>5. CASE RemoveBranch
    BY <1>5, <2>5, <1>a, WorkerFields DEF NoRunsLeft
  <2>6. CASE FlagEnd
    BY <1>5, <2>6, <1>a, WorkerFields DEF NoRunsLeft
  <2>7. CASE Publish
    BY <1>5, <2>7, <1>a, WorkerFields DEF NoRunsLeft
  <2>8. ASSUME NEW f \in BOOLEAN, WorkerFails(f) PROVE NoRunsLeft'
    BY <1>5, <2>8, <1>a, WorkerFields DEF NoRunsLeft
  <2> QED
    BY <1>5, <2>1, <2>2, <2>3, <2>4, <2>5, <2>6, <2>7, <2>8 DEF Worker
<1>6. ASSUME Coordinator, \A d \in Delete : ~Accept(d) PROVE NoRunsLeft'
  <2>1. CASE StartDeletion
    BY <2>1, <1>a, CoordFields DEF NoRunsLeft
  <2>2. CASE FenceFleet
    BY <2>2, <1>a, CoordFields DEF NoRunsLeft
  <2>3. CASE Prepare
    BY <2>3, <1>a, CoordFields DEF NoRunsLeft
  <2>4. CASE Commit
    BY <2>4, <1>a, CoordFields DEF NoRunsLeft, Stages, BeforeCommit, At
  <2>5. CASE RecordDeletionFailure
    BY <2>5, <1>a, CoordFields DEF NoRunsLeft, Stages, BeforeCommit, At
  <2>6. ASSUME NEW e \in Execution, StopTarget(e) PROVE NoRunsLeft'
    BY <2>6, <1>a, CoordFields DEF NoRunsLeft
  <2>7. CASE StartCleanup
    BY <2>7, <1>a, CoordFields DEF NoRunsLeft
  <2>8. CASE RemoveFiles
    BY <2>8, <1>a, CoordFields DEF NoRunsLeft
  <2>9. CASE CheckWorkspace
    BY <2>9, <1>a, CoordFields DEF NoRunsLeft
  <2>10. CASE Complete
    BY <2>10, <1>a, CoordFields DEF NoRunsLeft
  <2>11. CASE RecordCleanupFailure
    BY <2>11, <1>a, CoordFields DEF NoRunsLeft
  <2> QED
    BY <1>6, <2>1, <2>2, <2>3, <2>4, <2>5, <2>6, <2>7, <2>8, <2>9, <2>10, <2>11 DEF Coordinator
<1>7. ASSUME Backoff PROVE NoRunsLeft'
  BY <1>7, <1>a, CommandFields DEF NoRunsLeft
<1>8. ASSUME Crash PROVE NoRunsLeft'
  BY <1>8, <1>a, CommandFields DEF NoRunsLeft
<1>9. ASSUME UNCHANGED vars PROVE NoRunsLeft'
  BY <1>9, <1>a DEF NoRunsLeft
<1> QED
  BY <1>1, <1>2, <1>3, <1>4, <1>5, <1>6, <1>7, <1>8, <1>9 DEF Next, Commands

\* What was removed: the row is marked after the files went, and a worktree is made behind the
\* same gate.
LEMMA RemovalStep ==
  ASSUME DeletionInv, [Next]_vars
  PROVE  RemovedIsGone'
<1>a. /\ TypeOK /\ GateHeld /\ Stages /\ RetriesLeft /\ NoRunsLeft /\ RemovedIsGone
      /\ RowOfTree /\ NobodyAsked /\ WorkerKnown /\ RowOwned /\ CompletedAfter
  BY DEF DeletionInv
<1>d. (coord.at = "failed" => ~camp.attention) /\ (coord.at = "stuck" => ~journal.attention)
  BY <1>a DEF RetriesLeft, BeforeCommit, AfterCommit
<1>1. ASSUME Runs PROVE RemovedIsGone'
  BY <1>1, <1>a, RunFields, NothingMoved
<1>2. ASSUME NEW d \in Delete, Accept(d) PROVE RemovedIsGone'
  BY <1>2, <1>a, CommandFields, NewRows DEF RemovedIsGone
<1>3. ASSUME Commands, \A d \in Delete : ~Accept(d) PROVE RemovedIsGone'
  <2>1. ASSUME NEW d \in Delete, AnswerDelete(d) PROVE RemovedIsGone'
    BY <2>1, <1>a, CommandFields DEF RemovedIsGone
  <2>2. CASE Retry
    BY <2>2, <1>a, CommandFields DEF RemovedIsGone
  <2>3. CASE RetryOrphan
    BY <2>3, <1>a, CommandFields DEF RemovedIsGone
  <2>4. ASSUME NEW c \in UserCleanup, CleanWorkspace(c) PROVE RemovedIsGone'
    BY <2>4, <1>a, CommandFields DEF RemovedIsGone
  <2> QED
    BY <1>3, <2>1, <2>2, <2>3, <2>4 DEF Commands
<1>4. ASSUME Preparation, \A d \in Delete : ~Accept(d) PROVE RemovedIsGone'
  <2>1. ASSUME NEW e \in Execution, PrepBegin(e) PROVE RemovedIsGone'
    BY <1>4, <2>1, <1>a, PrepFields DEF RemovedIsGone
  <2>2. CASE PrepError
    BY <1>4, <2>2, <1>a, PrepFields DEF RemovedIsGone, Ends, IdlePrep
  <2>3. CASE PrepPlan
    BY <1>4, <2>3, <1>a, PrepFields DEF RemovedIsGone, Ends, Writes, IdlePrep
  <2>4. CASE PrepAdopt
    BY <1>4, <2>4, <1>a, PrepFields DEF RemovedIsGone, Ends, Writes, IdlePrep
  <2>5. CASE PrepAgain
    BY <1>4, <2>5, <1>a, PrepFields DEF RemovedIsGone, Ends, Writes, IdlePrep
  <2>6. CASE Materialize
    BY <1>4, <2>6, <1>a, PrepFields DEF RemovedIsGone, GateHeld
  <2>7. CASE PrepReady
    BY <1>4, <2>7, <1>a, PrepFields DEF RemovedIsGone, Ends, IdlePrep
  <2>8. CASE PrepReturn
    BY <1>4, <2>8, <1>a, PrepFields DEF RemovedIsGone, Ends, IdlePrep
  <2> QED
    BY <1>4, <2>1, <2>2, <2>3, <2>4, <2>5, <2>6, <2>7, <2>8 DEF Preparation
<1>5. ASSUME Worker, \A d \in Delete : ~Accept(d) PROVE RemovedIsGone'
  <2>1. CASE WorkerStart
    BY <1>5, <2>1, <1>a, WorkerFields DEF RemovedIsGone
  <2>2. CASE Verify
    BY <1>5, <2>2, <1>a, WorkerFields DEF RemovedIsGone, GateHeld
  <2>3. CASE RemoveTree
    BY <1>5, <2>3, <1>a, WorkerFields DEF RemovedIsGone
  <2>4. CASE FlagTree
    BY <1>5, <2>4, <1>a, WorkerFields DEF RemovedIsGone, WorkerKnown, GateHeld
  <2>5. CASE RemoveBranch
    BY <1>5, <2>5, <1>a, WorkerFields DEF RemovedIsGone
  <2>6. CASE FlagEnd
    BY <1>5, <2>6, <1>a, WorkerFields DEF RemovedIsGone, GateHeld
  <2>7. CASE Publish
    BY <1>5, <2>7, <1>a, WorkerFields, NewRows DEF RemovedIsGone
  <2>8. ASSUME NEW f \in BOOLEAN, WorkerFails(f) PROVE RemovedIsGone'
    BY <1>5, <2>8, <1>a, WorkerFields DEF RemovedIsGone
  <2> QED
    BY <1>5, <2>1, <2>2, <2>3, <2>4, <2>5, <2>6, <2>7, <2>8 DEF Worker
<1>6. ASSUME Coordinator, \A d \in Delete : ~Accept(d) PROVE RemovedIsGone'
  <2>1. CASE StartDeletion
    BY <1>6, <2>1, <1>a, CoordFields DEF RemovedIsGone
  <2>2. CASE FenceFleet
    BY <1>6, <2>2, <1>a, CoordFields DEF RemovedIsGone
  <2>3. CASE Prepare
    BY <1>6, <2>3, <1>a, CoordFields DEF RemovedIsGone
  <2>4. CASE Commit
    BY <1>6, <2>4, <1>a, CoordFields, NewRows DEF RemovedIsGone
  <2>5. CASE RecordDeletionFailure
    BY <1>6, <2>5, <1>a, <1>d, CoordFields DEF RemovedIsGone, At
  <2>6. ASSUME NEW e \in Execution, StopTarget(e) PROVE RemovedIsGone'
    BY <1>6, <2>6, <1>a, CoordFields DEF RemovedIsGone
  <2>7. CASE StartCleanup
    BY <1>6, <2>7, <1>a, CoordFields DEF RemovedIsGone
  <2>8. CASE RemoveFiles
    BY <1>6, <2>8, <1>a, CoordFields DEF RemovedIsGone
  <2>9. CASE CheckWorkspace
    BY <1>6, <2>9, <1>a, CoordFields DEF RemovedIsGone
  <2>10. CASE Complete
    BY <1>6, <2>10, <1>a, CoordFields, NewRows DEF RemovedIsGone
  <2>11. CASE RecordCleanupFailure
    BY <1>6, <2>11, <1>a, CoordFields DEF RemovedIsGone
  <2> QED
    BY <1>6, <2>1, <2>2, <2>3, <2>4, <2>5, <2>6, <2>7, <2>8, <2>9, <2>10, <2>11 DEF Coordinator
<1>7. ASSUME Backoff PROVE RemovedIsGone'
  BY <1>7, <1>a, CommandFields DEF RemovedIsGone
<1>8. ASSUME Crash PROVE RemovedIsGone'
  BY <1>8, <1>a, CommandFields DEF RemovedIsGone, IdlePrep
<1>9. ASSUME UNCHANGED vars PROVE RemovedIsGone'
  BY <1>9, NothingMoved
<1> QED
  BY <1>1, <1>2, <1>3, <1>4, <1>5, <1>6, <1>7, <1>8, <1>9 DEF Next, Commands

\* The row of a worktree: it is dropped with the worktree, or because the user keeps it.
LEMMA TreeStep ==
  ASSUME DeletionInv, [Next]_vars
  PROVE  RowOfTree'
<1>a. /\ TypeOK /\ GateHeld /\ Stages /\ RetriesLeft /\ NoRunsLeft /\ RemovedIsGone
      /\ RowOfTree /\ NobodyAsked /\ WorkerKnown /\ RowOwned /\ CompletedAfter
  BY DEF DeletionInv
<1>b. /\ Delete = Retain \cup Cleanup /\ Retain \cap Cleanup = {} /\ None \notin Delete
      /\ UserCleanup \cap Delete = {}
      /\ ExistingOperation \in Delete \cup {None}
      /\ (Open <=> ExistingOperation = None)
      /\ Limit \in Nat /\ 0 < Limit
  BY <1>a, Constants, Operations
<1>c. (\A d \in Delete : ~Accept(d)) => Steady
  BY <1>a, OperationMoves
<1>1. ASSUME Runs PROVE RowOfTree'
  BY <1>1, <1>a, RunFields, NothingMoved
<1>2. ASSUME NEW d \in Delete, Accept(d) PROVE RowOfTree'
  BY <1>2, <1>a, <1>b, CommandFields DEF RowOfTree, RemovedIsGone
<1>3. ASSUME Commands, \A d \in Delete : ~Accept(d) PROVE RowOfTree'
  <2>1. ASSUME NEW d \in Delete, AnswerDelete(d) PROVE RowOfTree'
    BY <2>1, <1>a, <1>c, CommandFields DEF RowOfTree, Steady
  <2>2. CASE Retry
    BY <2>2, <1>a, <1>c, CommandFields DEF RowOfTree, Steady
  <2>3. CASE RetryOrphan
    BY <2>3, <1>a, CommandFields DEF RowOfTree
  <2>4. ASSUME NEW c \in UserCleanup, CleanWorkspace(c) PROVE RowOfTree'
    BY <2>4, <1>a, CommandFields DEF RowOfTree
  <2> QED
    BY <1>3, <2>1, <2>2, <2>3, <2>4 DEF Commands
<1>4. ASSUME Preparation, \A d \in Delete : ~Accept(d) PROVE RowOfTree'
  <2>1. ASSUME NEW e \in Execution, PrepBegin(e) PROVE RowOfTree'
    BY <1>4, <2>1, <1>a, <1>c, PrepFields DEF RowOfTree, Steady
  <2>2. CASE PrepError
    BY <1>4, <2>2, <1>a, <1>c, PrepFields DEF RowOfTree, Steady, Ends, IdlePrep
  <2>3. CASE PrepPlan
    BY <1>4, <2>3, <1>a, <1>c, PrepFields DEF RowOfTree, Steady, Ends, Writes, IdlePrep
  <2>4. CASE PrepAdopt
    BY <1>4, <2>4, <1>a, <1>c, PrepFields DEF RowOfTree, Steady, Ends, Writes, IdlePrep
  <2>5. CASE PrepAgain
    BY <1>4, <2>5, <1>a, <1>c, PrepFields DEF RowOfTree, Steady, Ends, Writes, IdlePrep
  <2>6. CASE Materialize
    BY <1>4, <2>6, <1>a, <1>c, PrepFields DEF RowOfTree, Steady
  <2>7. CASE PrepReady
    BY <1>4, <2>7, <1>a, <1>c, PrepFields DEF RowOfTree, Steady, Ends, IdlePrep
  <2>8. CASE PrepReturn
    BY <1>4, <2>8, <1>a, <1>c, PrepFields DEF RowOfTree, Steady, Ends, IdlePrep
  <2> QED
    BY <1>4, <2>1, <2>2, <2>3, <2>4, <2>5, <2>6, <2>7, <2>8 DEF Preparation
<1>5. ASSUME Worker, \A d \in Delete : ~Accept(d) PROVE RowOfTree'
  <2>1. CASE WorkerStart
    BY <1>5, <2>1, <1>a, <1>c, WorkerFields DEF RowOfTree, Steady
  <2>2. CASE Verify
    BY <2>2, <1>a, WorkerFields DEF RowOfTree
  <2>3. CASE RemoveTree
    BY <1>5, <2>3, <1>a, <1>c, WorkerFields DEF RowOfTree, Steady
  <2>4. CASE FlagTree
    BY <1>5, <2>4, <1>a, <1>c, WorkerFields DEF RowOfTree, Steady
  <2>5. CASE RemoveBranch
    BY <1>5, <2>5, <1>a, WorkerFields DEF RowOfTree, RemovedIsGone, GateHeld
  <2>6. CASE FlagEnd
    BY <1>5, <2>6, <1>a, WorkerFields DEF RowOfTree, RemovedIsGone, GateHeld
  <2>7. CASE Publish
    BY <1>5, <2>7, <1>a, WorkerFields DEF RowOfTree, RemovedIsGone, GateHeld
  <2>8. ASSUME NEW f \in BOOLEAN, WorkerFails(f) PROVE RowOfTree'
    BY <1>5, <2>8, <1>a, <1>c, WorkerFields DEF RowOfTree, Steady
  <2> QED
    BY <1>5, <2>1, <2>2, <2>3, <2>4, <2>5, <2>6, <2>7, <2>8 DEF Worker
<1>6. ASSUME Coordinator, \A d \in Delete : ~Accept(d) PROVE RowOfTree'
  <2>1. CASE StartDeletion
    BY <1>6, <2>1, <1>a, <1>c, CoordFields DEF RowOfTree, Steady
  <2>2. CASE FenceFleet
    BY <1>6, <2>2, <1>a, <1>c, CoordFields DEF RowOfTree, Steady
  <2>3. CASE Prepare
    BY <1>6, <2>3, <1>a, <1>c, CoordFields DEF RowOfTree, Steady
  <2>4. CASE Commit
    <3>1. coord.at = "commit" /\ gate = "coord" /\ Deleting /\ prep.at = "idle"
      BY <2>4, <1>a, CoordFields DEF At, GateHeld, Stages, BeforeCommit
    <3>2. prep' = prep /\ disk' = disk
      BY <1>6, <2>4, <1>a, CoordFields
    <3>3. ExistingOperation' = ExistingOperation /\ ExistingOperation \in Delete
      BY <1>6, <1>b, <1>c, <3>1, Constants DEF Steady
    <3>4. \/ ~Scheduled /\ ws' = NoRow
          \/ ws' = ws
          \/ Scheduled /\ HasRow /\ ws'.state = "cleanup_pending"
      BY <2>4, <1>a, CoordFields
    <3>5. ExistingOperation \in Cleanup /\ ~Scheduled => ~HasRow
      BY <1>a DEF RowOwned
    <3> QED
      BY <1>a, <1>b, <3>1, <3>2, <3>3, <3>4, <3>5, NewRows DEF RowOfTree
  <2>5. CASE RecordDeletionFailure
    BY <1>6, <2>5, <1>a, <1>c, CoordFields DEF RowOfTree, Steady
  <2>6. ASSUME NEW e \in Execution, StopTarget(e) PROVE RowOfTree'
    BY <1>6, <2>6, <1>a, <1>c, CoordFields DEF RowOfTree, Steady
  <2>7. CASE StartCleanup
    BY <1>6, <2>7, <1>a, <1>c, CoordFields DEF RowOfTree, Steady
  <2>8. CASE RemoveFiles
    BY <1>6, <2>8, <1>a, <1>c, CoordFields DEF RowOfTree, Steady
  <2>9. CASE CheckWorkspace
    BY <1>6, <2>9, <1>a, <1>c, CoordFields DEF RowOfTree, Steady
  <2>10. CASE Complete
    BY <1>6, <2>10, <1>a, <1>c, CoordFields DEF RowOfTree, RemovedIsGone, Steady
  <2>11. CASE RecordCleanupFailure
    BY <1>6, <2>11, <1>a, <1>c, CoordFields DEF RowOfTree, Steady
  <2> QED
    BY <1>6, <2>1, <2>2, <2>3, <2>4, <2>5, <2>6, <2>7, <2>8, <2>9, <2>10, <2>11 DEF Coordinator
<1>7. ASSUME Backoff PROVE RowOfTree'
  BY <1>7, <1>a, <1>b, <1>c, CommandFields DEF RowOfTree, Steady
<1>8. ASSUME Crash PROVE RowOfTree'
  BY <1>8, <1>a, <1>b, <1>c, CommandFields DEF RowOfTree, Steady, IdlePrep
<1>9. ASSUME UNCHANGED vars PROVE RowOfTree'
  BY <1>9, NothingMoved
<1> QED
  BY <1>1, <1>2, <1>3, <1>4, <1>5, <1>6, <1>7, <1>8, <1>9 DEF Next, Commands

\* Who asked: before the Thread is gone the worker starts for a command of the user only.
LEMMA AskedStep ==
  ASSUME DeletionInv, [Next]_vars
  PROVE  NobodyAsked'
<1>a. /\ TypeOK /\ GateHeld /\ Stages /\ RetriesLeft /\ NoRunsLeft /\ RemovedIsGone
      /\ RowOfTree /\ NobodyAsked /\ WorkerKnown /\ RowOwned /\ CompletedAfter
  BY DEF DeletionInv
<1>d. (coord.at = "failed" => ~camp.attention) /\ (coord.at = "stuck" => ~journal.attention)
  BY <1>a DEF RetriesLeft, BeforeCommit, AfterCommit
<1>1. ASSUME Runs PROVE NobodyAsked'
  BY <1>1, <1>a, RunFields, NothingMoved
<1>2. ASSUME NEW d \in Delete, Accept(d) PROVE NobodyAsked'
  BY <1>2, <1>a, AcceptOperation, CommandFields, NewRows DEF NobodyAsked
<1>3. ASSUME Commands, \A d \in Delete : ~Accept(d) PROVE NobodyAsked'
  <2>1. ASSUME NEW d \in Delete, AnswerDelete(d) PROVE NobodyAsked'
    BY <2>1, <1>a, CommandFields DEF NobodyAsked
  <2>2. CASE Retry
    BY <2>2, <1>a, CommandFields DEF NobodyAsked
  <2>3. CASE RetryOrphan
    BY <2>3, <1>a, CommandFields DEF NobodyAsked
  <2>4. ASSUME NEW c \in UserCleanup, CleanWorkspace(c) PROVE NobodyAsked'
    BY <2>4, <1>a, CommandFields DEF NobodyAsked
  <2> QED
    BY <1>3, <2>1, <2>2, <2>3, <2>4 DEF Commands
<1>4. ASSUME Preparation, \A d \in Delete : ~Accept(d) PROVE NobodyAsked'
  <2>1. ASSUME NEW e \in Execution, PrepBegin(e) PROVE NobodyAsked'
    BY <1>4, <2>1, <1>a, PrepFields DEF NobodyAsked
  <2>2. CASE PrepError
    BY <1>4, <2>2, <1>a, PrepFields DEF NobodyAsked
  <2>3. CASE PrepPlan
    BY <1>4, <2>3, <1>a, PrepFields DEF NobodyAsked, Writes
  <2>4. CASE PrepAdopt
    BY <1>4, <2>4, <1>a, PrepFields DEF NobodyAsked, Writes
  <2>5. CASE PrepAgain
    BY <1>4, <2>5, <1>a, PrepFields DEF NobodyAsked, Writes
  <2>6. CASE Materialize
    BY <1>4, <2>6, <1>a, PrepFields DEF NobodyAsked
  <2>7. CASE PrepReady
    BY <1>4, <2>7, <1>a, PrepFields DEF NobodyAsked
  <2>8. CASE PrepReturn
    BY <1>4, <2>8, <1>a, PrepFields DEF NobodyAsked
  <2> QED
    BY <1>4, <2>1, <2>2, <2>3, <2>4, <2>5, <2>6, <2>7, <2>8 DEF Preparation
<1>5. ASSUME Worker, \A d \in Delete : ~Accept(d) PROVE NobodyAsked'
  <2>1. CASE WorkerStart
    <3>1. CleanupRunning /\ ~Deleting /\ UNCHANGED <<camp, ws, used>>
      BY <1>5, <2>1, <1>a, WorkerFields
    <3>2. used = {} => ~Open
      BY <1>a, <3>1 DEF NobodyAsked, CleanupRunning
    <3>3. Open \/ Deleting \/ Gone
      BY <1>a DEF TypeOK
    <3> QED
      BY <1>a, <3>1, <3>2, <3>3 DEF NobodyAsked
  <2>2. CASE Verify
    BY <1>5, <2>2, <1>a, WorkerFields DEF NobodyAsked
  <2>3. CASE RemoveTree
    BY <1>5, <2>3, <1>a, WorkerFields DEF NobodyAsked
  <2>4. CASE FlagTree
    BY <1>5, <2>4, <1>a, WorkerFields DEF NobodyAsked
  <2>5. CASE RemoveBranch
    BY <1>5, <2>5, <1>a, WorkerFields DEF NobodyAsked
  <2>6. CASE FlagEnd
    BY <1>5, <2>6, <1>a, WorkerFields DEF NobodyAsked
  <2>7. CASE Publish
    BY <1>5, <2>7, <1>a, WorkerFields DEF NobodyAsked
  <2>8. ASSUME NEW f \in BOOLEAN, WorkerFails(f) PROVE NobodyAsked'
    BY <1>5, <2>8, <1>a, WorkerFields DEF NobodyAsked
  <2> QED
    BY <1>5, <2>1, <2>2, <2>3, <2>4, <2>5, <2>6, <2>7, <2>8 DEF Worker
<1>6. ASSUME Coordinator, \A d \in Delete : ~Accept(d) PROVE NobodyAsked'
  <2>1. CASE StartDeletion
    BY <1>6, <2>1, <1>a, CoordFields DEF NobodyAsked
  <2>2. CASE FenceFleet
    BY <1>6, <2>2, <1>a, CoordFields DEF NobodyAsked
  <2>3. CASE Prepare
    BY <1>6, <2>3, <1>a, CoordFields DEF NobodyAsked
  <2>4. CASE Commit
    BY <1>6, <2>4, <1>a, CoordFields DEF NobodyAsked
  <2>5. CASE RecordDeletionFailure
    BY <1>6, <2>5, <1>a, <1>d, CoordFields DEF NobodyAsked, At
  <2>6. ASSUME NEW e \in Execution, StopTarget(e) PROVE NobodyAsked'
    BY <1>6, <2>6, <1>a, CoordFields DEF NobodyAsked
  <2>7. CASE StartCleanup
    BY <1>6, <2>7, <1>a, CoordFields DEF NobodyAsked
  <2>8. CASE RemoveFiles
    BY <1>6, <2>8, <1>a, CoordFields DEF NobodyAsked
  <2>9. CASE CheckWorkspace
    BY <1>6, <2>9, <1>a, CoordFields DEF NobodyAsked
  <2>10. CASE Complete
    BY <1>6, <2>10, <1>a, CoordFields, NewRows DEF NobodyAsked
  <2>11. CASE RecordCleanupFailure
    BY <1>6, <2>11, <1>a, CoordFields DEF NobodyAsked
  <2> QED
    BY <1>6, <2>1, <2>2, <2>3, <2>4, <2>5, <2>6, <2>7, <2>8, <2>9, <2>10, <2>11 DEF Coordinator
<1>7. ASSUME Backoff PROVE NobodyAsked'
  BY <1>7, <1>a, CommandFields DEF NobodyAsked
<1>8. ASSUME Crash PROVE NobodyAsked'
  BY <1>8, <1>a, CommandFields DEF NobodyAsked
<1>9. ASSUME UNCHANGED vars PROVE NobodyAsked'
  BY <1>9, NothingMoved
<1> QED
  BY <1>1, <1>2, <1>3, <1>4, <1>5, <1>6, <1>7, <1>8, <1>9 DEF Next, Commands

\* The worker: an acceptance that keeps the worktree finds no removal under way.
LEMMA RemoverStep ==
  ASSUME DeletionInv, [Next]_vars
  PROVE  WorkerKnown'
<1>a. /\ TypeOK /\ GateHeld /\ Stages /\ RetriesLeft /\ NoRunsLeft /\ RemovedIsGone
      /\ RowOfTree /\ NobodyAsked /\ WorkerKnown /\ RowOwned /\ CompletedAfter
  BY DEF DeletionInv
<1>b. /\ Delete = Retain \cup Cleanup /\ Retain \cap Cleanup = {} /\ None \notin Delete
      /\ UserCleanup \cap Delete = {}
      /\ ExistingOperation \in Delete \cup {None}
      /\ (Open <=> ExistingOperation = None)
      /\ Limit \in Nat /\ 0 < Limit
  BY <1>a, Constants, Operations
<1>c. (\A d \in Delete : ~Accept(d)) => Steady
  BY <1>a, OperationMoves
<1>d. (coord.at = "failed" => ~camp.attention) /\ (coord.at = "stuck" => ~journal.attention)
  BY <1>a DEF RetriesLeft, BeforeCommit, AfterCommit
<1>1. ASSUME Runs PROVE WorkerKnown'
  BY <1>1, <1>a, RunFields, NothingMoved
<1>2. ASSUME NEW d \in Delete, Accept(d) PROVE WorkerKnown'
  BY <1>2, <1>a, AcceptOperation, CommandFields DEF WorkerKnown, CleanupRunning, RemovedIsGone
<1>3. ASSUME Commands, \A d \in Delete : ~Accept(d) PROVE WorkerKnown'
  <2>1. ASSUME NEW d \in Delete, AnswerDelete(d) PROVE WorkerKnown'
    BY <2>1, <1>a, <1>c, CommandFields DEF WorkerKnown, Steady
  <2>2. CASE Retry
    BY <2>2, <1>a, <1>c, CommandFields DEF WorkerKnown, Steady
  <2>3. CASE RetryOrphan
    BY <2>3, <1>a, CommandFields DEF WorkerKnown, GateHeld
  <2>4. ASSUME NEW c \in UserCleanup, CleanWorkspace(c) PROVE WorkerKnown'
    BY <2>4, <1>a, CommandFields DEF WorkerKnown, GateHeld
  <2> QED
    BY <1>3, <2>1, <2>2, <2>3, <2>4 DEF Commands
<1>4. ASSUME Preparation, \A d \in Delete : ~Accept(d) PROVE WorkerKnown'
  <2>1. ASSUME NEW e \in Execution, PrepBegin(e) PROVE WorkerKnown'
    BY <1>4, <2>1, <1>a, PrepFields DEF WorkerKnown, GateHeld
  <2>2. CASE PrepError
    BY <1>4, <2>2, <1>a, PrepFields DEF WorkerKnown, GateHeld
  <2>3. CASE PrepPlan
    BY <1>4, <2>3, <1>a, PrepFields DEF WorkerKnown, GateHeld
  <2>4. CASE PrepAdopt
    BY <1>4, <2>4, <1>a, PrepFields DEF WorkerKnown, GateHeld
  <2>5. CASE PrepAgain
    BY <1>4, <2>5, <1>a, PrepFields DEF WorkerKnown, GateHeld
  <2>6. CASE Materialize
    BY <1>4, <2>6, <1>a, PrepFields DEF WorkerKnown, GateHeld
  <2>7. CASE PrepReady
    BY <1>4, <2>7, <1>a, PrepFields DEF WorkerKnown, GateHeld
  <2>8. CASE PrepReturn
    BY <1>4, <2>8, <1>a, PrepFields DEF WorkerKnown, GateHeld
  <2> QED
    BY <1>4, <2>1, <2>2, <2>3, <2>4, <2>5, <2>6, <2>7, <2>8 DEF Preparation
<1>5. ASSUME Worker, \A d \in Delete : ~Accept(d) PROVE WorkerKnown'
  <2>1. CASE WorkerStart
    <3>1. CleanupRunning /\ ~Deleting /\ UNCHANGED <<rows, ws, disk>>
      BY <1>5, <2>1, <1>a, WorkerFields
    <3>2. HasRow /\ ws.state = "cleanup_pending"
      BY <3>1 DEF CleanupRunning
    <3>3. ExistingOperation' = ExistingOperation
      BY <3>1, OperationKept
    <3>4. Gone => ExistingOperation \notin Retain
      BY <1>a, <3>2 DEF RowOwned
    <3>5. Open => ExistingOperation \notin Retain
      BY <1>b
    <3> QED
      BY <1>a, <3>1, <3>2, <3>3, <3>4, <3>5, TypeStates DEF WorkerKnown
  <2>2. CASE Verify
    BY <1>5, <2>2, <1>a, <1>c, WorkerFields DEF WorkerKnown, Steady
  <2>3. CASE RemoveTree
    BY <1>5, <2>3, <1>a, <1>c, WorkerFields DEF WorkerKnown, Steady
  <2>4. CASE FlagTree
    BY <1>5, <2>4, <1>a, <1>c, WorkerFields DEF WorkerKnown, Steady
  <2>5. CASE RemoveBranch
    BY <1>5, <2>5, <1>a, WorkerFields DEF WorkerKnown, RemovedIsGone
  <2>6. CASE FlagEnd
    BY <1>5, <2>6, <1>a, WorkerFields DEF WorkerKnown, RemovedIsGone
  <2>7. CASE Publish
    BY <2>7, <1>a, WorkerFields DEF WorkerKnown
  <2>8. ASSUME NEW f \in BOOLEAN, WorkerFails(f) PROVE WorkerKnown'
    BY <2>8, <1>a, WorkerFields DEF WorkerKnown
  <2> QED
    BY <1>5, <2>1, <2>2, <2>3, <2>4, <2>5, <2>6, <2>7, <2>8 DEF Worker
<1>6. ASSUME Coordinator, \A d \in Delete : ~Accept(d) PROVE WorkerKnown'
  <2>1. CASE StartDeletion
    BY <1>6, <2>1, <1>a, <1>c, CoordFields DEF WorkerKnown, Steady
  <2>2. CASE FenceFleet
    BY <1>6, <2>2, <1>a, <1>c, CoordFields DEF WorkerKnown, Steady
  <2>3. CASE Prepare
    BY <1>6, <2>3, <1>a, <1>c, CoordFields DEF WorkerKnown, Steady
  <2>4. CASE Commit
    BY <1>6, <2>4, <1>a, CoordFields DEF WorkerKnown, GateHeld, At
  <2>5. CASE RecordDeletionFailure
    BY <1>6, <2>5, <1>a, <1>c, <1>d, CoordFields DEF WorkerKnown, Steady, At
  <2>6. ASSUME NEW e \in Execution, StopTarget(e) PROVE WorkerKnown'
    BY <1>6, <2>6, <1>a, <1>c, CoordFields DEF WorkerKnown, Steady
  <2>7. CASE StartCleanup
    BY <1>6, <2>7, <1>a, <1>c, CoordFields DEF WorkerKnown, Steady
  <2>8. CASE RemoveFiles
    BY <1>6, <2>8, <1>a, <1>c, CoordFields DEF WorkerKnown, Steady
  <2>9. CASE CheckWorkspace
    BY <1>6, <2>9, <1>a, <1>c, CoordFields DEF WorkerKnown, Steady
  <2>10. CASE Complete
    BY <1>6, <2>10, <1>a, <1>c, CoordFields DEF WorkerKnown, Stages, Steady, At, AfterCommit
  <2>11. CASE RecordCleanupFailure
    BY <1>6, <2>11, <1>a, <1>c, CoordFields DEF WorkerKnown, Steady
  <2> QED
    BY <1>6, <2>1, <2>2, <2>3, <2>4, <2>5, <2>6, <2>7, <2>8, <2>9, <2>10, <2>11 DEF Coordinator
<1>7. ASSUME Backoff PROVE WorkerKnown'
  BY <1>7, <1>a, <1>b, <1>c, CommandFields DEF WorkerKnown, Steady
<1>8. ASSUME Crash PROVE WorkerKnown'
  BY <1>8, <1>a, CommandFields DEF WorkerKnown
<1>9. ASSUME UNCHANGED vars PROVE WorkerKnown'
  BY <1>9, NothingMoved
<1> QED
  BY <1>1, <1>2, <1>3, <1>4, <1>5, <1>6, <1>7, <1>8, <1>9 DEF Next, Commands

\* The owner: only a second cleanup command of the user takes the row out of the hands of the
\* deletion.
LEMMA OwnerStep ==
  ASSUME DeletionInv, [Next]_vars
  PROVE  RowOwned'
<1>a. /\ TypeOK /\ GateHeld /\ Stages /\ RetriesLeft /\ NoRunsLeft /\ RemovedIsGone
      /\ RowOfTree /\ NobodyAsked /\ WorkerKnown /\ RowOwned /\ CompletedAfter
  BY DEF DeletionInv
<1>b. /\ Delete = Retain \cup Cleanup /\ Retain \cap Cleanup = {} /\ None \notin Delete
      /\ UserCleanup \cap Delete = {}
      /\ ExistingOperation \in Delete \cup {None}
      /\ (Open <=> ExistingOperation = None)
      /\ Limit \in Nat /\ 0 < Limit
  BY <1>a, Constants, Operations
<1>c. (\A d \in Delete : ~Accept(d)) => Steady
  BY <1>a, OperationMoves
<1>d. (coord.at = "failed" => ~camp.attention) /\ (coord.at = "stuck" => ~journal.attention)
  BY <1>a DEF RetriesLeft, BeforeCommit, AfterCommit
<1>1. ASSUME Runs PROVE RowOwned'
  BY <1>1, <1>a, RunFields, NothingMoved
<1>2. ASSUME NEW d \in Delete, Accept(d) PROVE RowOwned'
  <2>1. Open /\ Deleting' /\ ExistingOperation' = d /\ UNCHANGED <<coord, journal, used>>
    BY <1>2, <1>a, AcceptOperation, CommandFields
  <2>2. Scheduled' <=> (HasRow /\ ~Finished(ws) /\ d \in Cleanup)
    BY <1>2, <1>a, AcceptOperation
  <2>3. coord.at # "complete"
    BY <1>a, <2>1 DEF Stages, AfterCommit
  <2>4. (~HasRow \/ Finished(ws)) => ws' = NoRow
    BY <1>2, <1>a, CommandFields
  <2>5. HasRow /\ ~Finished(ws) /\ d \in Cleanup => ws'.state = "cleanup_pending" /\ ws'.owner = d
    BY <1>2, <1>a, CommandFields
  <2> QED
    BY <2>1, <2>2, <2>3, <2>4, <2>5, NewRows DEF RowOwned
<1>3. ASSUME Commands, \A d \in Delete : ~Accept(d) PROVE RowOwned'
  <2>1. ASSUME NEW d \in Delete, AnswerDelete(d) PROVE RowOwned'
    BY <2>1, <1>a, <1>b, <1>c, CommandFields DEF RowOwned, Steady, TakenOver
  <2>2. CASE Retry
    BY <2>2, <1>a, <1>b, <1>c, CommandFields DEF RowOwned, Steady, TakenOver
  <2>3. CASE RetryOrphan
    BY <2>3, <1>a, <1>c, CommandFields DEF RowOwned, Steady, TakenOver
  <2>4. ASSUME NEW c \in UserCleanup, CleanWorkspace(c) PROVE RowOwned'
    <3>1. /\ c \notin used /\ ~Gone /\ HasRow /\ ws.state # "cleanup_pending"
          /\ used' = used \cup {c} /\ UNCHANGED <<rows, coord>>
          /\ ws'.state = "cleanup_pending"
      BY <2>4, <1>a, CommandFields
    <3>2. ExistingOperation' = ExistingOperation /\ (~Open => (Scheduled' <=> Scheduled))
      BY <1>3, <1>c DEF Steady
    <3>3. Open => ExistingOperation \notin Delete
      BY <1>b
    <3>4. TakenOver => TakenOver'
      BY <3>1 DEF TakenOver
    <3>5. used # {} => TakenOver'
      BY <3>1 DEF TakenOver
    <3>6. Deleting => used # {} \/ ws.state # "cleanup_failed"
      BY <1>a DEF NobodyAsked
    <3>7. coord.at # "complete"
      BY <1>a, <3>1, TypeStates DEF Stages, AfterCommit
    <3>8. Deleting => ~(ExistingOperation \in Cleanup /\ ~Scheduled)
      BY <1>a, <3>1 DEF RowOwned
    <3>9. Deleting /\ ExistingOperation \in Cleanup => TakenOver'
      BY <1>a, <3>1, <3>4, <3>5, <3>6, <3>8 DEF RowOwned
    <3> QED
      BY <1>a, <1>b, <3>1, <3>2, <3>3, <3>7, <3>8, <3>9, TypeStates DEF RowOwned
  <2> QED
    BY <1>3, <2>1, <2>2, <2>3, <2>4 DEF Commands
<1>4. ASSUME Preparation, \A d \in Delete : ~Accept(d) PROVE RowOwned'
  <2>1. ASSUME NEW e \in Execution, PrepBegin(e) PROVE RowOwned'
    BY <1>4, <2>1, <1>a, <1>b, <1>c, PrepFields DEF RowOwned, Steady
  <2>2. CASE PrepError
    BY <1>4, <2>2, <1>a, <1>b, <1>c, PrepFields DEF RowOwned, Steady, TakenOver
  <2>3. CASE PrepPlan
    BY <1>4, <2>3, <1>a, <1>b, <1>c, PrepFields DEF RowOwned, Steady, TakenOver, Writes
  <2>4. CASE PrepAdopt
    BY <1>4, <2>4, <1>a, <1>b, <1>c, PrepFields DEF RowOwned, Steady, TakenOver, Writes
  <2>5. CASE PrepAgain
    BY <1>4, <2>5, <1>a, <1>b, <1>c, PrepFields DEF RowOwned, Steady, TakenOver, Writes
  <2>6. CASE Materialize
    BY <1>4, <2>6, <1>a, <1>b, <1>c, PrepFields DEF RowOwned, Steady, TakenOver
  <2>7. CASE PrepReady
    BY <1>4, <2>7, <1>a, <1>b, <1>c, PrepFields DEF RowOwned, Steady, TakenOver
  <2>8. CASE PrepReturn
    BY <1>4, <2>8, <1>a, <1>b, <1>c, PrepFields DEF RowOwned, Steady, TakenOver
  <2> QED
    BY <1>4, <2>1, <2>2, <2>3, <2>4, <2>5, <2>6, <2>7, <2>8 DEF Preparation
<1>5. ASSUME Worker, \A d \in Delete : ~Accept(d) PROVE RowOwned'
  <2>1. CASE WorkerStart
    BY <1>5, <2>1, <1>a, <1>b, <1>c, WorkerFields DEF RowOwned, Steady, TakenOver
  <2>2. CASE Verify
    <3>1. /\ ws'.state = ws.state /\ ws'.owner = ws.owner /\ (Finished(ws) => Finished(ws)')
          /\ UNCHANGED <<rows, coord, used>>
      BY <1>5, <2>2, <1>a, WorkerFields
    <3> QED
      BY <1>a, <3>1, RowSteady
  <2>3. CASE RemoveTree
    BY <1>5, <2>3, <1>a, <1>b, <1>c, WorkerFields DEF RowOwned, Steady, TakenOver
  <2>4. CASE FlagTree
    <3>1. /\ ws'.state = ws.state /\ ws'.owner = ws.owner /\ (Finished(ws) => Finished(ws)')
          /\ UNCHANGED <<rows, coord, used>>
      BY <1>5, <2>4, <1>a, WorkerFields
    <3> QED
      BY <1>a, <3>1, RowSteady
  <2>5. CASE RemoveBranch
    BY <1>5, <2>5, <1>a, <1>b, <1>c, WorkerFields DEF RowOwned, Steady, TakenOver
  <2>6. CASE FlagEnd
    BY <1>5, <2>6, <1>a, <1>b, <1>c, WorkerFields DEF RowOwned, Steady, TakenOver
  <2>7. CASE Publish
    <3>1. UNCHANGED <<rows, coord, used>>
      BY <1>5, <2>7, <1>a, WorkerFields
    <3>2. CASE ws' = ws
      BY <1>a, <3>1, <3>2, RowSteady
    <3>3. CASE Gone /\ ~OwnedByJournal /\ ws' = NoRow
      <4>1. ExistingOperation' = ExistingOperation /\ Scheduled' = Scheduled
        BY <3>1, OperationKept
      <4>2. ~HasRow' /\ Gone' /\ TakenOver' = TakenOver
        BY <3>1, <3>3, NewRows DEF TakenOver
      <4>3. journal.status # "completed" => ws.owner # ExistingOperation
        BY <1>a, <3>3 DEF Stages, OwnedByJournal
      <4>4. coord.at = "complete" => journal.status # "completed"
        BY <1>a DEF Stages, AfterCommit
      <4>5. ExistingOperation \in Cleanup /\ Scheduled =>
              /\ journal.status # "completed" => TakenOver
              /\ coord.at # "complete"
        BY <1>a, <4>3, <4>4 DEF RowOwned
      <4> QED
        BY <3>1, <3>3, <4>1, <4>2, <4>5 DEF RowOwned
    <3> QED
      BY <2>7, <1>a, <3>2, <3>3, WorkerFields
  <2>8. ASSUME NEW f \in BOOLEAN, WorkerFails(f) PROVE RowOwned'
    BY <1>5, <2>8, <1>a, <1>b, <1>c, WorkerFields DEF RowOwned, Steady, TakenOver
  <2> QED
    BY <1>5, <2>1, <2>2, <2>3, <2>4, <2>5, <2>6, <2>7, <2>8 DEF Worker
<1>6. ASSUME Coordinator, \A d \in Delete : ~Accept(d) PROVE RowOwned'
  <2>1. CASE StartDeletion
    BY <1>6, <2>1, <1>a, <1>c, CoordFields DEF RowOwned, Steady, TakenOver, Stage
  <2>2. CASE FenceFleet
    BY <1>6, <2>2, <1>a, <1>c, CoordFields
    DEF RowOwned, Stages, Steady, TakenOver, Stage, At, BeforeCommit
  <2>3. CASE Prepare
    BY <1>6, <2>3, <1>a, <1>c, CoordFields
    DEF RowOwned, Stages, Steady, TakenOver, Stage, At, BeforeCommit
  <2>4. CASE Commit
    <3>1. coord.at = "commit" /\ ~Open /\ UNCHANGED <<receipt, used>>
      BY <1>6, <2>4, <1>a, CoordFields DEF At, Stages, BeforeCommit
    <3>2. ExistingOperation' = ExistingOperation /\ (Scheduled' <=> Scheduled)
      BY <1>6, <1>c, <3>1 DEF Steady
    <3>3. TakenOver' <=> TakenOver
      BY <3>1 DEF TakenOver
    <3>4. CASE UNCHANGED <<camp, journal, ws>> /\ coord'.at = "failed"
      BY <1>a, <3>2, <3>3, <3>4 DEF RowOwned
    <3>5. ASSUME camp'.state = "gone", coord'.at = "files",
                 \/ ~Scheduled /\ ws' = NoRow
                 \/ Scheduled /\ ws' = ws
                 \/ Scheduled /\ HasRow /\ ws'.state = "cleanup_pending" /\ ws'.owner = ws.owner
          PROVE  RowOwned'
      <4>1. Scheduled => ExistingOperation \in Cleanup
        BY <1>a, <3>1, Operations DEF OperationIs, Scheduled
      <4>2. journal.status # "completed"
        BY <1>a, <3>1 DEF Stages, BeforeCommit
      <4>3. Scheduled => TakenOver \/ (HasRow /\ ws.owner = ExistingOperation)
        BY <1>a, <4>1, <4>2 DEF RowOwned
      <4>4. CASE ~Scheduled /\ ws' = NoRow
        BY <3>2, <3>5, <4>4, NewRows DEF RowOwned
      <4>5. CASE Scheduled /\ ~(~Scheduled /\ ws' = NoRow)
        <5>1. ws'.owner = ws.owner /\ (HasRow => HasRow')
          BY <3>5, <4>5
        <5> QED
          BY <1>b, <3>2, <3>3, <3>5, <4>1, <4>3, <4>5, <5>1 DEF RowOwned
      <4> QED
        BY <3>5, <4>4, <4>5
    <3> QED
      BY <2>4, <1>a, <3>4, <3>5, CoordFields DEF Stage
  <2>5. CASE RecordDeletionFailure
    BY <1>6, <2>5, <1>a, <1>c, <1>d, CoordFields
    DEF RowOwned, Stages, Steady, TakenOver, Stage, At, BeforeCommit
  <2>6. ASSUME NEW e \in Execution, StopTarget(e) PROVE RowOwned'
    BY <1>6, <2>6, <1>a, <1>c, CoordFields
    DEF RowOwned, Stages, Steady, TakenOver, Stage, At, BeforeCommit
  <2>7. CASE StartCleanup
    BY <1>6, <2>7, <1>a, <1>c, CoordFields DEF RowOwned, Stages, Steady, TakenOver, Stage
  <2>8. CASE RemoveFiles
    BY <1>6, <2>8, <1>a, <1>c, CoordFields
    DEF RowOwned, Stages, Steady, TakenOver, Stage, At, AfterCommit
  <2>9. CASE CheckWorkspace
    BY <1>6, <2>9, <1>a, <1>b, <1>c, CoordFields
    DEF RowOwned, RemovedIsGone, Steady, TakenOver, OwnerMissing, Stage
  <2>10. CASE Complete
    BY <1>6, <2>10, <1>a, <1>c, CoordFields
    DEF RowOwned, RemovedIsGone, Stages, Steady, Stage, At, AfterCommit
  <2>11. CASE RecordCleanupFailure
    BY <1>6, <2>11, <1>a, <1>c, CoordFields
    DEF RowOwned, Stages, Steady, TakenOver, Stage, At, AfterCommit
  <2> QED
    BY <1>6, <2>1, <2>2, <2>3, <2>4, <2>5, <2>6, <2>7, <2>8, <2>9, <2>10, <2>11 DEF Coordinator
<1>7. ASSUME Backoff PROVE RowOwned'
  BY <1>7, <1>a, <1>b, <1>c, CommandFields DEF RowOwned, Steady, TakenOver
<1>8. ASSUME Crash PROVE RowOwned'
  BY <1>8, <1>a, <1>b, <1>c, CommandFields DEF RowOwned, Steady, TakenOver, IdleCoord
<1>9. ASSUME UNCHANGED vars PROVE RowOwned'
  BY <1>9, NothingMoved
<1> QED
  BY <1>1, <1>2, <1>3, <1>4, <1>5, <1>6, <1>7, <1>8, <1>9 DEF Next, Commands

\* The completion: the coordinator has seen the files and the row gone.
LEMMA CompletionStep ==
  ASSUME DeletionInv, [Next]_vars
  PROVE  CompletedAfter'
<1>a. /\ TypeOK /\ GateHeld /\ Stages /\ RetriesLeft /\ NoRunsLeft /\ RemovedIsGone
      /\ RowOfTree /\ NobodyAsked /\ WorkerKnown /\ RowOwned /\ CompletedAfter
  BY DEF DeletionInv
<1>c. (\A d \in Delete : ~Accept(d)) => Steady
  BY <1>a, OperationMoves
<1>d. (coord.at = "failed" => ~camp.attention) /\ (coord.at = "stuck" => ~journal.attention)
  BY <1>a DEF RetriesLeft, BeforeCommit, AfterCommit
<1>1. ASSUME Runs PROVE CompletedAfter'
  BY <1>1, <1>a, RunFields, NothingMoved
<1>2. ASSUME NEW d \in Delete, Accept(d) PROVE CompletedAfter'
  BY <1>2, <1>a, AcceptOperation, CommandFields DEF CompletedAfter, Stages
<1>3. ASSUME Commands, \A d \in Delete : ~Accept(d) PROVE CompletedAfter'
  <2>1. ASSUME NEW d \in Delete, AnswerDelete(d) PROVE CompletedAfter'
    BY <2>1, <1>a, <1>c, CommandFields DEF CompletedAfter, Steady
  <2>2. CASE Retry
    BY <2>2, <1>a, <1>c, CommandFields DEF CompletedAfter, Steady
  <2>3. CASE RetryOrphan
    BY <2>3, <1>a, <1>c, CommandFields DEF CompletedAfter, Steady
  <2>4. ASSUME NEW c \in UserCleanup, CleanWorkspace(c) PROVE CompletedAfter'
    BY <2>4, <1>a, <1>c, CommandFields DEF CompletedAfter, Steady
  <2> QED
    BY <1>3, <2>1, <2>2, <2>3, <2>4 DEF Commands
<1>4. ASSUME Preparation, \A d \in Delete : ~Accept(d) PROVE CompletedAfter'
  <2>1. ASSUME NEW e \in Execution, PrepBegin(e) PROVE CompletedAfter'
    BY <1>4, <2>1, <1>a, PrepFields DEF CompletedAfter, Stages
  <2>2. CASE PrepError
    BY <1>4, <2>2, <1>a, <1>c, PrepFields DEF CompletedAfter, Steady
  <2>3. CASE PrepPlan
    BY <1>4, <2>3, <1>a, <1>c, PrepFields DEF CompletedAfter, Stages, Steady, Writes
  <2>4. CASE PrepAdopt
    BY <1>4, <2>4, <1>a, <1>c, PrepFields DEF CompletedAfter, Stages, Steady, Writes
  <2>5. CASE PrepAgain
    BY <1>4, <2>5, <1>a, <1>c, PrepFields DEF CompletedAfter, Stages, Steady, Writes
  <2>6. CASE Materialize
    BY <1>4, <2>6, <1>a, <1>c, PrepFields DEF CompletedAfter, Steady
  <2>7. CASE PrepReady
    BY <1>4, <2>7, <1>a, <1>c, PrepFields DEF CompletedAfter, Steady
  <2>8. CASE PrepReturn
    BY <1>4, <2>8, <1>a, <1>c, PrepFields DEF CompletedAfter, Steady
  <2> QED
    BY <1>4, <2>1, <2>2, <2>3, <2>4, <2>5, <2>6, <2>7, <2>8 DEF Preparation
<1>5. ASSUME Worker, \A d \in Delete : ~Accept(d) PROVE CompletedAfter'
  <2>1. CASE WorkerStart
    BY <1>5, <2>1, <1>a, <1>c, WorkerFields DEF CompletedAfter, Steady
  <2>2. CASE Verify
    BY <1>5, <2>2, <1>a, <1>c, WorkerFields DEF CompletedAfter, Steady
  <2>3. CASE RemoveTree
    BY <1>5, <2>3, <1>a, <1>c, WorkerFields DEF CompletedAfter, Steady
  <2>4. CASE FlagTree
    BY <1>5, <2>4, <1>a, <1>c, WorkerFields DEF CompletedAfter, Steady
  <2>5. CASE RemoveBranch
    BY <1>5, <2>5, <1>a, <1>c, WorkerFields DEF CompletedAfter, Steady
  <2>6. CASE FlagEnd
    BY <1>5, <2>6, <1>a, <1>c, WorkerFields DEF CompletedAfter, Steady
  <2>7. CASE Publish
    BY <1>5, <2>7, <1>a, <1>c, WorkerFields, NewRows DEF CompletedAfter, Steady
  <2>8. ASSUME NEW f \in BOOLEAN, WorkerFails(f) PROVE CompletedAfter'
    BY <1>5, <2>8, <1>a, <1>c, WorkerFields DEF CompletedAfter, Steady
  <2> QED
    BY <1>5, <2>1, <2>2, <2>3, <2>4, <2>5, <2>6, <2>7, <2>8 DEF Worker
<1>6. ASSUME Coordinator, \A d \in Delete : ~Accept(d) PROVE CompletedAfter'
  <2>1. CASE StartDeletion
    BY <2>1, <1>a, CoordFields DEF CompletedAfter, Stages, Stage
  <2>2. CASE FenceFleet
    BY <2>2, <1>a, CoordFields DEF CompletedAfter, Stages, BeforeCommit, Stage, At
  <2>3. CASE Prepare
    BY <2>3, <1>a, CoordFields DEF CompletedAfter, Stages, BeforeCommit, Stage, At
  <2>4. CASE Commit
    BY <2>4, <1>a, CoordFields DEF CompletedAfter, Stages, BeforeCommit, Stage, At
  <2>5. CASE RecordDeletionFailure
    BY <2>5, <1>a, CoordFields DEF CompletedAfter, Stages, BeforeCommit, Stage, At
  <2>6. ASSUME NEW e \in Execution, StopTarget(e) PROVE CompletedAfter'
    BY <2>6, <1>a, CoordFields DEF CompletedAfter, Stages, BeforeCommit, Stage, At
  <2>7. CASE StartCleanup
    BY <2>7, <1>a, CoordFields DEF CompletedAfter, Stage
  <2>8. CASE RemoveFiles
    BY <2>8, <1>a, CoordFields DEF CompletedAfter, Stages, AfterCommit, Stage, At
  <2>9. CASE CheckWorkspace
    BY <2>9, <1>a, CoordFields DEF CompletedAfter, Stages, AfterCommit, At
  <2>10. CASE Complete
    BY <1>6, <2>10, <1>a, <1>c, CoordFields, NewRows DEF CompletedAfter, RowOwned, Steady, At
  <2>11. CASE RecordCleanupFailure
    BY <2>11, <1>a, <1>d, CoordFields DEF CompletedAfter, Stages, AfterCommit, Stage, At
  <2> QED
    BY <1>6, <2>1, <2>2, <2>3, <2>4, <2>5, <2>6, <2>7, <2>8, <2>9, <2>10, <2>11 DEF Coordinator
<1>7. ASSUME Backoff PROVE CompletedAfter'
  BY <1>7, <1>a, <1>c, CommandFields DEF CompletedAfter, Stages, Steady
<1>8. ASSUME Crash PROVE CompletedAfter'
  BY <1>8, <1>a, <1>c, CommandFields DEF CompletedAfter, Stages, Steady, IdleCoord
<1>9. ASSUME UNCHANGED vars PROVE CompletedAfter'
  BY <1>9, NothingMoved
<1> QED
  BY <1>1, <1>2, <1>3, <1>4, <1>5, <1>6, <1>7, <1>8, <1>9 DEF Next, Commands


-----------------------------------------------------------------------------
(* The theorems. *)

\* Before anything happens nothing is marked, removed or asked for.
LEMMA StartsRight ==
  ASSUME Init
  PROVE  DeletionInv
<1>1. /\ camp.state = "open" /\ camp.op = None /\ camp.attempts = 0
      /\ journal.status = "none" /\ journal.attempts = 0
      /\ ws = NoRow /\ gate = "free" /\ worker = "idle" /\ used = {}
      /\ prep.at = "idle" /\ coord.at = "idle"
  BY DEF Init, IdlePrep, IdleCoord
<1>2. disk = [tree |-> FALSE, branch |-> FALSE, files |-> TRUE]
  BY DEF Init
<1>3. Accepted = {}
  BY DEF Init, Accepted, NoReceipt
<1>4. ExistingOperation = None
  BY <1>1, <1>3 DEF ExistingOperation
<1>5. TypeOK
  <2>1. 0 \in 0 .. Limit /\ 0 \in 0 .. MaxFaults /\ 0 \in 0 .. MaxCrashes
    BY Constants
  <2>2. camp \in CampRow /\ journal \in JournalRow
    BY <2>1 DEF Init, CampRow, JournalRow
  <2>3. ws \in WorkspaceRow /\ disk \in Files
    BY <1>1, <1>2, NewRows DEF Files
  <2>4. receipt \in [Delete -> ReceiptRow] /\ exec \in [Execution -> ExecState]
    BY DEF Init, ReceiptRow, ExecState
  <2>5. prep \in PrepRecord /\ coord \in CoordRecord
    BY DEF Init, IdlePrep, IdleCoord, PrepRecord, PrepState, CoordRecord
  <2> QED
    BY <1>1, <2>1, <2>2, <2>3, <2>4, <2>5, Typed DEF Init
<1>6. GateHeld /\ Stages /\ NoRunsLeft /\ NobodyAsked /\ WorkerKnown
  BY <1>1, <1>3, NewRows DEF GateHeld, Stages, NoRunsLeft, NobodyAsked, WorkerKnown, BeforeCommit,
     AfterCommit
<1>7. RetriesLeft
  BY <1>1, Constants DEF RetriesLeft, BeforeCommit, AfterCommit
<1>8. RemovedIsGone
  BY <1>1, <1>2, NewRows DEF RemovedIsGone
<1>9. RowOfTree /\ RowOwned /\ CompletedAfter
  BY <1>1, <1>2, <1>4, Constants DEF RowOfTree, RowOwned, CompletedAfter
<1> QED
  BY <1>5, <1>6, <1>7, <1>8, <1>9 DEF DeletionInv

\* Whatever happens, in whatever order, the invariant holds.
THEOREM InvariantHolds == Spec => []DeletionInv
<1>1. Init => DeletionInv
  BY StartsRight
<1>2. DeletionInv /\ [Next]_vars => DeletionInv'
  <2> SUFFICES ASSUME DeletionInv, [Next]_vars PROVE DeletionInv'
    OBVIOUS
  <2>1. TypeOK' /\ GateHeld' /\ Stages' /\ RetriesLeft' /\ NoRunsLeft' /\ RemovedIsGone'
    BY TypeStep, GateStep, StageStep, RetryStep, RunsStep, RemovalStep
  <2>2. RowOfTree' /\ NobodyAsked' /\ WorkerKnown' /\ RowOwned' /\ CompletedAfter'
    BY TreeStep, AskedStep, RemoverStep, OwnerStep, CompletionStep
  <2> QED
    BY <2>1, <2>2 DEF DeletionInv
<1> QED
  BY <1>1, <1>2, PTL DEF Spec

\* What was accepted is what happens (complete_camp_deletion_cleanup, accept): until the journal
\* is complete the row of the worktree is in the hands of the deletion, unless the user sent a
\* second cleanup command, and when it is complete no managed file, worktree, branch or row is
\* left that the user did not ask to keep.
THEOREM PromiseKeptHolds == Spec => []PromiseKept
<1>1. DeletionInv => PromiseKept
  <2> SUFFICES ASSUME DeletionInv PROVE PromiseKept
    OBVIOUS
  <2>1. TypeOK /\ Stages /\ RowOwned /\ RowOfTree /\ CompletedAfter
    BY DEF DeletionInv
  <2>2. OwnerKept \/ TakenOver
    <3> SUFFICES ASSUME ExistingOperation # None, Scheduled, journal.status # "completed"
                 PROVE  (HasRow /\ ws.owner = ExistingOperation) \/ TakenOver
      BY DEF OwnerKept
    <3>1. ~Open /\ OperationIs(ExistingOperation)
      BY <2>1, Operations
    <3>2. ExistingOperation \in Cleanup
      BY <3>1 DEF OperationIs, Scheduled
    <3> QED
      BY <2>1, <3>2 DEF RowOwned
  <2>3. CompletedMeansClean
    <3>1. ASSUME ExistingOperation \in Cleanup
          PROVE  ExistingOperation \notin Retain
      BY <3>1, Constants
    <3> QED
      BY <2>1, <3>1 DEF CompletedMeansClean, CompletedAfter, RowOfTree
  <2> QED
    BY <2>1, <2>2, <2>3 DEF PromiseKept
<1> QED
  BY <1>1, InvariantHolds, PTL

\* A deletion that keeps the worktree leaves it and its branch alone: no worker that was under
\* way when the command was accepted removes them, and none starts.
THEOREM RetainedSurvivesHolds == Spec => RetainedSurvives
<1> DEFINE Survives ==
      (ExistingOperation \in Retain) =>
        (disk.tree => disk'.tree) /\ (disk.branch => disk'.branch)
<1>1. DeletionInv /\ [Next]_vars => [Survives]_vars
  <2> SUFFICES ASSUME DeletionInv, [Next]_vars, ExistingOperation \in Retain
               PROVE  (disk.tree => disk'.tree) /\ (disk.branch => disk'.branch)
    OBVIOUS
  <2>1. TypeOK /\ WorkerKnown /\ RetriesLeft
    BY DEF DeletionInv
  <2>2. CASE Runs
    BY <2>1, <2>2, RunFields
  <2>3. CASE Commands \/ Backoff \/ Crash
    <3>1. disk' = disk
      BY <2>1, <2>3, CommandFields DEF Commands
    <3> QED
      BY <3>1
  <2>4. CASE Preparation
    <3>1. disk' = disk \/ (disk'.tree /\ disk'.branch)
      BY <2>1, <2>4, PrepFields DEF Preparation
    <3> QED
      BY <3>1
  <2>5. CASE Worker
    <3>1. worker = "idle" => disk' = disk
      BY <2>1, <2>5, WorkerFields DEF Worker
    <3> QED
      BY <2>1, <3>1 DEF WorkerKnown
  <2>6. CASE Coordinator
    <3>1. disk' = disk \/ (disk'.tree = disk.tree /\ disk'.branch = disk.branch)
      BY <2>1, <2>6, CoordFields DEF Coordinator
    <3> QED
      BY <3>1
  <2> QED
    BY <2>2, <2>3, <2>4, <2>5, <2>6 DEF Next
<1> QED
  BY <1>1, InvariantHolds, PTL DEF Spec, RetainedSurvives

\* The stops come before the delete (commit_business_delete), and a command that repeats the
\* deletion is answered with the operation of the first (existing_operation), also after the
\* marker of the Thread is gone.
THEOREM DeletesInOrderHolds == Spec => DeletesInOrder
<1> DEFINE Stopped == Gone' /\ ~Gone => \A e \in Execution : exec[e] \notin {"running", "stopping"}
           Repeats == \A d \in Delete : receipt'[d] # receipt[d] /\ Accepted # {} =>
                        receipt'[d].status = "accepted" /\ receipt'[d].op \in Accepted
<1>1. DeletionInv /\ [Next]_vars => [Stopped]_vars
  <2> SUFFICES ASSUME DeletionInv, Next, Gone', ~Gone, NEW e \in Execution
               PROVE  exec[e] \notin {"running", "stopping"}
    OBVIOUS
  <2>1. TypeOK /\ Stages /\ RetriesLeft /\ NoRunsLeft
    BY DEF DeletionInv
  <2>2. Commit
    <3>1. ASSUME Runs \/ Preparation \/ Worker PROVE camp' = camp
      BY <2>1, <3>1, RunFields, PrepFields, WorkerFields
    <3>2. ASSUME Commands \/ Backoff \/ Crash PROVE camp'.state = camp.state \/ camp'.state = "deleting"
      BY <2>1, <3>2, CommandFields DEF Commands
    <3>3. ASSUME Coordinator, ~Commit PROVE camp'.state = camp.state
      <4>1. coord.at = "failed" => ~camp.attention
        BY <2>1 DEF RetriesLeft, BeforeCommit
      <4>2. RecordDeletionFailure => camp'.state = camp.state
        BY <2>1, <4>1, CoordFields DEF At
      <4> QED
        BY <2>1, <3>3, <4>2, CoordFields DEF Coordinator
    <3> QED
      BY <3>1, <3>2, <3>3 DEF Next
  <2>3. coord.at = "commit" /\ Unconfirmed = {}
    BY <2>1, <2>2, CoordFields DEF At
  <2>4. ~Open
    BY <2>1, <2>3 DEF Stages, BeforeCommit
  <2> QED
    BY <2>1, <2>3, <2>4 DEF NoRunsLeft, Unconfirmed
<1>2. DeletionInv /\ [Next]_vars => [Repeats]_vars
  <2> SUFFICES ASSUME DeletionInv, Next, NEW d \in Delete, receipt'[d] # receipt[d], Accepted # {}
               PROVE  receipt'[d].status = "accepted" /\ receipt'[d].op \in Accepted
    OBVIOUS
  <2>1. TypeOK /\ Stages /\ RetriesLeft
    BY DEF DeletionInv
  <2>2. ~Open /\ ExistingOperation \in Delete /\ OperationIs(ExistingOperation)
    BY <2>1, Operations DEF Stages
  <2>3. ExistingOperation # None /\ ExistingOperation \in Accepted
    BY <2>2, Constants DEF OperationIs, Accepted
  <2>4. AnswerDelete(d)
    <3>1. ASSUME Runs \/ Preparation \/ Worker \/ Coordinator \/ Backoff \/ Crash
          PROVE  receipt' = receipt
      BY <2>1, <3>1, RunFields, PrepFields, WorkerFields, CoordFields, CommandFields
    <3>2. ASSUME Retry \/ RetryOrphan \/ \E c \in UserCleanup : CleanWorkspace(c)
          PROVE  receipt' = receipt
      BY <2>1, <3>2, CommandFields
    <3>3. ASSUME NEW x \in Delete, Accept(x) PROVE FALSE
      BY <2>1, <2>3, <3>3, CommandFields
    <3>4. ASSUME NEW x \in Delete, AnswerDelete(x) PROVE x = d
      BY <2>1, <3>4, CommandFields
    <3> QED
      BY <3>1, <3>2, <3>3, <3>4 DEF Next, Commands
  <2> QED
    BY <2>1, <2>3, <2>4, CommandFields
<1> QED
  BY <1>1, <1>2, InvariantHolds, PTL DEF Spec, DeletesInOrder, StoppedFirst, RepeatNamesOperation
=============================================================================
