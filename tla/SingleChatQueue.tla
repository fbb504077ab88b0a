--------------------------- MODULE SingleChatQueue ---------------------------
(***************************************************************************)
(* The inputs of one Single Chat, a private conversation of the user with  *)
(* an agent (rovai-core/src/single_chat.rs).  An input is admitted at once *)
(* or waits in the queue of the conversation, where the user may edit it,  *)
(* take it back into a composer or delete it while the driver of the runs  *)
(* publishes the head.  The driver lists the head, publishes it and        *)
(* records a failure under the database lock each, and gives the lock up   *)
(* in between.                                                             *)
(*                                                                         *)
(* A text stands for an input with its attachments and quotes; an edit     *)
(* session is the right to replace it.  A command that is refused changes  *)
(* nothing and is left out: a stale revision of a draft or of an item, a   *)
(* conversation that has ended, a Runtime that is not ready.               *)
(***************************************************************************)
EXTENDS Naturals, Sequences, FiniteSets

CONSTANTS
    Client,       \* DraftClient: the Desktop and browsers, a composer each
    MaxTexts,     \* bound: how many texts the user writes
    MaxSends,     \* bound: how often an input is sent
    MaxRestarts,  \* bound: how often the core is started again
    None

ASSUME ChatAssumption ==
    /\ None \notin Client \cup Nat /\ {MaxTexts, MaxSends, MaxRestarts} \subseteq Nat

VARIABLES
    ended,     \* conversation.ended_at is set
    draft,     \* the composer of each client
    items,     \* single_chat_pending_input, by enqueue_sequence
    session,   \* single_chat_pending_input_edit_session, one per conversation
    chat,      \* conversation_message
    run,       \* the last agent_run: the number of its input and its status
    turns,     \* native turns that have not reported yet, by the same number
    driver,    \* dispatch_pending_single_chat_inputs of the driver of the runs
    wake,      \* the permit of execution_wake.runs
    written,   \* how many texts the user wrote, which names them
    sends,     \* how many inputs were sent, which numbers them
    restarts

vars == <<ended, draft, items, session, chat, run, turns, driver, wake, written, sends, restarts>>

Text == 1 .. MaxTexts

NoSession == [item |-> 0, base |-> 0, client |-> None, recover |-> FALSE]
Idle == [at |-> "wait", item |-> 0, rev |-> 0]

Init ==
    /\ ended = FALSE
    /\ draft = [c \in Client |-> None]
    /\ items = <<>> /\ session = NoSession /\ chat = <<>>
    /\ run = [no |-> 0, status |-> "ended"] /\ turns = {}
    /\ driver = Idle /\ wake = TRUE
    /\ written = 0 /\ sends = 0 /\ restarts = 0

(***************************************************************************)
(* The queue.                                                              *)
(***************************************************************************)
Open == {i \in DOMAIN items : items[i].state \in {"queued", "needs_repair"}}
IsHead(i) == \A j \in Open : i <= j
ActiveRun == run.status \in {"queued", "running"}

Cancelled(i) == [items EXCEPT ![i].state = "cancelled", ![i].rev = @ + 1]
Released(i) == IF session.item = i THEN NoSession ELSE session

\* admit_single_chat_message
Admit(no, text) ==
    /\ chat' = Append(chat, [who |-> "user", no |-> no, text |-> text])
    /\ run' = [no |-> no, status |-> "queued"]

(***************************************************************************)
(* Commands. Every one that commits wakes the driver.                      *)
(***************************************************************************)
Command == ~ended /\ wake' = TRUE /\ UNCHANGED <<turns, driver, restarts>>
EditCommand(i) == Command /\ i \in Open /\ UNCHANGED <<ended, chat, run, sends>>
OwnsSession(c, i) ==
    session.item = i /\ session.base = items[i].rev /\ session.client = c

\* The user writes in a composer: single_chat_composer_draft.
Compose(c) ==
    /\ ~ended /\ draft[c] = None /\ written < MaxTexts
    /\ written' = written + 1
    /\ draft' = [draft EXCEPT ![c] = written']
    /\ UNCHANGED <<ended, items, session, chat, run, turns, driver, wake, sends, restarts>>

\* mutant: an input is admitted as soon as no run is active
BusyRun == ActiveRun
Busy == ActiveRun \/ Open # {}

Send(c) ==
    /\ Command /\ draft[c] # None /\ sends < MaxSends
    /\ draft' = [draft EXCEPT ![c] = None]
    /\ sends' = sends + 1
    /\ IF Busy
       THEN /\ items' = Append(items, [no |-> sends', rev |-> 1, state |-> "queued",
                                       text |-> draft[c], failed |-> None])
            /\ UNCHANGED <<chat, run>>
       ELSE Admit(sends', draft[c]) /\ UNCHANGED items
    /\ UNCHANGED <<ended, session, written>>

\* Begin takes the one session of the conversation; Takeover renews one's own,
\* which a restart has marked.
BeginEdit(c, i) ==
    /\ EditCommand(i)
    /\ session.item = 0 \/ OwnsSession(c, i)
    /\ session' = [item |-> i, base |-> items[i].rev, client |-> c, recover |-> FALSE]
    /\ UNCHANGED <<draft, items, written>>

SaveEdit(c, i) ==
    /\ EditCommand(i) /\ OwnsSession(c, i) /\ ~session.recover /\ written < MaxTexts
    /\ written' = written + 1
    /\ items' = [items EXCEPT ![i].text = written', ![i].rev = @ + 1, ![i].state = "queued"]
    /\ session' = NoSession
    /\ UNCHANGED draft

CancelEdit(c, i) ==
    /\ EditCommand(i) /\ OwnsSession(c, i)
    /\ session' = NoSession
    /\ UNCHANGED <<draft, items, written>>

DeleteItem(c, i) ==
    /\ EditCommand(i)
    /\ session.item = i => OwnsSession(c, i)
    /\ items' = Cancelled(i) /\ session' = Released(i)
    /\ UNCHANGED <<draft, written>>

\* ReturnToComposer replaces what the composer of this client holds.
ReturnItem(c, i) ==
    /\ EditCommand(i)
    /\ session.item = i => OwnsSession(c, i)
    /\ draft' = [draft EXCEPT ![c] = items[i].text]
    /\ items' = Cancelled(i) /\ session' = Released(i)
    /\ UNCHANGED written

\* The chat ends: its run is cancelled, drafts and session are deleted and what
\* waits is cancelled. The native turn may report later.
End ==
    /\ Command
    /\ ended' = TRUE
    /\ run' = [run EXCEPT !.status = "ended"]
    /\ draft' = [c \in Client |-> None] /\ session' = NoSession
    /\ items' = [i \in DOMAIN items |-> IF i \in Open THEN Cancelled(i)[i] ELSE items[i]]
    /\ UNCHANGED <<chat, written, sends>>

(***************************************************************************)
(* The runs.                                                               *)
(***************************************************************************)
RunStep == wake' = TRUE /\ UNCHANGED <<ended, draft, items, session, driver, written, sends, restarts>>

StartRun ==
    /\ RunStep /\ run.status = "queued"
    /\ run' = [run EXCEPT !.status = "running"] /\ turns' = turns \cup {run.no}
    /\ UNCHANGED chat

\* The run is stopped by the user, or fails; its native turn may still report.
StopRun ==
    /\ RunStep /\ ActiveRun
    /\ run' = [run EXCEPT !.status = "ended"]
    /\ UNCHANGED <<chat, turns>>

\* persist_single_chat_success: the final output, if there is one, is written
\* when the run is still running and the chat has not ended.
Succeed(no, output) ==
    /\ RunStep /\ no \in turns
    /\ turns' = turns \ {no}
    /\ IF run = [no |-> no, status |-> "running"] /\ ~ended
       THEN /\ run' = [run EXCEPT !.status = "ended"]
            /\ chat' = IF output THEN Append(chat, [who |-> "agent", no |-> no, text |-> None]) ELSE chat
       ELSE UNCHANGED <<chat, run>>

(***************************************************************************)
(* The driver.                                                             *)
(***************************************************************************)
DriverStep == UNCHANGED <<ended, draft, session, turns, written, sends, restarts>>

\* mutant: the head is the first item, whatever became of it
HeadItemFirst(i) == i = 1
HeadItem(i) == IsHead(i)

\* ready_pending_inputs
Ready(i) ==
    /\ ~ended /\ i \in Open /\ HeadItem(i) /\ items[i].state = "queued"
    /\ session.item # i /\ ~ActiveRun

ListReady ==
    /\ DriverStep /\ driver.at = "wait" /\ wake
    /\ wake' = FALSE
    /\ driver' = IF \E i \in Open : Ready(i)
                 THEN LET i == CHOOSE j \in Open : Ready(j)
                      IN  [at |-> "publish", item |-> i, rev |-> items[i].rev]
                 ELSE Idle
    /\ UNCHANGED <<items, chat, run>>

\* publish_pending_input: everything is looked at again, and a refusal, which
\* wakes nobody, leaves the item to the next pass.
Publish ==
    /\ DriverStep /\ driver.at = "publish"
    /\ LET i == driver.item IN
       \/ /\ Ready(i) /\ items[i].rev = driver.rev
          /\ Admit(items[i].no, items[i].text)
          /\ items' = [items EXCEPT ![i].state = "published"]
          /\ wake' = TRUE /\ driver' = Idle
       \/ /\ ~ended /\ ~(Ready(i) /\ items[i].rev = driver.rev)
          /\ driver' = Idle
          /\ UNCHANGED <<items, chat, run, wake>>

\* The attachments or the Runtime are not there, or the chat has ended.
PublishFails ==
    /\ DriverStep /\ driver.at = "publish"
    /\ LET i == driver.item IN
       /\ ended \/ (Ready(i) /\ items[i].rev = driver.rev)
       /\ items' = [items EXCEPT ![i].failed = items[i].text]
    /\ driver' = [driver EXCEPT !.at = "record"]
    /\ UNCHANGED <<chat, run, wake>>

\* record_pending_publish_failure
RecordFailure ==
    /\ DriverStep /\ driver.at = "record"
    /\ LET i == driver.item IN
       items' = IF items[i].rev = driver.rev /\ items[i].state = "queued"
                THEN [items EXCEPT ![i].state = "needs_repair"] ELSE items
    /\ driver' = Idle
    /\ UNCHANGED <<chat, run, wake>>

\* The core ends and starts again: recover_pending_edit_sessions and
\* cancel_interrupted_single_chat_runs, before any command is taken.
Restart ==
    /\ restarts < MaxRestarts /\ restarts' = restarts + 1
    /\ session' = IF session.item = 0 THEN session ELSE [session EXCEPT !.recover = TRUE]
    /\ run' = [run EXCEPT !.status = "ended"] /\ turns' = {}
    /\ driver' = Idle /\ wake' = TRUE
    /\ UNCHANGED <<ended, draft, items, chat, written, sends>>

Driver == ListReady \/ Publish \/ PublishFails \/ RecordFailure

Next ==
    \/ \E c \in Client :
          \/ Compose(c) \/ Send(c)
          \/ \E i \in Open : \/ BeginEdit(c, i)
                             \/ SaveEdit(c, i)
                             \/ CancelEdit(c, i)
                             \/ DeleteItem(c, i)
                             \/ ReturnItem(c, i)
    \/ End
    \/ StartRun \/ StopRun \/ \E no \in turns, output \in BOOLEAN : Succeed(no, output)
    \/ Driver \/ Restart

\* The driver is a task of its own; nothing is assumed of clients or runs.
Spec == Init /\ [][Next]_vars
FairSpec == Spec /\ WF_vars(Driver)

(***************************************************************************)
(* Properties.                                                             *)
(***************************************************************************)
\* Every variable keeps its type.
TypeOK ==
    /\ {ended, wake, session.recover} \subseteq BOOLEAN
    /\ draft \in [Client -> Text \cup {None}] /\ written \in 0 .. MaxTexts
    /\ \A i \in DOMAIN items :
          /\ items[i].no \in 1 .. sends /\ items[i].text \in Text /\ items[i].failed \in Text \cup {None}
          /\ items[i].state \in {"queued", "needs_repair", "published", "cancelled"}
    /\ \A k \in DOMAIN chat : chat[k].who \in {"user", "agent"} /\ chat[k].no \in 1 .. sends
    /\ run.no \in 0 .. sends /\ run.status \in {"queued", "running", "ended"} /\ turns \subseteq 1 .. sends
    /\ driver.at \in {"wait", "publish", "record"}

\* Inputs are published in the order they were sent, through edits, repairs and
\* direct sends, and an answer follows its own input directly.
InOrder ==
    \A k \in 2 .. Len(chat) :
        IF chat[k].who = "agent"
        THEN chat[k - 1].who = "user" /\ chat[k - 1].no = chat[k].no
        ELSE chat[k - 1].no < chat[k].no

\* What the user wrote is in one place: a composer, the queue or the chat. It is
\* neither sent twice nor sent and given back.
OnePlace ==
    \A t \in Text :
        Cardinality({<<"draft", c>> : c \in {d \in Client : draft[d] = t}}
                      \cup {<<"item", i>> : i \in {j \in Open : items[j].text = t}}
                      \cup {<<"chat", k>> : k \in {l \in DOMAIN chat : chat[l].text = t}}) <= 1

\* An edit session is of an item that still waits, at the revision it began with,
\* so that its client can always save it or give it up.
SessionOwnable ==
    session.item # 0 =>
        ~ended /\ session.item \in Open /\ session.base = items[session.item].rev

\* Only a text that was tried is marked for repair, never its saved successor.
RepairIsOfAttempt ==
    \A i \in DOMAIN items : items[i].state = "needs_repair" => items[i].failed = items[i].text

\* The queue and the conversation agree.
QueueAgrees == TypeOK /\ InOrder /\ OnePlace /\ SessionOwnable /\ RepairIsOfAttempt

\* Nothing comes after the end: neither what waited nor a late answer.
EndIsFinal == [][ended => ended' /\ chat' = chat /\ Open' = {} /\ ~ActiveRun']_vars

\* A head that may be published does not stay so: the driver is woken for it.
HeadMayGo(i) ==
    /\ ~ended /\ i \in Open /\ IsHead(i) /\ items[i].state = "queued"
    /\ session.item # i /\ ~ActiveRun
HeadServed == \A i \in 1 .. MaxSends : HeadMayGo(i) ~> ~HeadMayGo(i)

\* The chat settles.
ChatSettles == EndIsFinal /\ HeadServed
===============================================================================
