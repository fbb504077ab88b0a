--------------------------- MODULE CommandGateway ---------------------------
(***************************************************************************)
(* DomainCommandGateway: every change a client, an agent or the core makes *)
(* is a command with an identity. Its receipt is written in the same       *)
(* transaction as its effects, so that a caller who did not see the answer *)
(* may repeat the command. Callers work on several connections of one      *)
(* database; the core may end at any moment.                               *)
(***************************************************************************)
EXTENDS Naturals

CONSTANTS
    Id,             \* command ids
    Actor, Agent,   \* actors, and those of them that are agents in a run
    Client,         \* editors of private drafts
    Camp,           \* Threads
    Request,        \* the envelopes callers may send
    Caller,         \* connections
    MaxSerial,      \* bound: transactions that commit
    None

Type == {"publish", "withdraw", "delete", "other"}
Envelope == [id : Id, type : Type, actor : Actor, client : Client \cup {None}, camp : Camp \cup {None},
             epoch : BOOLEAN, target : Id \cup {None}]

ASSUME AgentAssumption == Agent \subseteq Actor
ASSUME RequestAssumption == Request \subseteq Envelope
ASSUME TargetAssumption == \A q \in Request : q.type = "withdraw" => q.target \in Id \ {q.id}
ASSUME ScopeAssumption == \A q \in Request : q.type # "other" => q.camp # None
ASSUME BoundAssumption == MaxSerial \in Nat
ASSUME NoneAssumption == None \notin Id \cup Client \cup Camp

VARIABLES
    log,        \* receipts: rows command.result of event_log
    camp,       \* a Thread: open, deleting (marked) or gone
    call,       \* the call each connection is in the middle of
    serial,     \* transactions so far; the content of a result is its transaction
    effects,    \* history: how often the handler of a command changed the database
    answers     \* history: results that reached a caller

gatewayVars == <<log, camp, call, serial, effects, answers>>

Status == {"applied", "accepted", "rejected"}
NoReceipt == [status |-> "none"]
Withdrawn == 0
ResultContent == {Withdrawn} \cup 1 .. MaxSerial
Receipt == [status : Status, type : Type, actor : Actor, client : Client \cup {None},
            camp : Camp \cup {None}, content : ResultContent]
NoCall == [at |-> "idle"]
Call == [at : {"lookup", "transact"}, request : Request]
    \cup [at : {"reply"}, request : Request,
          answer : Receipt \cup {[status |-> "conflict"], [status |-> "failed"]}]

GatewayInit ==
    /\ log = [c \in Id |-> NoReceipt]
    /\ camp = [t \in Camp |-> "open"]
    /\ call = [k \in Caller |-> NoCall]
    /\ serial = 0
    /\ effects = [c \in Id |-> 0]
    /\ answers = {}

\* validate_envelope
Valid(q) == q.epoch <=> q.actor \in Agent

\* The receipt belongs to the command this request repeats. Its payload may differ.
InScope(q, r) ==
    /\ r.type = q.type /\ r.actor = q.actor /\ r.camp = q.camp
    /\ r.client = None \/ r.client = q.client

\* replay_or_conflict
ReplayOrConflict(q) == IF InScope(q, log[q.id]) THEN log[q.id] ELSE [status |-> "conflict"]

Answers(k, a) == call' = [call EXCEPT ![k] = [at |-> "reply", request |-> call[k].request, answer |-> a]]

SendCommand(k, q) ==
    /\ call[k] = NoCall
    /\ call' = [call EXCEPT ![k] = [at |-> "lookup", request |-> q]]
    /\ UNCHANGED <<log, camp, serial, effects, answers>>

\* replay_if_recorded, and the look at the receipts before the transaction.
Lookup(k) ==
    LET q == call[k].request IN
    /\ call[k].at = "lookup"
    /\ IF ~Valid(q) THEN Answers(k, [status |-> "failed"])
       ELSE IF log[q.id] # NoReceipt THEN Answers(k, ReplayOrConflict(q))
       ELSE call' = [call EXCEPT ![k].at = "transact"]
    /\ UNCHANGED <<log, camp, serial, effects, answers>>

\* mutant: the receipts are not read again inside the transaction
NeverRepeated(q) == FALSE

\* Another connection recorded the command since it was looked up.
Repeated(q) == log[q.id] # NoReceipt

Replay(k) ==
    LET q == call[k].request IN
    /\ call[k].at = "transact" /\ Repeated(q)
    /\ Answers(k, ReplayOrConflict(q))
    /\ UNCHANGED <<log, camp, serial, effects, answers>>

\* mutant: commands may still change a Thread that is being deleted
NeverRefused(q) == FALSE

\* camp_deletion_in_progress, for the commands that name a Thread and are not about its deletion
Refused(q) == q.type # "delete" /\ q.camp # None /\ camp[q.camp] = "deleting"

\* append_command_result and the commit of the transaction.
ReceiptOf(q, s) ==
    [status |-> s, type |-> q.type, actor |-> q.actor, client |-> q.client,
     camp |-> q.camp, content |-> serial + 1]

Commits(k, q, s, receipts) ==
    /\ serial < MaxSerial /\ serial' = serial + 1
    /\ log' = [receipts EXCEPT ![q.id] = ReceiptOf(q, s)]
    /\ effects' = IF s = "rejected" THEN effects ELSE [effects EXCEPT ![q.id] = @ + 1]
    /\ Answers(k, ReceiptOf(q, s))
    /\ UNCHANGED answers

Admitted(k) == call[k].at = "transact" /\ ~Repeated(call[k].request)

RefuseDeleting(k) ==
    LET q == call[k].request IN
    /\ Admitted(k) /\ Refused(q)
    /\ Commits(k, q, "rejected", log) /\ UNCHANGED camp

Handled(k) == Admitted(k) /\ ~Refused(call[k].request)

\* A handler may reject whatever it is asked, with a receipt.
Reject(k) ==
    /\ Handled(k)
    /\ Commits(k, call[k].request, "rejected", log) /\ UNCHANGED camp

\* A handler that works on the Thread finds it.
ApplyCommand(k) ==
    LET q == call[k].request IN
    /\ Handled(k) /\ q.type \in {"publish", "other"}
    /\ q.camp # None => camp[q.camp] # "gone"
    /\ Commits(k, q, "applied", log) /\ UNCHANGED camp

\* ThreadDeletionService::accept marks the Thread; a deletion that exists is named again.
AcceptDeletion(k) ==
    LET q == call[k].request IN
    /\ Handled(k) /\ q.type = "delete"
    /\ Commits(k, q, "accepted", log)
    /\ camp' = [camp EXCEPT ![q.camp] = IF @ = "open" THEN "deleting" ELSE @]

\* mutant: the receipt of any command may be erased
AnyErasable(q) == log[q.target] # NoReceipt

\* The receipt erase_command_result_receipt looks for: the publication of this message.
Erasable(q) ==
    LET r == log[q.target] IN
    /\ r # NoReceipt
    /\ r.type = "publish" /\ r.status = "applied" /\ r.actor = q.actor /\ r.camp = q.camp

\* withdraw_camp_message: the result of the publication is erased, its identity stays.
Withdraw(k) ==
    LET q == call[k].request IN
    /\ Handled(k) /\ q.type = "withdraw" /\ camp[q.camp] # "gone" /\ Erasable(q)
    /\ Commits(k, q, "applied", [log EXCEPT ![q.target].content = Withdrawn])
    /\ UNCHANGED camp

\* An error of a handler rolls everything back; there is no receipt.
Fail(k) ==
    /\ Handled(k)
    /\ Answers(k, [status |-> "failed"])
    /\ UNCHANGED <<log, camp, serial, effects, answers>>

Reply(k) ==
    LET q == call[k].request IN
    /\ call[k].at = "reply"
    /\ answers' = IF call[k].answer.status \in Status
                  THEN answers \cup {[request |-> q, answer |-> call[k].answer]} ELSE answers
    /\ call' = [call EXCEPT ![k] = NoCall]
    /\ UNCHANGED <<log, camp, serial, effects>>

\* The answer does not reach the caller, or the core ends: the database is all that is left.
Lose(k) ==
    /\ call[k] # NoCall
    /\ call' = [call EXCEPT ![k] = NoCall]
    /\ UNCHANGED <<log, camp, serial, effects, answers>>

\* commit_business_delete: the Thread is gone, its receipts stay.
BusinessDelete(t) ==
    /\ camp[t] = "deleting"
    /\ camp' = [camp EXCEPT ![t] = "gone"]
    /\ UNCHANGED <<log, call, serial, effects, answers>>

GatewayNext ==
    \/ \E k \in Caller :
         \/ \E q \in Request : SendCommand(k, q)
         \/ Lookup(k) \/ Replay(k) \/ RefuseDeleting(k) \/ Reject(k) \/ ApplyCommand(k)
         \/ AcceptDeletion(k) \/ Withdraw(k) \/ Fail(k) \/ Reply(k) \/ Lose(k)
    \/ \E t \in Camp : BusinessDelete(t)

GatewaySpec == GatewayInit /\ [][GatewayNext]_gatewayVars

(***************************************************************************)
(* Properties                                                              *)
(***************************************************************************)

GatewayTypeOK ==
    /\ log \in [Id -> Receipt \cup {NoReceipt}]
    /\ camp \in [Camp -> {"open", "deleting", "gone"}]
    /\ call \in [Caller -> Call \cup {NoCall}]
    /\ serial \in 0 .. MaxSerial
    /\ effects \in [Id -> Nat]

\* However often a command is repeated, by whomever, on whichever connection and across the
\* loss of its answers, its handler changes the database at most once.
AppliedOnce == \A c \in Id : effects[c] <= 1

\* Callers who are told the result of a command are told the same result, but for a
\* publication that was withdrawn in between.
OneResult ==
    \A a, b \in answers :
        a.request.id = b.request.id =>
            a.answer = b.answer \/ Withdrawn \in {a.answer.content, b.answer.content}

\* Nobody is told the result of a command of another actor, Thread, type or draft editor, or
\* a result that is not in the receipts.
ResultInScope ==
    \A a \in answers :
        LET r == log[a.request.id] IN
        /\ r # NoReceipt /\ r.status = a.answer.status
        /\ r.type = a.request.type /\ r.actor = a.request.actor /\ r.camp = a.request.camp
        /\ r.client = None \/ r.client = a.request.client

\* What a command does and what its callers hear agree with its one receipt.
AnsweredOnce == GatewayTypeOK /\ AppliedOnce /\ OneResult /\ ResultInScope

\* Once its deletion was accepted, no other command that names a Thread changes it, whatever
\* was under way when the deletion came.
ThreadFrozen ==
    [][\A c \in Id : effects'[c] # effects[c] =>
         log'[c].type = "delete" \/ log'[c].camp = None \/ camp[log'[c].camp] = "open"]_gatewayVars

\* Receipts are for ever: one is never lost nor replaced, only the content of a publication
\* that was applied is erased, and for good.
ReceiptsKept ==
    [][\A c \in Id : log[c] # NoReceipt /\ log'[c] # log[c] =>
         /\ log[c].type = "publish" /\ log[c].status = "applied" /\ log[c].content # Withdrawn
         /\ log'[c] = [log[c] EXCEPT !.content = Withdrawn]]_gatewayVars
=============================================================================
