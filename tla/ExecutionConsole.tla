--------------------------- MODULE ExecutionConsole ---------------------------
(***************************************************************************)
(* The execution cards a Channel Host keeps in an external chat, one per   *)
(* AgentRun: the rows channel_execution_console and the upsert and recall  *)
(* rows of channel_delivery of rovai-core/src/channel.rs, and the pump of  *)
(* the desktop Host that claims, fetches, sends and settles them           *)
(* (apps/desktop/src/main/channel-settings.ts).                            *)
(*                                                                         *)
(* A tick of the Host is one transaction of the Core: every console is     *)
(* brought up to date with its run, superseded consoles are recalled,      *)
(* expired leases return to the queue and what is due is claimed.  The     *)
(* Host then treats its claims one after another and ticks again.  The     *)
(* tick of the Host of ANOTHER provider updates the same consoles and      *)
(* expires the same leases, at any moment in between.                      *)
(*                                                                         *)
(* The runs are those of one member in one external conversation; they     *)
(* were created before the first of them started.  A card id is the        *)
(* position of the card in the chat, 0 is NULL.  Time is a set of flags:   *)
(* "quiet" (the terminal quiet window is over) and "ripe" (the lease of an *)
(* attempting row, or the backoff of a pending row, is over).              *)
(***************************************************************************)
EXTENDS Integers, Sequences, FiniteSets

CONSTANTS
    Run,          \* the AgentRuns of the member
    TurnRuns,     \* those that belong to a CampTurn, settled with its Request
    MaxRev,       \* bound: changes of the public evidence of each run
    MaxAttempts,  \* MAX_DELIVERY_ATTEMPTS
    FaultKinds,   \* what may disturb the Host, of the set Fault
    MaxFaults     \* bound: how many of them

Fault == {"other", "refused", "unclear", "crash", "dropped", "slow"}

ASSUME ConsoleAssumption ==
    /\ IsFiniteSet(Run)
    /\ TurnRuns \subseteq Run
    /\ MaxRev \in [Run -> Nat] /\ MaxFaults \in Nat
    /\ MaxAttempts \in Nat \ {0}
    /\ FaultKinds \subseteq Fault

VARIABLES
    run,      \* agent_run.status
    start,    \* the order of agent_run.started_at, 0: not started
    rev,      \* the public evidence and output of the run
    text,     \* the text blocks of the run, settled or still streaming
    console,  \* channel_execution_console, one row per run
    quiet,    \* the quiet window since updated_at (or ended_at) is over
    rows,     \* channel_delivery, the rows of these consoles
    host,     \* the Host of this provider: worker id, claims, what it does
    chat,     \* the cards of each run, oldest first
    faults    \* what disturbed the Host so far

vars == <<run, start, rev, text, console, quiet, rows, host, chat, faults>>

Gone == [rev |-> -1, text |-> "gone"]
Live == {"opening", "active", "terminal_pending"}
Frozen == {"terminal_sealed", "recall_pending", "recalled", "recall_failed"}
RecallStates == {"recall_pending", "recalled", "recall_failed"}
Ended == {"sent", "failed"}

\* What a card of the run shows when it is rendered now.
Snapshot(r) == [rev |-> rev[r], text |-> text[r]]
Digest(r, status) == <<status, rev[r]>>
Successors(r) == {s \in Run : start[s] > start[r]}

NoConsole == [state |-> "none", latest |-> 0, delivered |-> 0, ext |-> 0,
              digest |-> <<"queued", 0>>, snap |-> Gone, failure |-> FALSE]
NoClaim == [run |-> 0, kind |-> "none", tag |-> 0, expected |-> 0, upd |-> 0]
Idle(w) == [worker |-> w, batch |-> {}, cur |-> NoClaim, pc |-> "idle",
            shown |-> Gone, outcome |-> "none", id |-> 0]

(***************************************************************************)
(* The outbox rows of a console.                                           *)
(***************************************************************************)
RowsOf(r) == {d \in rows : d.run = r}
Open(D, kind) == {d \in D : d.kind = kind /\ d.status \in {"pending", "attempting"}}
Pending(D, kind) == {d \in Open(D, kind) : d.status = "pending"}

\* insert_console_delivery: an existing dedupe key wins.
Insert(D, r, kind, tag, expected) ==
    IF \E d \in D : d.kind = kind /\ d.tag = tag THEN D
    ELSE D \cup {[run |-> r, kind |-> kind, tag |-> tag, expected |-> expected,
                  status |-> "pending", attempts |-> 0, ripe |-> TRUE, owner |-> 0]}

\* queue_execution_console_upsert: coalesce with a pending row, leave it to
\* the settlement of an attempting row, insert otherwise.
QueueUpsert(D, r, seq) ==
    IF Pending(D, "upsert") # {}
    THEN {IF d \in Pending(D, "upsert") THEN [d EXCEPT !.expected = seq] ELSE d : d \in D}
    ELSE IF Open(D, "upsert") # {} THEN D
    ELSE Insert(D, r, "upsert", seq, seq)

(***************************************************************************)
(* One pass over the console of run r, as the tick composes it.  A view is *)
(* the console row, its outbox rows and its quiet flag.                    *)
(***************************************************************************)
View(r) == [c |-> console[r], rows |-> RowsOf(r), quiet |-> quiet[r]]

\* The console moves to a new sequence; an upsert is queued or not.
Advance(r, status, v, state, queued) ==
    LET seq == v.c.latest + 1 IN
    [c |-> [v.c EXCEPT !.state = state, !.latest = seq, !.digest = Digest(r, status),
                       !.snap = IF state = "terminal_sealed" THEN Snapshot(r) ELSE @],
     rows |-> IF queued THEN QueueUpsert(v.rows, r, seq) ELSE v.rows,
     quiet |-> FALSE]

Sealable(r, v) == text[r] = "settled" /\ v.quiet

\* mutant: the sealed card is left to the update that is already queued
MaterializeQuietly(r, status, v) ==
    LET live == IF status = "queued" THEN "opening" ELSE "active"
        same == v.c.digest = Digest(r, status)
    IN CASE v.c.state \in Frozen -> v
         [] v.c.state \notin Frozen /\ status = "ended" ->
               IF v.c.state = "terminal_pending" /\ same
               THEN IF Sealable(r, v) THEN Advance(r, status, v, "terminal_sealed", FALSE) ELSE v
               ELSE Advance(r, status, v, "terminal_pending", FALSE)
         [] OTHER -> IF v.c.state = live /\ same THEN v ELSE Advance(r, status, v, live, TRUE)
\* materialize_execution_console
Materialize(r, status, v) ==
    LET live == IF status = "queued" THEN "opening" ELSE "active"
        same == v.c.digest = Digest(r, status)
    IN CASE v.c.state \in Frozen -> v
         [] v.c.state = "none" /\ status = "ended" ->
               IF Sealable(r, v) THEN Advance(r, status, v, "terminal_sealed", TRUE)
               ELSE Advance(r, status, v, "terminal_pending", FALSE)
         [] v.c.state \in Live /\ status = "ended" ->
               IF v.c.state # "terminal_pending" \/ ~same
               THEN Advance(r, status, v, "terminal_pending", FALSE)
               ELSE IF Sealable(r, v) THEN Advance(r, status, v, "terminal_sealed", TRUE)
               ELSE v
         [] OTHER -> IF v.c.state = live /\ same THEN v ELSE Advance(r, status, v, live, TRUE)

\* reconcile_superseded_execution_consoles: a sealed card gives way to the
\* latest started run of the member.
Supersede(r, v) ==
    LET succ == CHOOSE s \in Run : \A t \in Run : start[s] >= start[t]
        left == v.rows \ Pending(v.rows, "upsert")
    IN IF \/ run[r] # "ended" \/ Successors(r) = {}
          \/ v.c.state \notin {"terminal_sealed", "recall_failed"}
          \/ \E d \in v.rows : d.kind = "recall" /\ d.tag = succ   \* already_attempted
          \/ Open(v.rows, "recall") # {}                           \* recall_open
       THEN v
       ELSE IF v.c.ext = 0 /\ Open(left, "upsert") = {}
       THEN [v EXCEPT !.c.state = "recalled", !.c.failure = FALSE, !.rows = left]
       ELSE [v EXCEPT !.c.state = "recall_pending", !.c.failure = FALSE,
                      !.rows = Insert(left, r, "recall", succ, 0)]

\* claim_deliveries, first statement: every provider's expired leases.
Expire(v) ==
    [v EXCEPT !.rows = {IF d.status = "attempting" /\ d.ripe
                        THEN [d EXCEPT !.status = "pending", !.owner = 0] ELSE d : d \in @}]

\* mutant: a recall does not wait for the updates of its card
EligibleAtOnce(D) == {d \in D : d.status = "pending" /\ d.ripe}
\* claim_deliveries, the query: a recall waits for the updates of its card.
Eligible(D) ==
    {d \in D : /\ d.status = "pending" /\ d.ripe
               /\ d.kind = "recall" => Open(D, "upsert") = {}}

Claimed(v, w) ==
    [v EXCEPT !.rows = {IF d \in Eligible(v.rows)
                        THEN [d EXCEPT !.status = "attempting", !.attempts = @ + 1,
                                       !.ripe = FALSE, !.owner = w] ELSE d : d \in @}]
ClaimsOf(v) ==
    {[run |-> d.run, kind |-> d.kind, tag |-> d.tag, expected |-> d.expected,
      upd |-> v.c.ext] : d \in Eligible(v.rows)}

Apply(view) ==
    /\ console' = [r \in Run |-> view[r].c]
    /\ quiet' = [r \in Run |-> view[r].quiet]
    /\ rows' = UNION {view[r].rows : r \in Run}


(***************************************************************************)
(* The AgentRuns.                                                          *)
(***************************************************************************)
Init ==
    /\ run = [r \in Run |-> "queued"]
    /\ start = [r \in Run |-> 0]
    /\ rev = [r \in Run |-> 0]
    /\ text = [r \in Run |-> "settled"]
    /\ console = [r \in Run |-> NoConsole]
    /\ quiet = [r \in Run |-> FALSE]
    /\ rows = {}
    /\ host = Idle(1)
    /\ chat = [r \in Run |-> <<>>]
    /\ faults = <<>>

StartRun(r) ==
    /\ run[r] = "queued"
    /\ run' = [run EXCEPT ![r] = "running"]
    /\ start' = [start EXCEPT ![r] = 1 + Cardinality({s \in Run : start[s] # 0})]
    /\ UNCHANGED <<rev, text, console, quiet, rows, host, chat, faults>>

\* Evidence or public output; a text block streams until it is settled.  It
\* may still be recorded after the run ended.
Evidence(r, streaming) ==
    /\ run[r] # "queued" /\ rev[r] < MaxRev[r]
    /\ rev' = [rev EXCEPT ![r] = @ + 1]
    /\ streaming => run[r] = "running"
    /\ text' = IF streaming THEN [text EXCEPT ![r] = "streaming"] ELSE text
    /\ UNCHANGED <<run, start, console, quiet, rows, host, chat, faults>>

\* The asynchronous settlement that host_tick requests.
SettleText(r) ==
    /\ text[r] = "streaming"
    /\ text' = [text EXCEPT ![r] = "settled"]
    /\ UNCHANGED <<run, start, rev, console, quiet, rows, host, chat, faults>>

\* The run ends.  A run of a CampTurn ends its turn here, and the settlement of
\* the turn projects its console in the same transaction.
EndRun(r) ==
    /\ run[r] # "ended"
    /\ run' = [run EXCEPT ![r] = "ended"]
    /\ LET v == [View(r) EXCEPT !.quiet = FALSE]
           w == IF r \in TurnRuns THEN Materialize(r, "ended", v) ELSE v
       IN /\ console' = [console EXCEPT ![r] = w.c]
          /\ quiet' = [quiet EXCEPT ![r] = w.quiet]
          /\ rows' = (rows \ RowsOf(r)) \cup w.rows
    /\ UNCHANGED <<start, rev, text, host, chat, faults>>

(***************************************************************************)
(* Time.  The lease of a row in the hands of a live Host runs out only if  *)
(* the Host is slow, which is a fault.                                     *)
(***************************************************************************)
Suffer(f) ==
    /\ f \in FaultKinds /\ Len(faults) < MaxFaults
    /\ faults' = Append(faults, f)
Suffered(kinds) == \E i \in 1..Len(faults) : faults[i] \in kinds

QuietElapses(r) ==
    /\ run[r] = "ended" /\ ~quiet[r] /\ console[r].state \notin Frozen
    /\ quiet' = [quiet EXCEPT ![r] = TRUE]
    /\ UNCHANGED <<run, start, rev, text, console, rows, host, chat, faults>>

IsFor(claim, d) == claim.run = d.run /\ claim.kind = d.kind /\ claim.tag = d.tag
InHand(d) == \E claim \in host.batch \cup {host.cur} : IsFor(claim, d)

Elapse(d) ==
    /\ d.status \notin Ended /\ ~d.ripe
    /\ IF d.status = "attempting" /\ InHand(d) THEN Suffer("slow") ELSE UNCHANGED faults
    /\ rows' = (rows \ {d}) \cup {[d EXCEPT !.ripe = TRUE]}
    /\ UNCHANGED <<run, start, rev, text, console, quiet, host, chat>>

(***************************************************************************)
(* The Host.                                                               *)
(***************************************************************************)
\* host_tick, called by a Host whose previous claims are treated.
Tick ==
    /\ host.pc = "idle" /\ host.batch = {}
    /\ LET view == [r \in Run |-> Expire(Supersede(r, Materialize(r, run[r], View(r))))] IN
       /\ Apply([r \in Run |-> Claimed(view[r], host.worker)])
       /\ host' = [host EXCEPT !.batch = UNION {ClaimsOf(view[r]) : r \in Run}]
    /\ UNCHANGED <<run, start, rev, text, chat, faults>>

\* host_tick of another provider: it recalls and claims nothing of this one.
OtherTick ==
    /\ Suffer("other")
    /\ Apply([r \in Run |-> Expire(Materialize(r, run[r], View(r)))])
    /\ UNCHANGED <<run, start, rev, text, host, chat>>

\* execution_console_source: the exact sequence, and a card not being recalled.
HasSource(c, claim) == c.latest = claim.expected /\ c.state \in Live \cup {"terminal_sealed"}

\* #deliverNow up to the call of the provider.  Recalls come first (priority);
\* without a source there is nothing to send and the known card is reported.
Take(claim) ==
    /\ host.pc = "idle" /\ claim \in host.batch
    /\ claim.kind = "upsert" => \A other \in host.batch : other.kind = "upsert"
    /\ LET c == console[claim.run]
           h == [host EXCEPT !.batch = @ \ {claim}, !.cur = claim]
       IN host' = IF claim.kind = "recall" THEN [h EXCEPT !.pc = "send"]
                  ELSE IF HasSource(c, claim)
                  THEN [h EXCEPT !.pc = "send",
                                 !.shown = IF c.state = "terminal_sealed" THEN c.snap
                                           ELSE Snapshot(claim.run)]
                  ELSE [h EXCEPT !.pc = "settle", !.outcome = "sent", !.id = claim.upd]
    /\ UNCHANGED <<run, start, rev, text, console, quiet, rows, chat, faults>>

\* The effect of the call at the provider and the message id it returns.
Provider(claim) ==
    LET cards == chat[claim.run] IN
    CASE claim.kind = "recall" /\ claim.upd = 0 -> [cards |-> cards, id |-> 0]
      [] claim.kind = "recall" /\ claim.upd # 0 ->
            [cards |-> [cards EXCEPT ![claim.upd] = Gone], id |-> claim.upd]
      [] claim.kind = "upsert" /\ claim.upd = 0 ->
            [cards |-> Append(cards, host.shown), id |-> Len(cards) + 1]
      [] OTHER -> [cards |-> [cards EXCEPT ![claim.upd] = host.shown], id |-> claim.upd]

Send ==
    /\ host.pc = "send"
    /\ chat' = [chat EXCEPT ![host.cur.run] = Provider(host.cur).cards]
    /\ host' = [host EXCEPT !.pc = "settle", !.outcome = "sent", !.id = Provider(host.cur).id,
                            !.shown = Gone]
    /\ UNCHANGED <<run, start, rev, text, console, quiet, rows, faults>>

\* The provider refuses, or the Bot is not connected.
SendRefused(outcome) ==
    /\ host.pc = "send" /\ Suffer("refused")
    /\ outcome \in {"retry", "failed"}
    /\ host' = [host EXCEPT !.pc = "settle", !.outcome = outcome, !.id = 0, !.shown = Gone]
    /\ UNCHANGED <<run, start, rev, text, console, quiet, rows, chat>>

\* send_timeout: the call took effect and is reported as a retryable failure.
SendUnclear ==
    /\ host.pc = "send" /\ Suffer("unclear")
    /\ chat' = [chat EXCEPT ![host.cur.run] = Provider(host.cur).cards]
    /\ host' = [host EXCEPT !.pc = "settle", !.outcome = "retry", !.id = 0, !.shown = Gone]
    /\ UNCHANGED <<run, start, rev, text, console, quiet, rows>>


(***************************************************************************)
(* settle_delivery.  A row that was deleted, has ended or is not the       *)
(* attempt of this worker is left alone.  Of an ended row only the dedupe  *)
(* key and the outcome are kept.                                           *)
(***************************************************************************)
Row(claim) == {d \in rows : IsFor(claim, d)}
Owned(d) == d.status = "attempting" /\ d.owner = host.worker

SetRow(D, d, e) == (D \ {d}) \cup {e}

\* An upsert was sent: the card is known (IdentityAgrees: it is the one known
\* before), and what the console gained meanwhile is queued again unless it is
\* being recalled.  Without an id the Host sent nothing and nothing changes.
SentUpsert(v, d) ==
    IF host.id = 0 THEN v
    ELSE LET shown == IF d.expected < v.c.latest THEN d.expected ELSE v.c.latest
             seq == IF shown > v.c.delivered THEN shown ELSE v.c.delivered
             c == [v.c EXCEPT !.ext = host.id, !.delivered = seq, !.failure = FALSE]
         IN [c |-> c, quiet |-> FALSE,
             rows |-> IF seq < c.latest /\ c.state \notin RecallStates
                      THEN QueueUpsert(v.rows, d.run, c.latest) ELSE v.rows]

Settled(v, d) ==
    LET ended == [d EXCEPT !.status = IF host.outcome = "sent" THEN "sent" ELSE "failed",
                           !.owner = 0, !.ripe = FALSE, !.attempts = 0, !.expected = 0]
        w == [v EXCEPT !.rows = SetRow(@, d, ended)]
    IN CASE host.outcome = "retry" /\ d.attempts < MaxAttempts ->
              [v EXCEPT !.rows = SetRow(@, d, [d EXCEPT !.status = "pending", !.ripe = FALSE,
                                                        !.owner = 0])]
         [] d.kind = "upsert" /\ host.outcome = "sent" -> SentUpsert(w, d)
         [] d.kind = "upsert" /\ host.outcome # "sent"
               /\ (host.outcome = "failed" \/ d.attempts >= MaxAttempts) ->
              [w EXCEPT !.c.failure = TRUE, !.quiet = FALSE]
         [] OTHER ->
              IF v.c.state = "recalled" THEN w
              ELSE [w EXCEPT !.c.state = IF host.outcome = "sent" THEN "recalled"
                                         ELSE "recall_failed",
                             !.c.failure = host.outcome # "sent"]

\* The transaction of the settlement, as the Core commits it.
CommitSettlement ==
    LET r == host.cur.run IN
    IF \E d \in Row(host.cur) : Owned(d)
    THEN LET d == CHOOSE e \in Row(host.cur) : Owned(e)
             v == Settled(View(r), d)
         IN /\ console' = [console EXCEPT ![r] = v.c]
            /\ quiet' = [quiet EXCEPT ![r] = v.quiet]
            /\ rows' = (rows \ RowsOf(r)) \cup v.rows
    ELSE UNCHANGED <<console, quiet, rows>>

\* The row was deleted, or is the attempt of nobody or of another worker: the
\* command is rejected.  Of a row that has ended it says so, and is applied.
Rejected(claim) == ~\E d \in Row(claim) : Owned(d) \/ d.status \in Ended

\* A settlement as sent is made inside the try of #deliverNow: if it throws, the
\* same claim is settled again, as failed.  If that throws too, the pump gives up
\* the rest of its claims and ticks again later.
Thrown ==
    IF host.outcome = "sent" THEN [host EXCEPT !.outcome = "failed", !.id = 0]
    ELSE Idle(host.worker)

Settle ==
    /\ host.pc = "settle"
    /\ CommitSettlement
    /\ host' = IF Rejected(host.cur) THEN Thrown
               ELSE [Idle(host.worker) EXCEPT !.batch = host.batch]
    /\ UNCHANGED <<run, start, rev, text, chat, faults>>

\* The settle request fails, before or after the commit.
SettleFails ==
    /\ host.pc = "settle" /\ Suffer("dropped")
    /\ CommitSettlement \/ UNCHANGED <<console, quiet, rows>>
    /\ host' = Thrown
    /\ UNCHANGED <<run, start, rev, text, chat>>

\* The desktop process ends and starts again, with a new worker id.
Crash ==
    /\ Suffer("crash")
    /\ host' = Idle(host.worker + 1)
    /\ UNCHANGED <<run, start, rev, text, console, quiet, rows, chat>>

Next ==
    \/ \E r \in Run : \/ StartRun(r) \/ EndRun(r) \/ SettleText(r) \/ QuietElapses(r)
                      \/ \E streaming \in BOOLEAN : Evidence(r, streaming)
    \/ \E d \in rows : Elapse(d)
    \/ Tick \/ OtherTick
    \/ \E claim \in host.batch : Take(claim)
    \/ Send \/ SendUnclear \/ \E outcome \in {"retry", "failed"} : SendRefused(outcome)
    \/ Settle \/ SettleFails \/ Crash

Spec == Init /\ [][Next]_vars

(***************************************************************************)
(* Fairness: timers fire, the text writer runs, and the pump, once woken,  *)
(* ticks and treats its claims.  Nothing is assumed of the runs.           *)
(***************************************************************************)
HostStep == Tick \/ (\E claim \in host.batch : Take(claim)) \/ Send \/ Settle
Fairness ==
    /\ WF_vars(HostStep)
    /\ WF_vars(\E d \in rows : Elapse(d) /\ ~(d.status = "attempting" /\ InHand(d)))
    /\ \A r \in Run : WF_vars(SettleText(r)) /\ WF_vars(QuietElapses(r))
FairSpec == Spec /\ Fairness
-------------------------------------------------------------------------------
Content == [rev : Nat, text : {"settled", "streaming"}] \cup {Gone}

\* Every row and console is well formed, a card id names a card of the chat and
\* no card is claimed to show more than the console has.
TypeOK ==
    /\ run \in [Run -> {"queued", "running", "ended"}]
    /\ start \in [Run -> 0..Cardinality(Run)] /\ rev \in [Run -> Nat]
    /\ text \in [Run -> {"settled", "streaming"}] /\ quiet \in [Run -> BOOLEAN]
    /\ chat \in [Run -> Seq(Content)]
    /\ \A r \in Run : /\ console[r].state \in Live \cup Frozen \cup {"none"}
                      /\ console[r].delivered \in 0..console[r].latest
                      /\ console[r].ext \in 0..Len(chat[r])
    /\ \A d \in rows : /\ d.run \in Run /\ d.kind \in {"upsert", "recall"}
                       /\ d.status \in {"pending", "attempting"} \cup Ended
    /\ host.pc \in {"idle", "send", "settle"} /\ Len(faults) <= MaxFaults

\* At most one update of a card is queued or in flight, through live changes,
\* the seal, retries, expired leases and the follow-up of a settlement: two of
\* them could reach the chat in either order.
OneUpdateOpen == \A r \in Run : Cardinality(Open(RowsOf(r), "upsert")) <= 1

\* The message id that a settlement brings is that of the card the console knows:
\* settle_delivery fails, and with it the pump, when they differ.
IdentityAgrees ==
    \A d \in rows :
        /\ host.pc = "settle" /\ host.outcome = "sent" /\ host.id # 0
        /\ IsFor(host.cur, d) /\ d.kind = "upsert" /\ Owned(d)
        => console[d.run].ext \in {0, host.id}

\* While a recall is in flight no update of the card is queued or in flight, so
\* a recalled card is not sent again.
RecallAlone ==
    \A d \in rows : d.kind = "recall" /\ d.status = "attempting"
                        => Open(RowsOf(d.run), "upsert") = {}

\* A console that counts as recalled has left no card in the chat, and the Host
\* is not about to add one (but a call that took effect and was not settled may
\* have made a card that nobody knows).
RecalledIsGone ==
    \A r \in Run : console[r].state = "recalled" /\ ~Suffered({"unclear", "crash", "dropped", "slow"}) =>
        /\ \A i \in 1..Len(chat[r]) : chat[r][i] = Gone
        /\ ~(host.pc = "send" /\ host.cur.run = r)

\* A sealed console that counts as delivered has its card, and the card shows
\* exactly the sealed snapshot.
DeliveredIsShown ==
    \A r \in Run : LET c == console[r] IN
        c.state = "terminal_sealed" /\ c.delivered = c.latest
            => c.ext # 0 /\ chat[r][c.ext] = c.snap

\* A sealed console is delivered, has an update under way or records its failure.
Carried(r) ==
    LET c == console[r] IN
    c.state = "terminal_sealed" => \/ c.delivered = c.latest \/ c.failure
                                   \/ Open(RowsOf(r), "upsert") # {}

\* A console whose card was never made may be sealed while its first update is
\* under way, by the tick of another Host or before that update is repeated, and
\* is carried by nothing then.
FirstUpdateLost(r) == console[r].ext = 0 /\ Suffered({"other", "crash", "dropped", "slow"})

SealedIsCarried == \A r \in Run : Carried(r) \/ FirstUpdateLost(r)

\* The same without exception. It does not hold (ExecutionConsoleLost.cfg).
AlwaysCarried == \A r \in Run : Carried(r)

\* The card of a run that ended and has a successor is withdrawn, or its recall
\* is recorded as failed.
CardWithdrawn ==
    \A r \in Run : run[r] = "ended" /\ Successors(r) # {}
                       ~> console[r].state \in {"recalled", "recall_failed"}

\* An ended run gets its final card: the sealed snapshot is shown, its failure is
\* recorded, or a successor takes the place (or its first update was lost).
FinalCardShown ==
    \A r \in Run : run[r] = "ended" ~> \/ console[r].state \in RecallStates
                                       \/ FirstUpdateLost(r)
                                       \/ /\ console[r].state = "terminal_sealed"
                                          /\ \/ console[r].failure
                                             \/ console[r].delivered = console[r].latest

\* The card and the console agree, and nothing comes after a recall.
CardsAgree ==
    TypeOK /\ OneUpdateOpen /\ IdentityAgrees /\ RecallAlone /\ RecalledIsGone /\ DeliveredIsShown
===============================================================================
