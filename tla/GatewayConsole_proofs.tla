------------------------ MODULE GatewayConsole_proofs ------------------------
(***************************************************************************)
(* Proofs about CommandGateway and about ExecutionConsole. The two share   *)
(* no state, and each part stands by itself; the names that both modules   *)
(* would have (Init, Next, Spec, TypeOK, vars) carry the prefix of the     *)
(* gateway in CommandGateway.                                              *)
(***************************************************************************)
EXTENDS CommandGateway, ExecutionConsole,
        FiniteSetTheorems, SequenceTheorems, WellFoundedInduction, TLAPS

(***************************************************************************)
(* CommandGateway, for any commands, callers and Threads.                  *)
(*                                                                         *)
(* What callers have been told is compared in two ways: with the receipt   *)
(* as it is now, and with what others have been told. The second does not  *)
(* follow from the first, because a withdrawal erases the content of the   *)
(* receipt; and an answer counts as told from the moment it is composed,   *)
(* while it may still be lost.                                             *)
(***************************************************************************)

\* The results callers were told, with those on their way.
Replying == {k \in Caller : call[k].at = "reply" /\ call[k].answer.status \in Status}
Results == answers \cup {[request |-> call[k].request, answer |-> call[k].answer] : k \in Replying}

\* Two contents of one result: equal, or one of them is from after the withdrawal.
Agree(r, s) == r = s \/ Withdrawn \in {r.content, s.content}

\* A result is the receipt of the command it was told of, as it is or as it was.
FromReceipt(a) ==
    LET r == log[a.request.id] IN
    /\ a.request \in Request /\ r # NoReceipt
    /\ InScope(a.request, r) /\ r.status = a.answer.status /\ Agree(a.answer, r)

\* A handler changed the database only if there is a receipt of it.
EffectsReceipted == \A c \in Id : effects[c] <= 1 /\ (log[c] = NoReceipt => effects[c] = 0)
ResultsFromReceipts == \A a \in Results : FromReceipt(a)
ResultsAgree == \A a, b \in Results : a.request.id = b.request.id => Agree(a.answer, b.answer)

GatewayInv == EffectsReceipted /\ ResultsFromReceipts /\ ResultsAgree

-----------------------------------------------------------------------------
(* Calls, receipts and their types. *)

\* A call that is under way is of a request callers may send.
LEMMA CallUnderWay ==
  ASSUME GatewayTypeOK, NEW k \in Caller, call[k].at \in {"lookup", "transact", "reply"}
  PROVE  /\ call[k] \in Call
         /\ call[k].request \in Request
         /\ call[k].at = "reply" =>
              call[k].answer \in Receipt \cup {[status |-> "conflict"], [status |-> "failed"]}
<1>1. call[k] \in Call \cup {NoCall}
  BY DEF GatewayTypeOK
<1>2. call[k] # NoCall
  BY DEF NoCall
<1> QED
  BY <1>1, <1>2 DEF Call

\* A command that has a receipt has one that says what became of it.
LEMMA Receipted ==
  ASSUME GatewayTypeOK, NEW c \in Id
  PROVE  /\ log[c] # NoReceipt => log[c] \in Receipt /\ log[c].status \in Status
         /\ NoReceipt \notin Receipt
BY DEF GatewayTypeOK, Receipt, NoReceipt, Status

\* The receipt of a request that commits (append_command_result).
LEMMA ReceiptTyped ==
  ASSUME GatewayTypeOK, NEW q \in Request, NEW s \in Status, serial < MaxSerial
  PROVE  /\ ReceiptOf(q, s) \in Receipt
         /\ ReceiptOf(q, s).status = s
         /\ InScope(q, ReceiptOf(q, s))
<1>1. q \in Envelope
  BY RequestAssumption
<1>2. serial + 1 \in ResultContent
  BY BoundAssumption DEF GatewayTypeOK, ResultContent
<1> QED
  BY <1>1, <1>2 DEF ReceiptOf, Receipt, Envelope, InScope

\* An answer to a call that is under way keeps the calls typed.
LEMMA AnswersTyped ==
  ASSUME GatewayTypeOK, NEW k \in Caller, call[k].at \in {"lookup", "transact", "reply"},
         NEW a \in Receipt \cup {[status |-> "conflict"], [status |-> "failed"]},
         Answers(k, a)
  PROVE  call' \in [Caller -> Call \cup {NoCall}]
<1>1. call[k].request \in Request
  BY CallUnderWay
<1>2. [at |-> "reply", request |-> call[k].request, answer |-> a] \in Call
  BY <1>1 DEF Call
<1> QED
  BY <1>2 DEF Answers, GatewayTypeOK

\* What a repeated command is answered.
LEMMA ReplayTyped ==
  ASSUME GatewayTypeOK, NEW q \in Request, log[q.id] # NoReceipt
  PROVE  ReplayOrConflict(q) \in Receipt \cup {[status |-> "conflict"]}
<1>1. q.id \in Id
  BY RequestAssumption DEF Envelope
<1> QED
  BY <1>1, Receipted DEF ReplayOrConflict

\* A transaction that commits keeps everything but the Threads typed.
LEMMA CommitTyped ==
  ASSUME GatewayTypeOK, NEW k \in Caller, Admitted(k), NEW s \in Status,
         NEW receipts \in [Id -> Receipt \cup {NoReceipt}],
         Commits(k, call[k].request, s, receipts)
  PROVE  /\ log' \in [Id -> Receipt \cup {NoReceipt}]
         /\ call' \in [Caller -> Call \cup {NoCall}]
         /\ serial' \in 0 .. MaxSerial
         /\ effects' \in [Id -> Nat]
<1> DEFINE q == call[k].request
<1>1. call[k].at = "transact" /\ q \in Request
  BY CallUnderWay DEF Admitted
<1>2. q.id \in Id
  BY <1>1, RequestAssumption DEF Envelope
<1>3. serial < MaxSerial
  BY DEF Commits
<1>4. ReceiptOf(q, s) \in Receipt
  BY <1>1, <1>3, ReceiptTyped
<1>5. log' \in [Id -> Receipt \cup {NoReceipt}]
  BY <1>4 DEF Commits
<1>6. call' \in [Caller -> Call \cup {NoCall}]
  <2>1. Answers(k, ReceiptOf(q, s))
    BY DEF Commits
  <2> QED
    BY <2>1, <1>1, <1>4, AnswersTyped
<1>7. serial' \in 0 .. MaxSerial
  BY <1>3, BoundAssumption DEF Commits, GatewayTypeOK
<1>8. effects' \in [Id -> Nat]
  BY <1>2 DEF Commits, GatewayTypeOK
<1> QED
  BY <1>5, <1>6, <1>7, <1>8

-----------------------------------------------------------------------------
(* Type correctness. *)

\* The gateway starts well typed.
LEMMA InitTyped == GatewayInit => GatewayTypeOK
BY BoundAssumption DEF GatewayInit, GatewayTypeOK

\* Every call, transaction and loss keeps the types.
LEMMA StepTyped == GatewayTypeOK /\ [GatewayNext]_gatewayVars => GatewayTypeOK'
<1> SUFFICES ASSUME GatewayTypeOK, [GatewayNext]_gatewayVars PROVE GatewayTypeOK'
  OBVIOUS
<1>1. ASSUME NEW k \in Caller, NEW q \in Request, SendCommand(k, q) PROVE GatewayTypeOK'
  <2>1. [at |-> "lookup", request |-> q] \in Call
    BY DEF Call
  <2> QED
    BY <1>1, <2>1 DEF SendCommand, GatewayTypeOK
<1>2. ASSUME NEW k \in Caller, Lookup(k) PROVE GatewayTypeOK'
  <2> DEFINE q == call[k].request
  <2>1. call[k].at = "lookup"
    BY <1>2 DEF Lookup
  <2>2. call[k] \in Call /\ q \in Request
    BY <2>1, CallUnderWay
  <2>3. CASE Answers(k, [status |-> "failed"])
    BY <1>2, <2>1, <2>3, AnswersTyped DEF Lookup, GatewayTypeOK
  <2>4. CASE log[q.id] # NoReceipt /\ Answers(k, ReplayOrConflict(q))
    <3>1. call' \in [Caller -> Call \cup {NoCall}]
      BY <2>1, <2>2, <2>4, ReplayTyped, AnswersTyped
    <3> QED
      BY <1>2, <3>1 DEF Lookup, GatewayTypeOK
  <2>5. CASE call' = [call EXCEPT ![k].at = "transact"]
    <3>1. [call[k] EXCEPT !.at = "transact"] \in Call
      BY <2>1, <2>2 DEF Call
    <3> QED
      BY <1>2, <2>5, <3>1 DEF Lookup, GatewayTypeOK
  <2> QED
    BY <1>2, <2>3, <2>4, <2>5 DEF Lookup
<1>3. ASSUME NEW k \in Caller, Replay(k) PROVE GatewayTypeOK'
  <2> DEFINE q == call[k].request
  <2>1. call[k].at = "transact" /\ log[q.id] # NoReceipt /\ Answers(k, ReplayOrConflict(q))
    BY <1>3 DEF Replay, Repeated
  <2>2. q \in Request
    BY <2>1, CallUnderWay
  <2>3. call' \in [Caller -> Call \cup {NoCall}]
    BY <2>1, <2>2, ReplayTyped, AnswersTyped
  <2> QED
    BY <1>3, <2>3 DEF Replay, GatewayTypeOK
<1>4. ASSUME NEW k \in Caller, RefuseDeleting(k) PROVE GatewayTypeOK'
  <2>1. log \in [Id -> Receipt \cup {NoReceipt}] /\ "rejected" \in Status
    BY DEF GatewayTypeOK, Status
  <2> QED
    BY <1>4, <2>1, CommitTyped DEF RefuseDeleting, GatewayTypeOK
<1>5. ASSUME NEW k \in Caller, Reject(k) PROVE GatewayTypeOK'
  <2>1. log \in [Id -> Receipt \cup {NoReceipt}] /\ "rejected" \in Status
    BY DEF GatewayTypeOK, Status
  <2> QED
    BY <1>5, <2>1, CommitTyped DEF Reject, Handled, GatewayTypeOK
<1>6. ASSUME NEW k \in Caller, ApplyCommand(k) PROVE GatewayTypeOK'
  <2>1. log \in [Id -> Receipt \cup {NoReceipt}] /\ "applied" \in Status
    BY DEF GatewayTypeOK, Status
  <2> QED
    BY <1>6, <2>1, CommitTyped DEF ApplyCommand, Handled, GatewayTypeOK
<1>7. ASSUME NEW k \in Caller, AcceptDeletion(k) PROVE GatewayTypeOK'
  <2>1. log \in [Id -> Receipt \cup {NoReceipt}] /\ "accepted" \in Status
    BY DEF GatewayTypeOK, Status
  <2>2. Admitted(k) /\ Commits(k, call[k].request, "accepted", log)
    BY <1>7 DEF AcceptDeletion, Handled
  <2>3. camp' \in [Camp -> {"open", "deleting", "gone"}]
    BY <1>7 DEF AcceptDeletion, GatewayTypeOK
  <2> QED
    BY <2>1, <2>2, <2>3, CommitTyped DEF GatewayTypeOK
<1>8. ASSUME NEW k \in Caller, Withdraw(k) PROVE GatewayTypeOK'
  <2> DEFINE q == call[k].request
             receipts == [log EXCEPT ![q.target].content = Withdrawn]
  <2>1. Admitted(k) /\ Erasable(q) /\ q.type = "withdraw"
        /\ Commits(k, q, "applied", receipts) /\ camp' = camp
    BY <1>8 DEF Withdraw, Handled
  <2>2. q \in Request
    BY <2>1, CallUnderWay DEF Admitted
  <2>3. q.target \in Id
    BY <2>1, <2>2, TargetAssumption
  <2>4. log[q.target] \in Receipt
    BY <2>1, <2>3, Receipted DEF Erasable
  <2>5. [log[q.target] EXCEPT !.content = Withdrawn] \in Receipt
    BY <2>4 DEF Receipt, ResultContent
  <2>6. receipts \in [Id -> Receipt \cup {NoReceipt}]
    BY <2>5 DEF GatewayTypeOK
  <2>7. "applied" \in Status
    BY DEF Status
  <2> HIDE DEF receipts
  <2> QED
    BY <2>1, <2>6, <2>7, CommitTyped DEF GatewayTypeOK
<1>9. ASSUME NEW k \in Caller, Fail(k) PROVE GatewayTypeOK'
  BY <1>9, AnswersTyped DEF Fail, Handled, Admitted, GatewayTypeOK
<1>10. ASSUME NEW k \in Caller, Reply(k) PROVE GatewayTypeOK'
  BY <1>10 DEF Reply, GatewayTypeOK
<1>11. ASSUME NEW k \in Caller, Lose(k) PROVE GatewayTypeOK'
  BY <1>11 DEF Lose, GatewayTypeOK
<1>12. ASSUME NEW t \in Camp, BusinessDelete(t) PROVE GatewayTypeOK'
  BY <1>12 DEF BusinessDelete, GatewayTypeOK
<1>13. CASE UNCHANGED gatewayVars
  BY <1>13 DEF gatewayVars, GatewayTypeOK
<1> QED
  BY <1>1, <1>2, <1>3, <1>4, <1>5, <1>6, <1>7, <1>8, <1>9, <1>10, <1>11, <1>12, <1>13
  DEF GatewayNext

\* Receipts, Threads and calls keep their types.
THEOREM GatewayTypeCorrect == GatewaySpec => []GatewayTypeOK
BY InitTyped, StepTyped, PTL DEF GatewaySpec

-----------------------------------------------------------------------------
(* What callers are told. *)

\* The calls to other callers are as they were: nothing is told but the answer of this one.
LEMMA ToldOnAnswer ==
  ASSUME GatewayTypeOK, NEW k \in Caller, NEW a, Answers(k, a), answers' = answers
  PROVE  /\ Results' \subseteq Results \cup {[request |-> call[k].request, answer |-> a]}
         /\ a.status \notin Status => Results' \subseteq Results
<1> DEFINE told == [request |-> call[k].request, answer |-> a]
<1>1. call' = [call EXCEPT ![k] = [at |-> "reply", request |-> call[k].request, answer |-> a]]
  BY DEF Answers
<1>2. ASSUME NEW j \in Caller, j \in Replying', j # k
      PROVE  j \in Replying /\ call'[j] = call[j]
  BY <1>1, <1>2 DEF Replying, GatewayTypeOK
<1>3. k \in Replying' =>
         a.status \in Status /\ call'[k].request = call[k].request /\ call'[k].answer = a
  BY <1>1 DEF Replying, GatewayTypeOK
<1>4. ASSUME NEW x \in Results'
      PROVE  x \in Results \/ (x = told /\ a.status \in Status)
  <2>1. CASE x \in answers'
    BY <2>1 DEF Results
  <2>2. CASE \E j \in Replying' : x = [request |-> call'[j].request, answer |-> call'[j].answer]
    <3>1. PICK j \in Replying' : x = [request |-> call'[j].request, answer |-> call'[j].answer]
      BY <2>2
    <3>2. j \in Caller
      BY DEF Replying
    <3>3. CASE j = k
      BY <3>1, <3>3, <1>3
    <3>4. CASE j # k
      BY <3>1, <3>2, <3>4, <1>2 DEF Results
    <3> QED
      BY <3>3, <3>4
  <2> QED
    BY <2>1, <2>2 DEF Results
<1> QED
  BY <1>4

\* A step in which no caller is told more, and no receipt is touched.
LEMMA NothingTold ==
  ASSUME GatewayInv, Results' \subseteq Results, log' = log, effects' = effects
  PROVE  GatewayInv'
BY DEF GatewayInv, EffectsReceipted, ResultsFromReceipts, ResultsAgree, FromReceipt, InScope, Agree

\* The receipt of a repeated command, read before or inside the transaction, is told as it is.
LEMMA ReplayTold ==
  ASSUME GatewayTypeOK, GatewayInv, NEW k \in Caller, call[k].at \in {"lookup", "transact"},
         log[call[k].request.id] # NoReceipt, Answers(k, ReplayOrConflict(call[k].request)),
         log' = log, effects' = effects, answers' = answers
  PROVE  GatewayInv'
<1> DEFINE q == call[k].request
           told == [request |-> q, answer |-> log[q.id]]
<1>1. q \in Request
  BY CallUnderWay
<1>2. CASE ~InScope(q, log[q.id])
  <2>1. Answers(k, [status |-> "conflict"])
    BY <1>2 DEF ReplayOrConflict
  <2>2. Results' \subseteq Results
    BY <2>1, ToldOnAnswer DEF Status
  <2> QED
    BY <2>2, NothingTold
<1>3. CASE InScope(q, log[q.id])
  <2>1. Answers(k, log[q.id])
    BY <1>3 DEF ReplayOrConflict
  <2>2. Results' \subseteq Results \cup {told}
    BY <2>1, ToldOnAnswer
  <2>3. FromReceipt(told)
    BY <1>1, <1>3 DEF FromReceipt, Agree
  <2>4. ResultsFromReceipts'
    BY <2>2, <2>3 DEF GatewayInv, ResultsFromReceipts, FromReceipt, InScope, Agree
  <2>5. \A a \in Results : a.request.id = q.id => Agree(a.answer, log[q.id])
    BY DEF GatewayInv, ResultsFromReceipts, FromReceipt
  <2>6. ResultsAgree'
    <3> SUFFICES ASSUME NEW a \in Results', NEW b \in Results', a.request.id = b.request.id
                 PROVE  Agree(a.answer, b.answer)'
      BY DEF ResultsAgree, Agree
    <3>1. CASE a = told /\ b = told
      BY <3>1 DEF Agree
    <3>2. CASE a = told /\ b \in Results
      BY <3>2, <2>5 DEF Agree
    <3>3. CASE a \in Results /\ b = told
      BY <3>3, <2>5 DEF Agree
    <3>4. CASE a \in Results /\ b \in Results
      BY <3>4 DEF GatewayInv, ResultsAgree, Agree
    <3> QED
      BY <3>1, <3>2, <3>3, <3>4, <2>2
  <2> QED
    BY <2>4, <2>6 DEF GatewayInv, EffectsReceipted
<1> QED
  BY <1>2, <1>3

\* A transaction that commits writes a first receipt, and erases at most the content of others.
LEMMA CommitTold ==
  ASSUME GatewayTypeOK, GatewayInv, NEW k \in Caller, Admitted(k), NEW s \in Status,
         NEW receipts \in [Id -> Receipt \cup {NoReceipt}],
         \A c \in Id : \/ receipts[c] = log[c]
                       \/ log[c] # NoReceipt /\ receipts[c] = [log[c] EXCEPT !.content = Withdrawn],
         Commits(k, call[k].request, s, receipts)
  PROVE  GatewayInv'
<1> DEFINE q == call[k].request
           r == ReceiptOf(q, s)
           told == [request |-> q, answer |-> r]
<1>1. q \in Request /\ log[q.id] = NoReceipt
  BY CallUnderWay DEF Admitted, Repeated
<1>2. q.id \in Id
  BY <1>1, RequestAssumption DEF Envelope
<1>3. serial < MaxSerial /\ log' = [receipts EXCEPT ![q.id] = r]
      /\ effects' = (IF s = "rejected" THEN effects ELSE [effects EXCEPT ![q.id] = @ + 1])
      /\ Answers(k, r) /\ answers' = answers
  BY DEF Commits
<1>4. r \in Receipt /\ r.status = s /\ InScope(q, r)
  BY <1>1, <1>3, ReceiptTyped
<1>5. r # NoReceipt
  BY <1>2, <1>4, Receipted
<1> HIDE DEF r
<1>6. Results' \subseteq Results \cup {told}
  BY <1>3, ToldOnAnswer
<1>7. log'[q.id] = r /\ \A c \in Id : c # q.id => log'[c] = receipts[c]
  BY <1>2, <1>3
<1>8. EffectsReceipted'
  <2> SUFFICES ASSUME NEW c \in Id
               PROVE  effects'[c] <= 1 /\ (log'[c] = NoReceipt => effects'[c] = 0)
    BY DEF EffectsReceipted
  <2>1. effects[c] \in Nat /\ effects[c] <= 1 /\ (log[c] = NoReceipt => effects[c] = 0)
    BY DEF GatewayInv, EffectsReceipted, GatewayTypeOK
  <2>2. CASE c = q.id
    BY <1>1, <1>3, <1>5, <1>7, <2>1, <2>2 DEF GatewayTypeOK
  <2>3. CASE c # q.id
    <3>1. effects'[c] = effects[c]
      BY <1>3, <2>3 DEF GatewayTypeOK
    <3>2. log'[c] = NoReceipt => log[c] = NoReceipt
      BY <1>7, <2>3, Receipted DEF NoReceipt, Receipt
    <3> QED
      BY <2>1, <3>1, <3>2
  <2> QED
    BY <2>2, <2>3
<1>9. ASSUME NEW a, a = told
      PROVE  FromReceipt(a)'
  <2>1. a.request = q /\ a.answer = r
    BY <1>9
  <2> HIDE DEF q
  <2> QED
    BY <1>1, <1>4, <1>5, <1>7, <2>1 DEF FromReceipt, Agree, InScope
<1>10. ASSUME NEW a \in Results
       PROVE  a.request.id # q.id /\ FromReceipt(a)'
  <2> DEFINE c == a.request.id
  <2>1. FromReceipt(a)
    BY DEF GatewayInv, ResultsFromReceipts
  <2>2. c \in Id /\ log[c] # NoReceipt
    BY <2>1, RequestAssumption DEF FromReceipt, Envelope
  <2>3. log[c] \in Receipt
    BY <2>2, Receipted
  <2>4. c # q.id
    BY <1>1, <2>2
  <2>5. log'[c] = log[c] \/ log'[c] = [log[c] EXCEPT !.content = Withdrawn]
    BY <1>7, <2>2, <2>4
  <2>6. log'[c] # NoReceipt /\ log'[c].type = log[c].type /\ log'[c].actor = log[c].actor
        /\ log'[c].camp = log[c].camp /\ log'[c].client = log[c].client
        /\ log'[c].status = log[c].status /\ (log'[c] = log[c] \/ log'[c].content = Withdrawn)
    BY <2>2, <2>3, <2>5 DEF Receipt, NoReceipt
  <2> HIDE DEF c
  <2>7. FromReceipt(a)'
    <3>1. FromReceipt(a)' <=>
            /\ a.request \in Request /\ log'[c] # NoReceipt
            /\ log'[c].type = a.request.type /\ log'[c].actor = a.request.actor
            /\ log'[c].camp = a.request.camp
            /\ (log'[c].client = None \/ log'[c].client = a.request.client)
            /\ log'[c].status = a.answer.status
            /\ (a.answer = log'[c] \/ Withdrawn \in {a.answer.content, log'[c].content})
      BY DEF FromReceipt, InScope, Agree, c
    <3>2. FromReceipt(a) <=>
            /\ a.request \in Request /\ log[c] # NoReceipt
            /\ log[c].type = a.request.type /\ log[c].actor = a.request.actor
            /\ log[c].camp = a.request.camp
            /\ (log[c].client = None \/ log[c].client = a.request.client)
            /\ log[c].status = a.answer.status
            /\ (a.answer = log[c] \/ Withdrawn \in {a.answer.content, log[c].content})
      BY DEF FromReceipt, InScope, Agree, c
    <3> QED
      BY <2>1, <2>6, <3>1, <3>2
  <2> QED
    BY <2>4, <2>7 DEF c
<1>11. ResultsFromReceipts'
  BY <1>6, <1>9, <1>10 DEF ResultsFromReceipts
<1>12. ResultsAgree'
  <2> SUFFICES ASSUME NEW a \in Results', NEW b \in Results', a.request.id = b.request.id
               PROVE  Agree(a.answer, b.answer)'
    BY DEF ResultsAgree, Agree
  <2>1. CASE a \in Results /\ b \in Results
    BY <2>1 DEF GatewayInv, ResultsAgree, Agree
  <2>2. CASE a = told /\ b = told
    BY <2>2 DEF Agree
  <2>3. a = told => b \notin Results
    BY <1>10
  <2>4. b = told => a \notin Results
    BY <1>10
  <2> QED
    BY <1>6, <2>1, <2>2, <2>3, <2>4
<1> QED
  BY <1>8, <1>11, <1>12 DEF GatewayInv

-----------------------------------------------------------------------------
(* The invariant. *)

\* Nothing was done and nobody was told anything when the core starts for the first time.
LEMMA InitGateway == GatewayInit => GatewayInv
<1> SUFFICES ASSUME GatewayInit PROVE GatewayInv
  OBVIOUS
<1>1. Replying = {} /\ answers = {}
  BY DEF GatewayInit, Replying, NoCall
<1>2. Results = {}
  BY <1>1 DEF Results
<1> QED
  BY <1>2 DEF GatewayInit, GatewayInv, EffectsReceipted, ResultsFromReceipts, ResultsAgree

\* The transactions that write the receipt of their own command only.
LEMMA OwnReceiptTold ==
  ASSUME GatewayTypeOK, GatewayInv, NEW k \in Caller, Admitted(k), NEW s \in Status,
         Commits(k, call[k].request, s, log)
  PROVE  GatewayInv'
<1>1. log \in [Id -> Receipt \cup {NoReceipt}]
  BY DEF GatewayTypeOK
<1>2. \A c \in Id : \/ log[c] = log[c]
                    \/ log[c] # NoReceipt /\ log[c] = [log[c] EXCEPT !.content = Withdrawn]
  OBVIOUS
<1> QED
  BY <1>1, <1>2, CommitTold

\* A publication that is withdrawn loses its content, and the withdrawal gets a receipt.
LEMMA WithdrawTold ==
  ASSUME GatewayTypeOK, GatewayInv, NEW k \in Caller, Withdraw(k)
  PROVE  GatewayInv'
<1> DEFINE q == call[k].request
           receipts == [log EXCEPT ![q.target].content = Withdrawn]
<1>1. Admitted(k) /\ Erasable(q) /\ q.type = "withdraw" /\ Commits(k, q, "applied", receipts)
  BY DEF Withdraw, Handled
<1>2. q \in Request
  BY <1>1, CallUnderWay DEF Admitted
<1>3. q.target \in Id
  BY <1>1, <1>2, TargetAssumption
<1>4. log[q.target] # NoReceipt /\ log[q.target] \in Receipt
  BY <1>1, <1>3, Receipted DEF Erasable
<1>5. [log[q.target] EXCEPT !.content = Withdrawn] \in Receipt
  BY <1>4 DEF Receipt, ResultContent
<1>6. receipts \in [Id -> Receipt \cup {NoReceipt}]
  BY <1>5 DEF GatewayTypeOK
<1>7. \A c \in Id : \/ receipts[c] = log[c]
                    \/ log[c] # NoReceipt /\ receipts[c] = [log[c] EXCEPT !.content = Withdrawn]
  BY <1>3, <1>4 DEF GatewayTypeOK
<1>8. "applied" \in Status
  BY DEF Status
<1> HIDE DEF receipts
<1> QED
  BY <1>1, <1>6, <1>7, <1>8, CommitTold

\* A caller who lets go of a call is told nothing new: the result was on its way at most.
LEMMA CallEnded ==
  ASSUME GatewayTypeOK, NEW k \in Caller, call' = [call EXCEPT ![k] = NoCall],
         answers' \subseteq Results
  PROVE  Results' \subseteq Results
<1>1. \A j \in Replying' : j \in Replying /\ call'[j] = call[j]
  BY DEF Replying, GatewayTypeOK, NoCall
<1> QED
  BY <1>1 DEF Results

\* A call that begins, or goes on to its transaction, tells nobody anything.
LEMMA CallMoved ==
  ASSUME GatewayTypeOK, NEW k \in Caller, NEW c, call' = [call EXCEPT ![k] = c],
         c.at # "reply", answers' = answers
  PROVE  Results' \subseteq Results
<1>1. \A j \in Replying' : j \in Replying /\ call'[j] = call[j]
  BY DEF Replying, GatewayTypeOK
<1> QED
  BY <1>1 DEF Results

\* What callers are told agrees with the receipts, whatever the connections do.
LEMMA StepGateway == GatewayTypeOK /\ GatewayInv /\ [GatewayNext]_gatewayVars => GatewayInv'
<1> SUFFICES ASSUME GatewayTypeOK, GatewayInv, [GatewayNext]_gatewayVars PROVE GatewayInv'
  OBVIOUS
<1>1. ASSUME NEW k \in Caller, NEW q \in Request, SendCommand(k, q) PROVE GatewayInv'
  <2>1. [at |-> "lookup", request |-> q].at # "reply"
    OBVIOUS
  <2>2. Results' \subseteq Results
    BY <1>1, <2>1, CallMoved DEF SendCommand
  <2> QED
    BY <1>1, <2>2, NothingTold DEF SendCommand
<1>2. ASSUME NEW k \in Caller, Lookup(k) PROVE GatewayInv'
  <2> DEFINE q == call[k].request
  <2>1. call[k].at = "lookup" /\ log' = log /\ effects' = effects /\ answers' = answers
    BY <1>2 DEF Lookup
  <2>2. CASE Answers(k, [status |-> "failed"])
    <3>1. Results' \subseteq Results
      BY <2>1, <2>2, ToldOnAnswer DEF Status
    <3> QED
      BY <2>1, <3>1, NothingTold
  <2>3. CASE log[q.id] # NoReceipt /\ Answers(k, ReplayOrConflict(q))
    BY <2>1, <2>3, ReplayTold
  <2>4. CASE call' = [call EXCEPT ![k].at = "transact"]
    <3>1. call' = [call EXCEPT ![k] = [call[k] EXCEPT !.at = "transact"]]
      BY <2>4
    <3>2. call[k] \in Call
      BY <2>1, CallUnderWay
    <3>3. [call[k] EXCEPT !.at = "transact"].at # "reply"
      BY <3>2 DEF Call
    <3>4. Results' \subseteq Results
      BY <2>1, <3>1, <3>3, CallMoved
    <3> QED
      BY <2>1, <3>4, NothingTold
  <2> QED
    BY <1>2, <2>2, <2>3, <2>4 DEF Lookup
<1>3. ASSUME NEW k \in Caller, Replay(k) PROVE GatewayInv'
  BY <1>3, ReplayTold DEF Replay, Repeated
<1>4. ASSUME NEW k \in Caller, RefuseDeleting(k) PROVE GatewayInv'
  BY <1>4, OwnReceiptTold DEF RefuseDeleting, Status
<1>5. ASSUME NEW k \in Caller, Reject(k) PROVE GatewayInv'
  BY <1>5, OwnReceiptTold DEF Reject, Handled, Status
<1>6. ASSUME NEW k \in Caller, ApplyCommand(k) PROVE GatewayInv'
  BY <1>6, OwnReceiptTold DEF ApplyCommand, Handled, Status
<1>7. ASSUME NEW k \in Caller, AcceptDeletion(k) PROVE GatewayInv'
  BY <1>7, OwnReceiptTold DEF AcceptDeletion, Handled, Status
<1>8. ASSUME NEW k \in Caller, Withdraw(k) PROVE GatewayInv'
  BY <1>8, WithdrawTold
<1>9. ASSUME NEW k \in Caller, Fail(k) PROVE GatewayInv'
  <2>1. Results' \subseteq Results
    BY <1>9, ToldOnAnswer DEF Fail, Status
  <2> QED
    BY <1>9, <2>1, NothingTold DEF Fail
<1>10. ASSUME NEW k \in Caller, Reply(k) PROVE GatewayInv'
  <2>1. answers' \subseteq Results
    BY <1>10 DEF Reply, Results, Replying
  <2>2. Results' \subseteq Results
    BY <1>10, <2>1, CallEnded DEF Reply
  <2> QED
    BY <1>10, <2>2, NothingTold DEF Reply
<1>11. ASSUME NEW k \in Caller, Lose(k) PROVE GatewayInv'
  <2>1. answers' \subseteq Results
    BY <1>11 DEF Lose, Results
  <2>2. Results' \subseteq Results
    BY <1>11, <2>1, CallEnded DEF Lose
  <2> QED
    BY <1>11, <2>2, NothingTold DEF Lose
<1>12. ASSUME NEW t \in Camp, BusinessDelete(t) PROVE GatewayInv'
  <2>1. Results' \subseteq Results
    BY <1>12 DEF BusinessDelete, Results, Replying
  <2> QED
    BY <1>12, <2>1, NothingTold DEF BusinessDelete
<1>13. CASE UNCHANGED gatewayVars
  <2>1. Results' \subseteq Results
    BY <1>13 DEF gatewayVars, Results, Replying
  <2> QED
    BY <1>13, <2>1, NothingTold DEF gatewayVars
<1> QED
  BY <1>1, <1>2, <1>3, <1>4, <1>5, <1>6, <1>7, <1>8, <1>9, <1>10, <1>11, <1>12, <1>13
  DEF GatewayNext

\* However often a command is repeated, by whomever and over whatever losses, it changes the
\* database at most once, and all who are told its result are told the one in its receipt.
THEOREM AnsweredOnceHolds == GatewaySpec => []AnsweredOnce
<1>1. GatewayTypeOK /\ GatewayInv => AnsweredOnce
  <2> SUFFICES ASSUME GatewayTypeOK, GatewayInv PROVE AnsweredOnce
    OBVIOUS
  <2>1. answers \subseteq Results
    BY DEF Results
  <2>2. AppliedOnce
    BY DEF GatewayInv, EffectsReceipted, AppliedOnce
  <2>3. OneResult
    BY <2>1 DEF GatewayInv, ResultsAgree, OneResult, Agree
  <2>4. ResultInScope
    BY <2>1 DEF GatewayInv, ResultsFromReceipts, FromReceipt, InScope, ResultInScope
  <2> QED
    BY <2>2, <2>3, <2>4 DEF AnsweredOnce
<1> QED
  BY <1>1, InitTyped, StepTyped, InitGateway, StepGateway, PTL DEF GatewaySpec

-----------------------------------------------------------------------------
(* What a step may never do. *)

\* A commit adds a receipt where there was none.
LEMMA CommitAdds ==
  ASSUME GatewayTypeOK, NEW k \in Caller, Admitted(k), NEW s,
         NEW receipts \in [Id -> Receipt \cup {NoReceipt}],
         Commits(k, call[k].request, s, receipts)
  PROVE  /\ log[call[k].request.id] = NoReceipt
         /\ \A c \in Id : log[c] # NoReceipt => log'[c] = receipts[c]
BY DEF Admitted, Repeated, Commits, GatewayTypeOK

\* A receipt is never lost nor replaced, whatever is repeated, withdrawn or deleted: a
\* withdrawal erases the content of the publication it names, and that for good.
THEOREM ReceiptsAreKept == GatewaySpec => ReceiptsKept
<1> DEFINE Kept == \A c \in Id : log[c] # NoReceipt /\ log'[c] # log[c] =>
         /\ log[c].type = "publish" /\ log[c].status = "applied" /\ log[c].content # Withdrawn
         /\ log'[c] = [log[c] EXCEPT !.content = Withdrawn]
<1>1. GatewayTypeOK /\ [GatewayNext]_gatewayVars => [Kept]_gatewayVars
  <2> SUFFICES ASSUME GatewayTypeOK, [GatewayNext]_gatewayVars PROVE Kept
    OBVIOUS
  <2>1. log \in [Id -> Receipt \cup {NoReceipt}]
    BY DEF GatewayTypeOK
  <2>2. ASSUME log' = log PROVE Kept
    BY <2>2
  <2>3. ASSUME NEW k \in Caller, RefuseDeleting(k) PROVE Kept
    BY <2>1, <2>3, CommitAdds DEF RefuseDeleting
  <2>4. ASSUME NEW k \in Caller, Reject(k) PROVE Kept
    BY <2>1, <2>4, CommitAdds DEF Reject, Handled
  <2>5. ASSUME NEW k \in Caller, ApplyCommand(k) PROVE Kept
    BY <2>1, <2>5, CommitAdds DEF ApplyCommand, Handled
  <2>6. ASSUME NEW k \in Caller, AcceptDeletion(k) PROVE Kept
    BY <2>1, <2>6, CommitAdds DEF AcceptDeletion, Handled
  <2>7. ASSUME NEW k \in Caller, Withdraw(k) PROVE Kept
    <3> DEFINE q == call[k].request
               receipts == [log EXCEPT ![q.target].content = Withdrawn]
    <3>1. Admitted(k) /\ Erasable(q) /\ q.type = "withdraw" /\ Commits(k, q, "applied", receipts)
      BY <2>7 DEF Withdraw, Handled
    <3>2. q \in Request
      BY <3>1, CallUnderWay DEF Admitted
    <3>3. q.target \in Id
      BY <3>1, <3>2, TargetAssumption
    <3>4. log[q.target] # NoReceipt /\ log[q.target] \in Receipt
          /\ log[q.target].type = "publish" /\ log[q.target].status = "applied"
      BY <3>1, <3>3, Receipted DEF Erasable
    <3>5. [log[q.target] EXCEPT !.content = Withdrawn] \in Receipt
      BY <3>4 DEF Receipt, ResultContent
    <3>6. receipts \in [Id -> Receipt \cup {NoReceipt}]
      BY <2>1, <3>5
    <3>7. \A c \in Id : log[c] # NoReceipt => log'[c] = receipts[c]
      BY <3>1, <3>6, CommitAdds
    <3>8. \A c \in Id :
             receipts[c] = IF c = q.target THEN [log[c] EXCEPT !.content = Withdrawn] ELSE log[c]
      BY <2>1
    <3>9. log[q.target].content = Withdrawn =>
             [log[q.target] EXCEPT !.content = Withdrawn] = log[q.target]
      BY <3>4 DEF Receipt
    <3> QED
      BY <3>4, <3>7, <3>8, <3>9
  <2>8. ASSUME NEW k \in Caller, \/ Lookup(k) \/ Replay(k) \/ Fail(k) \/ Reply(k) \/ Lose(k)
                                 \/ \E q \in Request : SendCommand(k, q)
        PROVE  Kept
    BY <2>2, <2>8 DEF Lookup, Replay, Fail, Reply, Lose, SendCommand
  <2>9. ASSUME NEW t \in Camp, BusinessDelete(t) PROVE Kept
    BY <2>2, <2>9 DEF BusinessDelete
  <2>10. CASE UNCHANGED gatewayVars
    BY <2>2, <2>10 DEF gatewayVars
  <2> QED
    BY <2>3, <2>4, <2>5, <2>6, <2>7, <2>8, <2>9, <2>10 DEF GatewayNext
<1> QED
  BY <1>1, GatewayTypeCorrect, PTL DEF GatewaySpec, ReceiptsKept

\* A commit counts for its own command only, and its receipt names the Thread of the request.
LEMMA CommitCounts ==
  ASSUME GatewayTypeOK, NEW k \in Caller, Admitted(k), NEW s \in Status,
         NEW receipts \in [Id -> Receipt \cup {NoReceipt}],
         Commits(k, call[k].request, s, receipts),
         NEW c \in Id, effects'[c] # effects[c]
  PROVE  /\ s # "rejected"
         /\ log'[c].type = call[k].request.type
         /\ log'[c].camp = call[k].request.camp
<1>1. s # "rejected" /\ c = call[k].request.id
  BY DEF Commits, GatewayTypeOK
<1>2. log'[c] = ReceiptOf(call[k].request, s)
  BY <1>1 DEF Commits
<1> QED
  BY <1>1, <1>2 DEF ReceiptOf

\* Once the deletion of a Thread was accepted, no other command that names it changes the
\* database, whatever was under way on other connections when the deletion came.
THEOREM ThreadIsFrozen == GatewaySpec => ThreadFrozen
<1> DEFINE FrozenStep == \A c \in Id : effects'[c] # effects[c] =>
         log'[c].type = "delete" \/ log'[c].camp = None \/ camp[log'[c].camp] = "open"
<1>1. GatewayTypeOK /\ [GatewayNext]_gatewayVars => [FrozenStep]_gatewayVars
  <2> SUFFICES ASSUME GatewayTypeOK, [GatewayNext]_gatewayVars PROVE FrozenStep
    OBVIOUS
  <2>1. log \in [Id -> Receipt \cup {NoReceipt}]
    BY DEF GatewayTypeOK
  <2>2. ASSUME effects' = effects PROVE FrozenStep
    BY <2>2
  <2>3. ASSUME NEW k \in Caller, RefuseDeleting(k) PROVE FrozenStep
    BY <2>2, <2>3 DEF RefuseDeleting, Commits
  <2>4. ASSUME NEW k \in Caller, Reject(k) PROVE FrozenStep
    BY <2>2, <2>4 DEF Reject, Commits
  <2>5. ASSUME NEW k \in Caller, ApplyCommand(k) PROVE FrozenStep
    <3> DEFINE q == call[k].request
    <3>1. Admitted(k) /\ ~Refused(q) /\ Commits(k, q, "applied", log) /\ "applied" \in Status
          /\ q.type # "delete" /\ (q.camp # None => camp[q.camp] # "gone")
      BY <2>5 DEF ApplyCommand, Handled, Status
    <3>2. q.camp = None \/ q.camp \in Camp
      BY <3>1, CallUnderWay, RequestAssumption DEF Admitted, Envelope
    <3>3. q.camp = None \/ camp[q.camp] = "open"
      BY <3>1, <3>2 DEF Refused, GatewayTypeOK
    <3> QED
      BY <2>1, <3>1, <3>3, CommitCounts
  <2>6. ASSUME NEW k \in Caller, AcceptDeletion(k) PROVE FrozenStep
    <3>1. Admitted(k) /\ call[k].request.type = "delete"
          /\ Commits(k, call[k].request, "accepted", log) /\ "accepted" \in Status
      BY <2>6 DEF AcceptDeletion, Handled, Status
    <3> QED
      BY <2>1, <3>1, CommitCounts
  <2>7. ASSUME NEW k \in Caller, Withdraw(k) PROVE FrozenStep
    <3> DEFINE q == call[k].request
               receipts == [log EXCEPT ![q.target].content = Withdrawn]
    <3>1. Admitted(k) /\ ~Refused(q) /\ Commits(k, q, "applied", receipts) /\ "applied" \in Status
          /\ q.type = "withdraw" /\ camp[q.camp] # "gone" /\ Erasable(q)
      BY <2>7 DEF Withdraw, Handled, Status
    <3>2. q \in Request
      BY <3>1, CallUnderWay DEF Admitted
    <3>3. q.camp \in Camp /\ q.target \in Id /\ q.camp # None
      BY <3>1, <3>2, RequestAssumption, ScopeAssumption, TargetAssumption DEF Envelope
    <3>4. camp[q.camp] = "open"
      BY <3>1, <3>3 DEF Refused, GatewayTypeOK
    <3>5. [log[q.target] EXCEPT !.content = Withdrawn] \in Receipt
      BY <3>1, <3>3, Receipted DEF Erasable, Receipt, ResultContent
    <3>6. receipts \in [Id -> Receipt \cup {NoReceipt}]
      BY <2>1, <3>5
    <3> QED
      BY <3>1, <3>4, <3>6, CommitCounts
  <2>8. ASSUME NEW k \in Caller, \/ Lookup(k) \/ Replay(k) \/ Fail(k) \/ Reply(k) \/ Lose(k)
                                 \/ \E q \in Request : SendCommand(k, q)
        PROVE  FrozenStep
    BY <2>2, <2>8 DEF Lookup, Replay, Fail, Reply, Lose, SendCommand
  <2>9. ASSUME NEW t \in Camp, BusinessDelete(t) PROVE FrozenStep
    BY <2>2, <2>9 DEF BusinessDelete
  <2>10. CASE UNCHANGED gatewayVars
    BY <2>2, <2>10 DEF gatewayVars
  <2> QED
    BY <2>3, <2>4, <2>5, <2>6, <2>7, <2>8, <2>9, <2>10 DEF GatewayNext
<1> QED
  BY <1>1, GatewayTypeCorrect, PTL DEF GatewaySpec, ThreadFrozen

------------------------------------------------------------------------------

(***************************************************************************)
(* ExecutionConsole, for any runs, bounds and faults.                      *)
(*                                                                         *)
(* A tick treats the view of each run by itself: the console row and its   *)
(* outbox rows. What must hold of a view (ViewInv) is stated of a run and  *)
(* a view, so that every step of a tick is one lemma about views; then the *)
(* claims the Host has in hand are related to the rows, and the cards of   *)
(* the chat to both.                                                       *)
(*                                                                         *)
(* Two kinds of faults are told apart. After a stray fault the Host and    *)
(* the outbox may disagree about what is under way; only in their absence  *)
(* does every claim have its row and every row its claim. A call that took *)
(* effect without an answer leaves claims and rows alone but adds cards    *)
(* nobody knows.                                                           *)
(***************************************************************************)

(***************************************************************************)
(* Types.                                                                  *)
(***************************************************************************)
RunStatus == {"queued", "running", "ended"}
Tag == Nat \cup Run
ConsoleRec == [state : Live \cup Frozen \cup {"none"}, latest : Nat, delivered : Nat, ext : Nat,
               digest : RunStatus \X Nat, snap : Content, failure : BOOLEAN]
RowRec(r) == [run : {r}, kind : {"upsert", "recall"}, tag : Tag, expected : Nat,
              status : {"pending", "attempting"} \cup Ended, attempts : Nat, ripe : BOOLEAN,
              owner : Nat]
ViewRec(r) == [c : ConsoleRec, rows : SUBSET RowRec(r), quiet : BOOLEAN]
ClaimRec == [run : Run, kind : {"upsert", "recall"}, tag : Tag, expected : Nat, upd : Nat]
HostRec == [worker : Nat, batch : SUBSET ClaimRec, cur : ClaimRec \cup {NoClaim},
            pc : {"idle", "send", "settle"}, shown : Content,
            outcome : {"none", "sent", "retry", "failed"}, id : Nat]

\* What TypeOK says, in the form the steps need.
Typed ==
    /\ run \in [Run -> RunStatus] /\ start \in [Run -> 0 .. Cardinality(Run)]
    /\ rev \in [Run -> Nat] /\ text \in [Run -> {"settled", "streaming"}]
    /\ console \in [Run -> ConsoleRec] /\ quiet \in [Run -> BOOLEAN]
    /\ rows \subseteq UNION {RowRec(r) : r \in Run}
    /\ host \in HostRec /\ chat \in [Run -> Seq(Content)]
    /\ faults \in Seq(Fault) /\ Len(faults) <= MaxFaults
    /\ \A r \in Run : run[r] = "queued" => start[r] = 0
    /\ host.pc = "idle" => host.cur = NoClaim
    /\ host.pc # "idle" => host.cur \in ClaimRec
    /\ host.pc = "settle" => host.outcome # "none"

(***************************************************************************)
(* A view: a console row c and its outbox rows D.                          *)
(***************************************************************************)
IsOpen(d) == d.status \in {"pending", "attempting"}

\* Dedupe keys are unique.
Keyed(D) == \A d, e \in D : d.kind = e.kind /\ d.tag = e.tag => d = e

\* No update is ahead of its console; the sequence it was queued for is its key.
Behind(c, D) ==
    \A d \in D : d.kind = "upsert" =>
        /\ d.tag \in Nat /\ d.tag <= c.latest
        /\ IsOpen(d) => d.tag <= d.expected /\ d.expected <= c.latest

\* The update that is open is the newest one, hence the only one.
Newest(D) ==
    \A d, e \in D : d.kind = "upsert" /\ e.kind = "upsert" /\ IsOpen(d) /\ e # d => e.tag < d.tag

\* There are recalls only of consoles that are being recalled; one is open at a time, and no
\* update beside the one that is in flight.
Recalls(c, D) ==
    /\ \A d \in D : d.kind = "recall" =>
        /\ c.state \in RecallStates
        /\ IsOpen(d) => c.state = "recall_pending"
        /\ d.status = "attempting" => Open(D, "upsert") = {}
    /\ \A d, e \in D : d.kind = "recall" /\ e.kind = "recall" /\ IsOpen(d) /\ IsOpen(e) => d = e

\* Nothing is under way for a console that counts as recalled.
Recalled(c, D) == c.state = "recalled" => Open(D, "upsert") = {}

\* A sealed console is carried, unless its first update was lost.
Sealed(c, D, lost) ==
    c.state = "terminal_sealed" =>
        \/ c.delivered = c.latest \/ c.failure \/ Open(D, "upsert") # {}
        \/ c.ext = 0 /\ lost

\* In the absence of stray faults what is open for a sealed console is its seal.
SealQueued(c, D, lost) ==
    ~lost /\ c.state = "terminal_sealed" => \A d \in Open(D, "upsert") : d.expected = c.latest

ViewInv(c, D, lost) ==
    /\ c.delivered <= c.latest
    /\ Keyed(D) /\ Behind(c, D) /\ Newest(D) /\ Recalls(c, D) /\ Recalled(c, D)
    /\ Sealed(c, D, lost) /\ SealQueued(c, D, lost)

\* The faults after which a claim may have no row or a row no claim; with the tick of another
\* Host, those after which a seal may meet an update in flight; and those after which cards may
\* be in the chat that nobody knows.
Stray == {"crash", "dropped", "slow"}
Disturbed == Stray \cup {"other"}
Blurred == Stray \cup {"unclear"}

ViewsInv == \A r \in Run : ViewInv(console[r], RowsOf(r), Suffered(Disturbed))

(***************************************************************************)
(* The claims in the hand of the Host.                                     *)
(***************************************************************************)
Hand == host.batch \cup (IF host.pc = "idle" THEN {} ELSE {host.cur})
SameKey(a, b) == a.run = b.run /\ a.kind = b.kind /\ a.tag = b.tag

\* A claim names a card of the chat and is not ahead of its console; that of a recall is of a
\* console that is being recalled.
ClaimsKnown ==
    \A a \in Hand : /\ a.upd <= Len(chat[a.run])
                    /\ a.kind = "upsert" => a.expected <= console[a.run].latest
                    /\ a.kind = "recall" => console[a.run].state \in RecallStates

\* A claim whose row is still that of this worker says what the row and its console say.
ClaimsAgree ==
    \A a \in Hand : \A d \in rows :
        IsFor(a, d) /\ Owned(d) =>
            a.expected = d.expected /\ a.upd = console[a.run].ext

\* A row is claimed once.
ClaimsKeyed ==
    /\ \A a, b \in host.batch : SameKey(a, b) => a = b
    /\ host.pc # "idle" => \A a \in host.batch : ~SameKey(a, host.cur)

\* Without stray faults, what is in flight is in the hand of the Host and what is in its hand
\* is in flight.
HandExact ==
    ~Suffered(Stray) =>
        /\ \A d \in rows : d.status = "attempting" => /\ ~d.ripe /\ d.owner = host.worker
                                                      /\ \E a \in Hand : IsFor(a, d)
        /\ \A a \in Hand : \E d \in rows : IsFor(a, d) /\ Owned(d)

HandInv == ClaimsKnown /\ ClaimsAgree /\ ClaimsKeyed /\ HandExact

(***************************************************************************)
(* The cards of the chat.                                                  *)
(***************************************************************************)
CurConsole == console[host.cur.run]
Updating == host.cur.kind = "upsert"

\* What is about to be sent: the seal, if nothing newer was sealed or delivered meanwhile.
SendInv ==
    host.pc = "send" /\ Updating =>
        /\ CurConsole.delivered <= host.cur.expected
        /\ CurConsole.state = "terminal_sealed" /\ host.cur.expected = CurConsole.latest
             => host.shown = CurConsole.snap

\* What was sent: the card that was named, or a new one; and it shows the seal.
SentInv ==
    host.pc = "settle" =>
        /\ host.id <= Len(chat[host.cur.run])
        /\ host.outcome = "sent" /\ Updating =>
             /\ host.cur.upd # 0 => host.id = host.cur.upd
             /\ host.id # 0 /\ CurConsole.state = "terminal_sealed"
                  /\ host.cur.expected = CurConsole.latest
                  => chat[host.cur.run][host.id] = CurConsole.snap
             /\ host.id = 0 /\ CurConsole.state = "terminal_sealed" => Suffered(Disturbed)

\* The first card was sent and its settlement is under way.
FirstSent(r) ==
    /\ host.pc = "settle" /\ host.outcome = "sent" /\ host.id = 1
    /\ host.cur.run = r /\ Updating

AllGone(r) == \A i \in 1 .. Len(chat[r]) : chat[r][i] = Gone

\* Unless a call was blurred, a console has one card, which it knows or is about to know, and a
\* recalled console has none.
ChatInv ==
    ~Suffered(Blurred) =>
        /\ \A r \in Run : /\ Len(chat[r]) <= 1
                          /\ console[r].ext = 0 => Len(chat[r]) = 0 \/ FirstSent(r)
                          /\ console[r].state = "recalled" => AllGone(r)
        /\ host.pc = "settle" /\ host.outcome = "sent" /\ host.cur.kind = "recall"
             => AllGone(host.cur.run)

ExtInv == \A r \in Run : console[r].ext <= Len(chat[r])

CardsInv == ExtInv /\ SendInv /\ SentInv /\ ChatInv /\ DeliveredIsShown

ConsoleInv == Typed /\ ViewsInv /\ HandInv /\ CardsInv

-------------------------------------------------------------------------------
(***************************************************************************)
(* Runs, faults and rows.                                                  *)
(***************************************************************************)

\* A run that no other started after exists: the successor reconcile_superseded chooses.
LEMMA LatestStarted ==
  ASSUME start \in [Run -> 0 .. Cardinality(Run)], Run # {}
  PROVE  (CHOOSE s \in Run : \A t \in Run : start[s] >= start[t]) \in Run
<1> DEFINE After(s) == {t \in Run : start[t] > start[s]}
           T == {After(s) : s \in Run}
<1>1. T \subseteq FiniteSubsetsOf(Run) /\ T # {}
  <2>1. FiniteSubsetsOf(Run) = SUBSET Run
    BY ConsoleAssumption, FS_FiniteSubsetsOfFinite
  <2>2. \A s \in Run : After(s) \in SUBSET Run
    BY Zenon
  <2>3. T # {}
    <3> HIDE DEF After
    <3> QED
      OBVIOUS
  <2>4. \A A \in T : A \in SUBSET Run
    <3> HIDE DEF After
    <3> QED
      BY <2>2
  <2> HIDE DEF T
  <2> QED
    BY <2>1, <2>4, <2>3
<1>2. \E A \in T : \A B \in T : ~ (<<B, A>> \in StrictSubsetOrdering(Run))
  BY <1>1, FS_StrictSubsetOrderingWellFounded, WFMin
<1>3. PICK s \in Run : \A B \in T : ~ (<<B, After(s)>> \in StrictSubsetOrdering(Run))
  BY <1>2
<1>4. \A u \in Run : start[u] \in Int
  BY ConsoleAssumption, FS_CardinalityType
<1>5. \A t \in Run : start[s] >= start[t]
  <2> SUFFICES ASSUME NEW t \in Run, ~ (start[s] >= start[t])
               PROVE  FALSE
    OBVIOUS
  <2>1. After(t) \subseteq After(s) /\ t \in After(s) /\ t \notin After(t)
    BY <1>4
  <2>2. <<After(t), After(s)>> \in StrictSubsetOrdering(Run)
    BY <2>1 DEF StrictSubsetOrdering
  <2> QED
    BY <2>2, <1>3
<1> QED
  BY <1>5

\* A fault is added to those before it.
LEMMA FaultAdded ==
  ASSUME faults \in Seq(Fault), NEW f, Suffer(f), NEW kinds
  PROVE  /\ faults' \in Seq(Fault) /\ Len(faults') <= MaxFaults
         /\ Suffered(kinds)' <=> Suffered(kinds) \/ f \in kinds
<1>1. f \in Fault /\ faults' = Append(faults, f) /\ Len(faults) < MaxFaults /\ MaxFaults \in Nat
  BY ConsoleAssumption DEF Suffer
<1>2. /\ faults' \in Seq(Fault) /\ Len(faults') = Len(faults) + 1 /\ Len(faults) \in Nat
      /\ \A i \in 1 .. Len(faults) : faults'[i] = faults[i]
      /\ faults'[Len(faults) + 1] = f
  BY <1>1, AppendProperties, LenProperties
<1>3. Suffered(kinds)' <=> \E i \in 1 .. Len(faults') : faults'[i] \in kinds
  BY DEF Suffered
<1>4. \A i : i \in 1 .. Len(faults') <=> i \in 1 .. Len(faults) \/ i = Len(faults) + 1
  BY <1>2
<1>5. Suffered(kinds)' <=> Suffered(kinds) \/ f \in kinds
  BY <1>2, <1>3, <1>4 DEF Suffered
<1> QED
  BY <1>1, <1>2, <1>5

\* Without a fault nothing is suffered anew.
LEMMA FaultsSame ==
  ASSUME UNCHANGED faults, NEW kinds
  PROVE  Suffered(kinds)' <=> Suffered(kinds)
BY DEF Suffered

\* A stray fault is one that disturbs and one that blurs.
LEMMA StrayDisturbs ==
  Suffered(Stray) => Suffered(Disturbed) /\ Suffered(Blurred)
BY DEF Suffered, Stray, Disturbed, Blurred

\* The rows of a run are those of its records.
LEMMA RowsTyped ==
  ASSUME Typed, NEW r \in Run
  PROVE  /\ RowsOf(r) \subseteq RowRec(r)
         /\ \A d : d \in RowsOf(r) <=> d \in rows /\ d.run = r
         /\ \A d \in rows : d.run \in Run /\ d \in RowsOf(d.run) /\ d \in RowRec(d.run)
BY DEF Typed, RowsOf, RowRec

\* The view of a run.
LEMMA ViewTyped ==
  ASSUME Typed, NEW r \in Run
  PROVE  /\ View(r) \in ViewRec(r)
         /\ View(r).c = console[r] /\ View(r).rows = RowsOf(r) /\ View(r).quiet = quiet[r]
BY RowsTyped DEF View, ViewRec, Typed

\* Rows that keep their keys, and are open only if they were, keep the order of the updates.
LEMMA Relabelled ==
  ASSUME NEW r \in Run, NEW D, D \subseteq RowRec(r), NEW g \in [D -> RowRec(r)],
         \A d \in D : /\ g[d].kind = d.kind /\ g[d].tag = d.tag
                      /\ IsOpen(g[d]) => IsOpen(d),
         NEW E, E = {g[d] : d \in D}
  PROVE  /\ E \subseteq RowRec(r)
         /\ Keyed(D) => Keyed(E)
         /\ Newest(D) => Newest(E)
         /\ \A kind \in {"upsert", "recall"} : Open(D, kind) = {} => Open(E, kind) = {}
<1>1. E \subseteq RowRec(r)
  OBVIOUS
<1>2. Keyed(D) => Keyed(E)
  BY DEF Keyed
<1>3. Newest(D) => Newest(E)
  BY DEF Newest
<1>4. \A kind \in {"upsert", "recall"} : Open(D, kind) = {} => Open(E, kind) = {}
  BY DEF Open, IsOpen
<1> QED
  BY <1>1, <1>2, <1>3, <1>4

-------------------------------------------------------------------------------
(***************************************************************************)
(* The steps of a tick, each as a step of a view.                          *)
(***************************************************************************)

\* Rows that are in one set or the other as long as they are recalls, or in flight.
SameRecalls(D, E) == /\ \A d \in D : d.kind = "recall" => d \in E
                     /\ \A d \in E : d.kind = "recall" => d \in D
SameFlight(D, E) == /\ \A d \in D : d.status = "attempting" => d \in E
                    /\ \A d \in E : d.status = "attempting" => d \in D

\* queue_execution_console_upsert: one update is open, for this sequence if it is not in flight.
LEMMA UpdateQueued ==
  ASSUME NEW r \in Run, NEW c \in ConsoleRec, NEW D, D \subseteq RowRec(r),
         Keyed(D), Behind(c, D), Newest(D), NEW seq \in Nat, c.latest <= seq,
         NEW E, E = QueueUpsert(D, r, seq)
  PROVE  /\ E \subseteq RowRec(r) /\ Keyed(E) /\ Newest(E)
         /\ Behind([c EXCEPT !.latest = seq], E)
         /\ SameRecalls(D, E) /\ SameFlight(D, E)
         /\ (\A d \in D : d.kind = "upsert" => d.tag # seq) => Open(E, "upsert") # {}
         /\ (\A d \in D : d.kind = "upsert" => d.status # "attempting")
              => \A d \in Open(E, "upsert") : d.expected = seq
<1> DEFINE P == Pending(D, "upsert")
           c2 == [c EXCEPT !.latest = seq]
<1>1. c2.latest = seq
  BY DEF ConsoleRec
<1> HIDE DEF c2
<1>2. CASE P # {}
  <2> DEFINE g == [d \in D |-> IF d \in P THEN [d EXCEPT !.expected = seq] ELSE d]
  <2>1. E = {g[d] : d \in D}
    BY <1>2, Zenon DEF QueueUpsert
  <2>2. \A d \in D : /\ g[d] \in RowRec(r) /\ g[d].run = d.run /\ g[d].kind = d.kind
                     /\ g[d].tag = d.tag /\ g[d].status = d.status
                     /\ d \in P => g[d].expected = seq
                     /\ d \notin P => g[d] = d
    BY DEF RowRec
  <2>3. \A d \in D : d \in P <=> d.kind = "upsert" /\ d.status = "pending"
    BY DEF Pending, Open
  <2> HIDE DEF P
  <2>4. g \in [D -> RowRec(r)]
    BY <2>2
  <2> HIDE DEF g
  <2>5. E \subseteq RowRec(r) /\ Keyed(E) /\ Newest(E)
    BY <2>1, <2>2, <2>4, Relabelled DEF IsOpen
  <2>6. Behind(c2, E)
    BY <2>1, <2>2, <2>3, <1>1 DEF Behind, IsOpen, RowRec, ConsoleRec
  <2>7. SameRecalls(D, E) /\ SameFlight(D, E)
    BY <2>1, <2>2, <2>3 DEF SameRecalls, SameFlight
  <2>8. Open(E, "upsert") # {}
    <3>1. PICK p \in D : p \in P
      BY <1>2, <2>3 DEF P, Pending, Open
    <3>2. g[p] \in E /\ g[p].kind = "upsert" /\ g[p].status = "pending"
      BY <3>1, <2>1, <2>2, <2>3
    <3> QED
      BY <3>2 DEF Open
  <2>9. ASSUME \A d \in D : d.kind = "upsert" => d.status # "attempting",
               NEW d \in Open(E, "upsert")
        PROVE  d.expected = seq
    BY <2>9, <2>1, <2>2, <2>3 DEF Open
  <2> QED
    BY <2>5, <2>6, <2>7, <2>8, <2>9 DEF c2
<1>3. CASE P = {} /\ Open(D, "upsert") # {}
  <2>1. E = D
    BY <1>3 DEF QueueUpsert
  <2>2. Behind(c2, E)
    BY <2>1, <1>1 DEF Behind, ConsoleRec, RowRec
  <2>3. ASSUME \A d \in D : d.kind = "upsert" => d.status # "attempting"
        PROVE  FALSE
    BY <2>3, <1>3 DEF Pending, Open
  <2> QED
    BY <2>1, <2>2, <2>3, <1>3 DEF SameRecalls, SameFlight, c2
<1>4. CASE P = {} /\ Open(D, "upsert") = {}
  <2>1. \A d \in D : d.kind = "upsert" => ~IsOpen(d)
    BY <1>4 DEF Open, IsOpen
  <2>2. CASE \E d \in D : d.kind = "upsert" /\ d.tag = seq
    <3>1. E = D
      BY <1>4, <2>2 DEF QueueUpsert, Insert
    <3>2. Behind(c2, E)
      BY <3>1, <1>1 DEF Behind, ConsoleRec, RowRec
    <3> QED
      BY <3>1, <3>2, <2>2, <1>4 DEF SameRecalls, SameFlight, c2
  <2>3. CASE ~ \E d \in D : d.kind = "upsert" /\ d.tag = seq
    <3> DEFINE n == [run |-> r, kind |-> "upsert", tag |-> seq, expected |-> seq,
                     status |-> "pending", attempts |-> 0, ripe |-> TRUE, owner |-> 0]
    <3>1. E = D \cup {n}
      BY <1>4, <2>3, Zenon DEF QueueUpsert, Insert
    <3>2. n \in RowRec(r) /\ n.kind = "upsert" /\ n.tag = seq /\ n.expected = seq
             /\ n.status = "pending"
      BY DEF RowRec, Tag
    <3> HIDE DEF n
    <3>3. \A d \in D : d.kind = "upsert" => d.tag \in Nat /\ d.tag < seq
      BY <2>3 DEF Behind, ConsoleRec
    <3>4. E \subseteq RowRec(r) /\ Keyed(E) /\ Newest(E)
      BY <3>1, <3>2, <3>3, <2>1, <2>3 DEF Keyed, Newest, IsOpen
    <3>5. Behind(c2, E)
      BY <3>1, <3>2, <2>1, <1>1 DEF Behind, ConsoleRec, RowRec, IsOpen
    <3>6. SameRecalls(D, E) /\ SameFlight(D, E)
      BY <3>1, <3>2 DEF SameRecalls, SameFlight
    <3>7. Open(E, "upsert") # {} /\ \A d \in Open(E, "upsert") : d.expected = seq
      BY <3>1, <3>2, <2>1 DEF Open, IsOpen
    <3> QED
      BY <3>4, <3>5, <3>6, <3>7 DEF c2
  <2> QED
    BY <2>2, <2>3
<1> QED
  BY <1>2, <1>3, <1>4

\* A console that moves to a new sequence keeps its card and what was delivered.
Moves(c, e) ==
    /\ e.ext = c.ext /\ e.delivered = c.delivered
    /\ e = c \/ (e.latest > c.latest /\ c.state \notin RecallStates /\ e.state \notin RecallStates)

\* No update is in flight.
NoneInFlight(D) == \A d \in D : d.kind = "upsert" => d.status # "attempting"

\* What a new sequence changes of the console.
LEMMA AdvanceIs ==
  ASSUME Typed, NEW r \in Run, NEW v \in ViewRec(r), NEW status \in RunStatus,
         NEW state \in Live \cup {"terminal_sealed"}, NEW queued \in BOOLEAN,
         NEW w, w = Advance(r, status, v, state, queued)
  PROVE  /\ w.c \in ConsoleRec /\ ~w.quiet
         /\ w.c.state = state /\ w.c.latest = v.c.latest + 1 /\ w.c.delivered = v.c.delivered
         /\ w.c.ext = v.c.ext /\ w.c.failure = v.c.failure
         /\ queued => w.rows = QueueUpsert(v.rows, r, v.c.latest + 1)
         /\ ~queued => w.rows = v.rows
         /\ w.rows \subseteq RowRec(r) => w \in ViewRec(r)
<1>1. v.c \in ConsoleRec
  BY DEF ViewRec
<1>2. Snapshot(r) \in Content
  BY DEF Snapshot, Content, Typed
<1>3. Digest(r, status) \in RunStatus \X Nat
  BY DEF Digest, Typed
<1> DEFINE e == [v.c EXCEPT !.state = state, !.latest = v.c.latest + 1,
                            !.digest = Digest(r, status),
                            !.snap = IF state = "terminal_sealed" THEN Snapshot(r) ELSE @]
<1>4. w = [c |-> e, rows |-> IF queued THEN QueueUpsert(v.rows, r, v.c.latest + 1) ELSE v.rows,
           quiet |-> FALSE]
  BY Zenon DEF Advance
<1>5. state \in Live \cup Frozen \cup {"none"}
  BY DEF Frozen
<1>6. (IF state = "terminal_sealed" THEN Snapshot(r) ELSE v.c.snap) \in Content
  BY <1>1, <1>2 DEF ConsoleRec
<1> DEFINE e1 == [v.c EXCEPT !.state = state]
           e2 == [e1 EXCEPT !.latest = v.c.latest + 1]
           e3 == [e2 EXCEPT !.digest = Digest(r, status)]
<1>7. e = [e3 EXCEPT !.snap = IF state = "terminal_sealed" THEN Snapshot(r) ELSE v.c.snap]
  BY <1>1 DEF ConsoleRec
<1>8. /\ e1 \in ConsoleRec /\ e1.state = state /\ e1.delivered = v.c.delivered
      /\ e1.ext = v.c.ext /\ e1.failure = v.c.failure
  BY <1>1, <1>5 DEF ConsoleRec
<1> HIDE DEF e1
<1>9. /\ e2 \in ConsoleRec /\ e2.state = state /\ e2.latest = v.c.latest + 1
       /\ e2.delivered = v.c.delivered /\ e2.ext = v.c.ext /\ e2.failure = v.c.failure
  BY <1>1, <1>8 DEF ConsoleRec
<1> HIDE DEF e2
<1>10. /\ e3 \in ConsoleRec /\ e3.state = state /\ e3.latest = v.c.latest + 1
       /\ e3.delivered = v.c.delivered /\ e3.ext = v.c.ext /\ e3.failure = v.c.failure
  BY <1>3, <1>9 DEF ConsoleRec
<1> HIDE DEF e3, e
<1>11. /\ e \in ConsoleRec /\ e.state = state /\ e.latest = v.c.latest + 1
      /\ e.delivered = v.c.delivered /\ e.ext = v.c.ext /\ e.failure = v.c.failure
  BY <1>6, <1>7, <1>10 DEF ConsoleRec
<1> QED
  BY <1>4, <1>11 DEF ViewRec

SealsAs(c, state) == c.state = "terminal_sealed" => state = "terminal_sealed"

\* A seal has its update, and meets none in flight unless another Host ticks.
SealFree(v, state, queued, lost) ==
    state = "terminal_sealed" => queued /\ (lost \/ NoneInFlight(v.rows))

\* A console that is not frozen moves to a new sequence: no recall is about, and a seal carries
\* its update with it.
LEMMA AdvanceKeeps ==
  ASSUME Typed, NEW r \in Run, NEW v \in ViewRec(r), NEW lost \in BOOLEAN,
         ViewInv(v.c, v.rows, lost), v.c.state \notin Frozen,
         NEW status \in RunStatus, NEW state \in Live \cup {"terminal_sealed"},
         NEW queued \in BOOLEAN,
         SealFree(v, state, queued, lost),
         NEW w, w = Advance(r, status, v, state, queued)
  PROVE  /\ w \in ViewRec(r) /\ ViewInv(w.c, w.rows, lost)
         /\ Moves(v.c, w.c) /\ SameFlight(v.rows, w.rows)
         /\ SealsAs(w.c, state)
<1> DEFINE seq == v.c.latest + 1
<1>1. v.c \in ConsoleRec /\ v.rows \subseteq RowRec(r)
  BY DEF ViewRec
<1>2. seq \in Nat /\ v.c.latest \in Nat /\ v.c.latest < seq
  BY <1>1 DEF ConsoleRec
<1>3. /\ w.c \in ConsoleRec /\ ~w.quiet
      /\ w.c.state = state /\ w.c.latest = seq /\ w.c.delivered = v.c.delivered
      /\ w.c.ext = v.c.ext /\ w.c.failure = v.c.failure
      /\ queued => w.rows = QueueUpsert(v.rows, r, seq)
      /\ ~queued => w.rows = v.rows
      /\ w.rows \subseteq RowRec(r) => w \in ViewRec(r)
  <2>1. /\ w.c \in ConsoleRec /\ ~w.quiet
        /\ w.c.state = state /\ w.c.latest = v.c.latest + 1
        /\ w.c.delivered = v.c.delivered
        /\ w.c.ext = v.c.ext /\ w.c.failure = v.c.failure
        /\ queued => w.rows = QueueUpsert(v.rows, r, v.c.latest + 1)
        /\ ~queued => w.rows = v.rows
        /\ w.rows \subseteq RowRec(r) => w \in ViewRec(r)
    BY AdvanceIs
  <2> QED
    BY <2>1
<1>4. Keyed(v.rows) /\ Behind(v.c, v.rows) /\ Newest(v.rows)
  BY DEF ViewInv
<1>5. \A d \in v.rows : d.kind # "recall"
  BY DEF ViewInv, Recalls, Frozen, RecallStates
<1>6. /\ w.rows \subseteq RowRec(r) /\ Keyed(w.rows) /\ Newest(w.rows)
      /\ Behind(w.c, w.rows) /\ SameRecalls(v.rows, w.rows) /\ SameFlight(v.rows, w.rows)
      /\ queued => Open(w.rows, "upsert") # {}
      /\ queued /\ NoneInFlight(v.rows) => \A d \in Open(w.rows, "upsert") : d.expected = seq
  <2>1. CASE queued
    <3> DEFINE c2 == [v.c EXCEPT !.latest = seq]
    <3>1. c2.latest = w.c.latest
      BY <1>1, <1>3 DEF ConsoleRec
    <3>2. \A d \in v.rows : d.kind = "upsert" => d.tag # seq
      BY <1>2, <1>4 DEF Behind
    <3>3. /\ w.rows \subseteq RowRec(r) /\ Keyed(w.rows) /\ Newest(w.rows)
          /\ Behind(c2, w.rows)
          /\ SameRecalls(v.rows, w.rows) /\ SameFlight(v.rows, w.rows)
          /\ Open(w.rows, "upsert") # {}
          /\ NoneInFlight(v.rows) => \A d \in Open(w.rows, "upsert") : d.expected = seq
      <4>1. w.rows = QueueUpsert(v.rows, r, seq)
        BY <2>1, <1>3
      <4>2. v.c.latest <= seq
        BY <1>2
      <4> HIDE DEF seq
      <4> QED
        BY <4>1, <4>2, <1>1, <1>2, <1>4, <3>2, UpdateQueued DEF NoneInFlight
    <3> HIDE DEF c2
    <3>4. Behind(w.c, w.rows)
      BY <3>1, <3>3 DEF Behind
    <3> QED
      BY <3>3, <3>4, <2>1
  <2>2. CASE ~queued
    <3>1. w.rows = v.rows
      BY <2>2, <1>3
    <3>2. Behind(w.c, w.rows)
      <4>1. \A d \in v.rows : d.expected \in Nat
        BY <1>1 DEF RowRec
      <4> QED
        BY <3>1, <4>1, <1>2, <1>3, <1>4 DEF Behind
    <3> QED
      BY <3>1, <3>2, <1>1, <1>4, <2>2 DEF SameRecalls, SameFlight
  <2> QED
    BY <2>1, <2>2
<1>7. state \notin RecallStates /\ v.c.state \notin RecallStates
  BY DEF Live, RecallStates, Frozen
<1>8. Recalls(w.c, w.rows) /\ Recalled(w.c, w.rows)
  BY <1>3, <1>5, <1>6, <1>7 DEF Recalls, SameRecalls, Recalled, RecallStates
<1>9. Sealed(w.c, w.rows, lost) /\ SealQueued(w.c, w.rows, lost)
  BY <1>3, <1>6 DEF Sealed, SealQueued, SealFree
<1>10. w.c.delivered <= w.c.latest
  BY <1>1, <1>2, <1>3 DEF ViewInv, ConsoleRec
<1>11. Moves(v.c, w.c)
  BY <1>2, <1>3, <1>7 DEF Moves
<1>12. w \in ViewRec(r)
  BY <1>3, <1>6
<1> QED
  BY <1>3, <1>6, <1>8, <1>9, <1>10, <1>11, <1>12 DEF ViewInv, SealsAs

\* materialize_execution_console. It seals only with the quiet window over, and when nothing is
\* in flight, unless another Host ticks.
LEMMA MaterializeKeeps ==
  ASSUME Typed, NEW r \in Run, NEW v \in ViewRec(r), NEW lost \in BOOLEAN,
         ViewInv(v.c, v.rows, lost), NEW status \in RunStatus,
         lost \/ ~v.quiet \/ NoneInFlight(v.rows),
         NEW w, w = Materialize(r, status, v)
  PROVE  /\ w \in ViewRec(r) /\ ViewInv(w.c, w.rows, lost)
         /\ Moves(v.c, w.c) /\ SameFlight(v.rows, w.rows)
         /\ w.c = v.c \/ w.c.state # "terminal_sealed" \/ v.quiet
<1>1. CASE w = v
  BY <1>1 DEF Moves, SameFlight
<1>2. CASE v.c.state \notin Frozen /\ w = Advance(r, status, v, "terminal_pending", FALSE)
  <2>1. /\ SealFree(v, "terminal_pending", FALSE, lost)
        /\ "terminal_pending" \in Live \cup {"terminal_sealed"}
    BY DEF SealFree, Live
  <2>2. /\ w \in ViewRec(r) /\ ViewInv(w.c, w.rows, lost)
        /\ Moves(v.c, w.c) /\ SameFlight(v.rows, w.rows) /\ SealsAs(w.c, "terminal_pending")
    BY <1>2, <2>1, AdvanceKeeps
  <2> QED
    BY <1>2, <2>2 DEF SealsAs
<1>3. CASE v.c.state \notin Frozen /\ w = Advance(r, status, v, "opening", TRUE)
  <2>1. SealFree(v, "opening", TRUE, lost) /\ "opening" \in Live \cup {"terminal_sealed"}
    BY DEF SealFree, Live
  <2>2. /\ w \in ViewRec(r) /\ ViewInv(w.c, w.rows, lost)
        /\ Moves(v.c, w.c) /\ SameFlight(v.rows, w.rows) /\ SealsAs(w.c, "opening")
    BY <1>3, <2>1, AdvanceKeeps
  <2> QED
    BY <1>3, <2>2 DEF SealsAs
<1>4. CASE v.c.state \notin Frozen /\ w = Advance(r, status, v, "active", TRUE)
  <2>1. SealFree(v, "active", TRUE, lost) /\ "active" \in Live \cup {"terminal_sealed"}
    BY DEF SealFree, Live
  <2>2. /\ w \in ViewRec(r) /\ ViewInv(w.c, w.rows, lost)
        /\ Moves(v.c, w.c) /\ SameFlight(v.rows, w.rows) /\ SealsAs(w.c, "active")
    BY <1>4, <2>1, AdvanceKeeps
  <2> QED
    BY <1>4, <2>2 DEF SealsAs
<1>5. CASE /\ v.c.state \notin Frozen /\ Sealable(r, v)
           /\ w = Advance(r, status, v, "terminal_sealed", TRUE)
  <2>1. /\ SealFree(v, "terminal_sealed", TRUE, lost)
        /\ "terminal_sealed" \in Live \cup {"terminal_sealed"}
    BY <1>5 DEF SealFree, Live, Sealable
  <2>2. /\ w \in ViewRec(r) /\ ViewInv(w.c, w.rows, lost)
        /\ Moves(v.c, w.c) /\ SameFlight(v.rows, w.rows) /\ SealsAs(w.c, "terminal_sealed")
    BY <1>5, <2>1, AdvanceKeeps
  <2> QED
    BY <1>5, <2>2 DEF SealsAs, Sealable
<1>6. v.c.state \in Live \cup Frozen \cup {"none"}
  BY DEF ViewRec, ConsoleRec
<1>7. "none" \notin Frozen /\ "none" \notin Live /\ \A s \in Frozen : s \notin Live
  BY DEF Frozen, Live
<1>8. CASE v.c.state \in Frozen
  BY <1>8, <1>7, <1>1 DEF Materialize
<1>9. CASE v.c.state \notin Frozen /\ status = "ended"
  <2>1. \/ w = v \/ w = Advance(r, status, v, "terminal_pending", FALSE)
        \/ Sealable(r, v) /\ w = Advance(r, status, v, "terminal_sealed", TRUE)
    BY <1>6, <1>9, <1>7 DEF Materialize
  <2> QED
    BY <2>1, <1>9, <1>1, <1>2, <1>5
<1>10. CASE v.c.state \notin Frozen /\ status # "ended"
  <2>1. \/ w = v \/ w = Advance(r, status, v, "opening", TRUE)
        \/ w = Advance(r, status, v, "active", TRUE)
    BY <1>6, <1>10, <1>7 DEF Materialize
  <2> QED
    BY <2>1, <1>10, <1>1, <1>3, <1>4
<1> QED
  BY <1>8, <1>9, <1>10

\* A view whose console takes a recall state, and whose rows are replaced.
RecallView(v, state, D) == [v EXCEPT !.c.state = state, !.c.failure = FALSE, !.rows = D]

\* Only the state, the failure and the rows of a view change when its card is recalled.
LEMMA Recalling ==
  ASSUME NEW r \in Run, NEW v \in ViewRec(r), NEW state \in RecallStates,
         NEW D, D \subseteq RowRec(r),
         NEW w, w = RecallView(v, state, D)
  PROVE  /\ w \in ViewRec(r) /\ w.rows = D
         /\ w.c.state = state /\ w.c.latest = v.c.latest /\ w.c.delivered = v.c.delivered
         /\ w.c.ext = v.c.ext
<1> DEFINE c1 == [v.c EXCEPT !.state = state]
           c2 == [c1 EXCEPT !.failure = FALSE]
<1>1. /\ v.c \in ConsoleRec /\ v.rows \subseteq RowRec(r)
      /\ v = [c |-> v.c, rows |-> v.rows, quiet |-> v.quiet]
  BY DEF ViewRec
<1>2. state \in Live \cup Frozen \cup {"none"}
  BY DEF RecallStates, Frozen
<1>3. w = [v EXCEPT !.c = c2, !.rows = D]
  BY <1>1 DEF RecallView
<1>4. /\ c1 \in ConsoleRec /\ c1.state = state /\ c1.latest = v.c.latest
      /\ c1.delivered = v.c.delivered /\ c1.ext = v.c.ext
  BY <1>1, <1>2 DEF ConsoleRec
<1> HIDE DEF c1
<1>5. /\ c2 \in ConsoleRec /\ c2.state = state /\ c2.latest = v.c.latest
      /\ c2.delivered = v.c.delivered /\ c2.ext = v.c.ext
  BY <1>4 DEF ConsoleRec
<1> HIDE DEF c2
<1>6. w \in ViewRec(r) /\ w.c = c2 /\ w.rows = D
  BY <1>3, <1>5 DEF ViewRec
<1> QED
  BY <1>5, <1>6

\* reconcile_superseded_execution_consoles: what is pending for the card is dropped; the card is
\* recalled, or counts as recalled if it was never made and is not about to be.
LEMMA SupersedeKeeps ==
  ASSUME Typed, NEW r \in Run, NEW v \in ViewRec(r), NEW lost \in BOOLEAN,
         ViewInv(v.c, v.rows, lost), NEW w, w = Supersede(r, v)
  PROVE  /\ w \in ViewRec(r) /\ ViewInv(w.c, w.rows, lost)
         /\ SameFlight(v.rows, w.rows)
         /\ w.c.latest = v.c.latest /\ w.c.delivered = v.c.delivered /\ w.c.ext = v.c.ext
         /\ \/ w = v
            \/ /\ v.c.state \in {"terminal_sealed", "recall_failed"}
               /\ w.c.state \in {"recalled", "recall_pending"}
               /\ w.c.state = "recalled" => v.c.ext = 0 /\ NoneInFlight(v.rows)
<1> DEFINE succ == CHOOSE s \in Run : \A t \in Run : start[s] >= start[t]
           left == v.rows \ Pending(v.rows, "upsert")
           stays == \/ run[r] # "ended" \/ Successors(r) = {}
                    \/ v.c.state \notin {"terminal_sealed", "recall_failed"}
                    \/ \E d \in v.rows : d.kind = "recall" /\ d.tag = succ
                    \/ Open(v.rows, "recall") # {}
           never == v.c.ext = 0 /\ Open(left, "upsert") = {}
<1>1. v.c \in ConsoleRec /\ v.rows \subseteq RowRec(r)
  BY DEF ViewRec
<1>2. w = IF stays THEN v
          ELSE IF never
          THEN RecallView(v, "recalled", left)
          ELSE RecallView(v, "recall_pending", Insert(left, r, "recall", succ, 0))
  BY Zenon DEF Supersede, RecallView
<1>3. CASE stays
  <2>1. w = v
    BY <1>2, <1>3
  <2> QED
    BY <2>1 DEF SameFlight
<1>4. CASE ~stays
  <2>1. /\ v.c.state \in {"terminal_sealed", "recall_failed"}
        /\ \A d \in v.rows : ~ (d.kind = "recall" /\ d.tag = succ)
        /\ Open(v.rows, "recall") = {}
    BY <1>4
  <2>2. succ \in Run
    <3>1. start \in [Run -> 0 .. Cardinality(Run)] /\ Run # {}
      BY DEF Typed
    <3> QED
      BY <3>1, LatestStarted
  <2>3. Keyed(v.rows) /\ Behind(v.c, v.rows) /\ Newest(v.rows)
        /\ v.c.delivered <= v.c.latest
    BY DEF ViewInv
  <2>4. left \subseteq v.rows /\ \A d \in v.rows : d.status = "attempting" => d \in left
    BY DEF Pending
  <2>5. \A d \in v.rows : d.kind = "recall" => ~IsOpen(d)
    BY <2>1 DEF Open, IsOpen
  <2>6. \A d \in left : d.kind = "upsert" /\ IsOpen(d) => d.status = "attempting"
    BY DEF Pending, Open, IsOpen
  <2> HIDE DEF stays, never, succ, left
  <2>7. CASE never
    <3>1. w = RecallView(v, "recalled", left)
      BY <1>2, <1>4, <2>7
    <3>2. /\ w \in ViewRec(r) /\ w.rows = left /\ w.c.state = "recalled"
          /\ w.c.latest = v.c.latest /\ w.c.delivered = v.c.delivered /\ w.c.ext = v.c.ext
      <4>1. left \subseteq RowRec(r) /\ "recalled" \in RecallStates
        BY <1>1, <2>4 DEF RecallStates
      <4> QED
        BY <3>1, <4>1, Recalling
    <3>3. v.c.ext = 0 /\ Open(left, "upsert") = {}
      BY <2>7 DEF never
    <3>4. NoneInFlight(v.rows)
      BY <3>3, <2>4 DEF NoneInFlight, Open
    <3>5. Keyed(left) /\ Newest(left)
      BY <2>3, <2>4 DEF Keyed, Newest
    <3>6. Behind(w.c, left)
      BY <2>3, <2>4, <3>2 DEF Behind
    <3>7. Recalls(w.c, left) /\ Recalled(w.c, left)
      BY <2>4, <2>5, <3>2, <3>3 DEF Recalls, Recalled, IsOpen, RecallStates
    <3>8. Sealed(w.c, left, lost) /\ SealQueued(w.c, left, lost)
      BY <3>2 DEF Sealed, SealQueued
    <3>9. SameFlight(v.rows, left)
      BY <2>4 DEF SameFlight
    <3> QED
      BY <2>1, <2>3, <3>2, <3>3, <3>4, <3>5, <3>6, <3>7, <3>8, <3>9 DEF ViewInv
  <2>8. CASE ~never
    <3> DEFINE n == [run |-> r, kind |-> "recall", tag |-> succ, expected |-> 0,
                     status |-> "pending", attempts |-> 0, ripe |-> TRUE, owner |-> 0]
               D == left \cup {n}
    <3>1. Insert(left, r, "recall", succ, 0) = D
      BY <2>1, <2>4 DEF Insert
    <3>2. w = RecallView(v, "recall_pending", D)
      BY <1>2, <1>4, <2>8, <3>1
    <3>3. n \in RowRec(r) /\ n.kind = "recall" /\ n.tag = succ /\ n.status = "pending"
      BY <2>2 DEF RowRec, Tag
    <3> HIDE DEF n
    <3>4. /\ w \in ViewRec(r) /\ w.rows = D /\ w.c.state = "recall_pending"
          /\ w.c.latest = v.c.latest /\ w.c.delivered = v.c.delivered /\ w.c.ext = v.c.ext
      <4>1. D \subseteq RowRec(r) /\ "recall_pending" \in RecallStates
        BY <1>1, <2>4, <3>3 DEF RecallStates
      <4> QED
        BY <3>2, <4>1, Recalling
    <3>5. Keyed(D)
      BY <2>1, <2>3, <2>4, <3>3 DEF Keyed
    <3>6. Newest(D) /\ Behind(w.c, D)
      BY <2>3, <2>4, <3>3, <3>4 DEF Newest, Behind
    <3>7. Recalls(w.c, D) /\ Recalled(w.c, D)
      BY <2>4, <2>5, <3>3, <3>4 DEF Recalls, Recalled, IsOpen, RecallStates
    <3>8. Sealed(w.c, D, lost) /\ SealQueued(w.c, D, lost)
      BY <3>4 DEF Sealed, SealQueued
    <3>9. SameFlight(v.rows, D)
      BY <2>4, <3>3 DEF SameFlight
    <3> QED
      BY <2>1, <2>3, <3>4, <3>5, <3>6, <3>7, <3>8, <3>9 DEF ViewInv
  <2> QED
    BY <2>7, <2>8
<1> QED
  BY <1>3, <1>4

\* The first statement of claim_deliveries: an expired lease returns its row to the queue.
LEMMA ExpireKeeps ==
  ASSUME NEW r \in Run, NEW v \in ViewRec(r), NEW lost \in BOOLEAN,
         ViewInv(v.c, v.rows, lost), NEW w, w = Expire(v)
  PROVE  /\ w \in ViewRec(r) /\ ViewInv(w.c, w.rows, lost) /\ w.c = v.c
         /\ \A d \in w.rows : d.status = "attempting" => d \in v.rows /\ ~d.ripe
         /\ \A d \in v.rows : d.status = "attempting" /\ ~d.ripe => d \in w.rows
<1> DEFINE X == {d \in v.rows : d.status = "attempting" /\ d.ripe}
           g == [d \in v.rows |-> IF d \in X THEN [d EXCEPT !.status = "pending", !.owner = 0]
                                  ELSE d]
           E == {g[d] : d \in v.rows}
<1>1. v.c \in ConsoleRec /\ v.rows \subseteq RowRec(r)
  BY DEF ViewRec
<1>2. \A d \in v.rows :
        /\ g[d] \in RowRec(r) /\ g[d].kind = d.kind /\ g[d].tag = d.tag
        /\ g[d].expected = d.expected
        /\ d \in X => g[d].status = "pending"
        /\ d \notin X => g[d] = d
  <2> SUFFICES ASSUME NEW d \in v.rows
               PROVE  /\ g[d] \in RowRec(r) /\ g[d].kind = d.kind /\ g[d].tag = d.tag
                      /\ g[d].expected = d.expected
                      /\ d \in X => g[d].status = "pending"
                      /\ d \notin X => g[d] = d
    OBVIOUS
  <2> DEFINE e == [d EXCEPT !.status = "pending"]
             f == [e EXCEPT !.owner = 0]
  <2>1. d \in RowRec(r)
    BY <1>1
  <2>2. /\ e \in RowRec(r) /\ e.kind = d.kind /\ e.tag = d.tag /\ e.expected = d.expected
        /\ e.status = "pending"
    BY <2>1 DEF RowRec
  <2> HIDE DEF e
  <2>3. /\ f \in RowRec(r) /\ f.kind = d.kind /\ f.tag = d.tag /\ f.expected = d.expected
        /\ f.status = "pending"
    BY <2>2 DEF RowRec
  <2>4. g[d] = IF d \in X THEN f ELSE d
    BY DEF e
  <2> HIDE DEF f, g, X
  <2> QED
    BY <2>1, <2>3, <2>4
<1>3. \A d \in v.rows : d \in X <=> d.status = "attempting" /\ d.ripe
  OBVIOUS
<1>4. w.rows = E
  <2>1. w = [v EXCEPT !.rows = {IF d.status = "attempting" /\ d.ripe
                                THEN [d EXCEPT !.status = "pending", !.owner = 0]
                                ELSE d : d \in v.rows}]
    BY DEF Expire
  <2>2. w.rows = {IF d.status = "attempting" /\ d.ripe
                  THEN [d EXCEPT !.status = "pending", !.owner = 0] ELSE d : d \in v.rows}
    BY <2>1 DEF ViewRec
  <2> QED
    BY <2>2
<1>5. w.c = v.c /\ w.quiet = v.quiet /\ w = [v EXCEPT !.rows = w.rows]
  BY <1>4 DEF Expire, ViewRec
<1>6. g \in [v.rows -> RowRec(r)]
  BY <1>2
<1> HIDE DEF X, g
<1>7. /\ E \subseteq RowRec(r) /\ Keyed(E) /\ Newest(E)
      /\ \A kind \in {"upsert", "recall"} : Open(v.rows, kind) = {} => Open(E, kind) = {}
  <2>1. \A d \in v.rows : IsOpen(g[d]) => IsOpen(d)
    BY <1>2, <1>3 DEF IsOpen
  <2>2. Keyed(v.rows) /\ Newest(v.rows)
    BY DEF ViewInv
  <2>3. E = {g[d] : d \in v.rows}
    OBVIOUS
  <2> HIDE DEF E
  <2> QED
    BY <1>1, <1>2, <1>6, <2>1, <2>2, <2>3, Relabelled
<1>8. \A d \in v.rows : IsOpen(g[d]) <=> IsOpen(d)
  BY <1>2, <1>3 DEF IsOpen
<1>9. Behind(w.c, E)
  BY <1>2, <1>5, <1>8 DEF ViewInv, Behind
<1>10. Recalls(w.c, E)
  <2>1. \A d \in E : d.kind = "recall" =>
          /\ w.c.state \in RecallStates
          /\ IsOpen(d) => w.c.state = "recall_pending"
    BY <1>2, <1>5, <1>8 DEF ViewInv, Recalls
  <2>2. \A d \in E : d.kind = "recall" /\ d.status = "attempting" => Open(E, "upsert") = {}
    <3> TAKE d \in E
    <3> HAVE d.kind = "recall" /\ d.status = "attempting"
    <3>1. d \in v.rows
      BY <1>2
    <3>2. Open(v.rows, "upsert") = {}
      BY <3>1 DEF ViewInv, Recalls
    <3> QED
      BY <3>2, <1>7
  <2>3. \A d, e \in E : d.kind = "recall" /\ e.kind = "recall" /\ IsOpen(d) /\ IsOpen(e) => d = e
    BY <1>2, <1>8 DEF ViewInv, Recalls
  <2> HIDE DEF E
  <2> QED
    BY <2>1, <2>2, <2>3 DEF Recalls
<1>11. Recalled(w.c, E)
  BY <1>5, <1>7 DEF ViewInv, Recalled
<1>12. Open(v.rows, "upsert") # {} => Open(E, "upsert") # {}
  <2> SUFFICES ASSUME NEW d \in Open(v.rows, "upsert")
               PROVE  Open(E, "upsert") # {}
    OBVIOUS
  <2>1. d \in v.rows /\ d.kind = "upsert" /\ IsOpen(d)
    BY DEF Open, IsOpen
  <2>2. g[d] \in E /\ g[d].kind = "upsert" /\ IsOpen(g[d])
    BY <2>1, <1>2, <1>8
  <2> QED
    BY <2>2 DEF Open, IsOpen
<1>13. Sealed(w.c, E, lost)
  BY <1>5, <1>12 DEF ViewInv, Sealed
<1>14. SealQueued(w.c, E, lost)
  <2> SUFFICES ASSUME ~lost, w.c.state = "terminal_sealed", NEW e \in Open(E, "upsert")
               PROVE  e.expected = w.c.latest
    BY DEF SealQueued
  <2>1. PICK d \in v.rows : e = g[d]
    BY DEF Open
  <2>2. d \in Open(v.rows, "upsert")
    BY <2>1, <1>2, <1>8 DEF Open, IsOpen
  <2> QED
    BY <2>1, <2>2, <1>2, <1>5 DEF ViewInv, SealQueued
<1>15. w \in ViewRec(r)
  BY <1>4, <1>5, <1>7 DEF ViewRec
<1>16. \A d \in E : d.status = "attempting" => d \in v.rows /\ ~d.ripe
  BY <1>2, <1>3
<1>17. \A d \in v.rows : d.status = "attempting" /\ ~d.ripe => d \in E
  BY <1>2, <1>3
<1> QED
  BY <1>4, <1>5, <1>7, <1>9, <1>10, <1>11, <1>13, <1>14, <1>15, <1>16, <1>17 DEF ViewInv

\* A row that is claimed.
ClaimedRow(e, d, worker) ==
    /\ e.run = d.run /\ e.kind = d.kind /\ e.tag = d.tag /\ e.expected = d.expected
    /\ e.status = "attempting" /\ ~e.ripe /\ e.owner = worker

\* The query of claim_deliveries: what is due goes to the worker, and a recall only when no
\* update of its card is open.
LEMMA ClaimedKeeps ==
  ASSUME NEW r \in Run, NEW v \in ViewRec(r), NEW lost \in BOOLEAN,
         ViewInv(v.c, v.rows, lost), NEW worker \in Nat, NEW w, w = Claimed(v, worker)
  PROVE  /\ w \in ViewRec(r) /\ ViewInv(w.c, w.rows, lost) /\ w.c = v.c
         /\ Eligible(v.rows) \subseteq v.rows
         /\ \A d \in Eligible(v.rows) : \E e \in w.rows : ClaimedRow(e, d, worker)
         /\ \A e \in w.rows : e.status = "attempting" =>
              e \in v.rows \/ \E d \in Eligible(v.rows) : ClaimedRow(e, d, worker)
<1> DEFINE X == Eligible(v.rows)
           g == [d \in v.rows |-> IF d \in X
                                  THEN [d EXCEPT !.status = "attempting", !.attempts = @ + 1,
                                                 !.ripe = FALSE, !.owner = worker]
                                  ELSE d]
           E == {g[d] : d \in v.rows}
<1>1. v.c \in ConsoleRec /\ v.rows \subseteq RowRec(r)
  BY DEF ViewRec
<1>2. \A d \in v.rows :
        /\ g[d] \in RowRec(r) /\ g[d].kind = d.kind /\ g[d].tag = d.tag
        /\ g[d].expected = d.expected
        /\ d \in X => ClaimedRow(g[d], d, worker)
        /\ d \notin X => g[d] = d
  <2> SUFFICES ASSUME NEW d \in v.rows
               PROVE  /\ g[d] \in RowRec(r) /\ g[d].kind = d.kind /\ g[d].tag = d.tag
                      /\ g[d].expected = d.expected
                      /\ d \in X => ClaimedRow(g[d], d, worker)
                      /\ d \notin X => g[d] = d
    OBVIOUS
  <2> DEFINE e1 == [d EXCEPT !.status = "attempting"]
             e2 == [e1 EXCEPT !.attempts = @ + 1]
             e3 == [e2 EXCEPT !.ripe = FALSE]
             e4 == [e3 EXCEPT !.owner = worker]
  <2>1. d \in RowRec(r)
    BY <1>1
  <2>2. /\ e1 \in RowRec(r) /\ e1.run = d.run /\ e1.kind = d.kind /\ e1.tag = d.tag
        /\ e1.expected = d.expected /\ e1.status = "attempting" /\ e1.attempts = d.attempts
    BY <2>1 DEF RowRec
  <2>3. g[d] = IF d \in X THEN e4 ELSE d
    <3>1. e1.attempts = d.attempts
      BY <2>2
    <3>2. e4 = [d EXCEPT !.status = "attempting", !.attempts = d.attempts + 1,
                         !.ripe = FALSE, !.owner = worker]
      BY <3>1
    <3>3. g[d] = IF d \in X THEN [d EXCEPT !.status = "attempting", !.attempts = d.attempts + 1,
                                           !.ripe = FALSE, !.owner = worker] ELSE d
      OBVIOUS
    <3> QED
      BY <3>2, <3>3, Zenon
  <2> HIDE DEF e1, g, X
  <2>4. /\ e2 \in RowRec(r) /\ e2.run = d.run /\ e2.kind = d.kind /\ e2.tag = d.tag
        /\ e2.expected = d.expected /\ e2.status = "attempting"
    BY <2>2 DEF RowRec
  <2> HIDE DEF e2
  <2>5. /\ e3 \in RowRec(r) /\ e3.run = d.run /\ e3.kind = d.kind /\ e3.tag = d.tag
        /\ e3.expected = d.expected /\ e3.status = "attempting" /\ ~e3.ripe
    BY <2>4 DEF RowRec
  <2> HIDE DEF e3
  <2>6. e4 \in RowRec(r) /\ ClaimedRow(e4, d, worker)
    BY <2>5 DEF RowRec, ClaimedRow
  <2> HIDE DEF e4
  <2> QED
    BY <2>1, <2>3, <2>6 DEF ClaimedRow
<1>3. /\ X \subseteq v.rows
      /\ \A d \in X : d.status = "pending" /\ (d.kind = "recall" => Open(v.rows, "upsert") = {})
  BY DEF Eligible
<1>4. w.rows = E
  <2>1. w.rows = {IF d \in Eligible(v.rows)
                  THEN [d EXCEPT !.status = "attempting", !.attempts = @ + 1,
                                 !.ripe = FALSE, !.owner = worker]
                  ELSE d : d \in v.rows}
    BY DEF Claimed, ViewRec
  <2> QED
    BY <2>1
<1>5. w.c = v.c /\ w.quiet = v.quiet /\ w = [v EXCEPT !.rows = w.rows]
  BY <1>4 DEF Claimed, ViewRec
<1>6. g \in [v.rows -> RowRec(r)]
  BY <1>2
<1> HIDE DEF X, g
<1>7. \A d \in v.rows : IsOpen(g[d]) <=> IsOpen(d)
  BY <1>2, <1>3 DEF IsOpen, ClaimedRow
<1>8. /\ E \subseteq RowRec(r) /\ Keyed(E) /\ Newest(E)
      /\ \A kind \in {"upsert", "recall"} : Open(v.rows, kind) = {} => Open(E, kind) = {}
  <2>1. Keyed(v.rows) /\ Newest(v.rows)
    BY DEF ViewInv
  <2>2. E = {g[d] : d \in v.rows}
    OBVIOUS
  <2> HIDE DEF E
  <2> QED
    BY <1>1, <1>2, <1>6, <1>7, <2>1, <2>2, Relabelled
<1>9. Behind(w.c, E)
  BY <1>2, <1>5, <1>7 DEF ViewInv, Behind
<1>10. Recalls(w.c, E)
  <2>1. \A d \in E : d.kind = "recall" =>
          /\ w.c.state \in RecallStates
          /\ IsOpen(d) => w.c.state = "recall_pending"
    BY <1>2, <1>5, <1>7 DEF ViewInv, Recalls
  <2>2. \A d \in E : d.kind = "recall" /\ d.status = "attempting" => Open(E, "upsert") = {}
    <3> TAKE d \in E
    <3> HAVE d.kind = "recall" /\ d.status = "attempting"
    <3>1. PICK e \in v.rows : d = g[e]
      OBVIOUS
    <3>2. Open(v.rows, "upsert") = {}
      BY <3>1, <1>2, <1>3 DEF ViewInv, Recalls
    <3> QED
      BY <3>2, <1>8
  <2>3. \A d, e \in E : d.kind = "recall" /\ e.kind = "recall" /\ IsOpen(d) /\ IsOpen(e) => d = e
    BY <1>2, <1>7 DEF ViewInv, Recalls
  <2> HIDE DEF E
  <2> QED
    BY <2>1, <2>2, <2>3 DEF Recalls
<1>11. Recalled(w.c, E)
  BY <1>5, <1>8 DEF ViewInv, Recalled
<1>12. Open(v.rows, "upsert") # {} => Open(E, "upsert") # {}
  <2> SUFFICES ASSUME NEW d \in Open(v.rows, "upsert")
               PROVE  Open(E, "upsert") # {}
    OBVIOUS
  <2>1. d \in v.rows /\ d.kind = "upsert" /\ IsOpen(d)
    BY DEF Open, IsOpen
  <2>2. g[d] \in E /\ g[d].kind = "upsert" /\ IsOpen(g[d])
    BY <2>1, <1>2, <1>7
  <2> QED
    BY <2>2 DEF Open, IsOpen
<1>13. Sealed(w.c, E, lost)
  BY <1>5, <1>12 DEF ViewInv, Sealed
<1>14. SealQueued(w.c, E, lost)
  <2> SUFFICES ASSUME ~lost, w.c.state = "terminal_sealed", NEW e \in Open(E, "upsert")
               PROVE  e.expected = w.c.latest
    BY DEF SealQueued
  <2>1. PICK d \in v.rows : e = g[d]
    BY DEF Open
  <2>2. d \in Open(v.rows, "upsert")
    BY <2>1, <1>2, <1>7 DEF Open, IsOpen
  <2> QED
    BY <2>1, <2>2, <1>2, <1>5 DEF ViewInv, SealQueued
<1>15. w \in ViewRec(r)
  BY <1>4, <1>5, <1>8 DEF ViewRec
<1>16. \A d \in X : \E e \in E : ClaimedRow(e, d, worker)
  BY <1>2, <1>3
<1>17. \A e \in E : e.status = "attempting" =>
         e \in v.rows \/ \E d \in X : ClaimedRow(e, d, worker)
  BY <1>2
<1> QED
  BY <1>3, <1>4, <1>5, <1>8, <1>9, <1>10, <1>11, <1>13, <1>14, <1>15, <1>16, <1>17
     DEF ViewInv, X

-------------------------------------------------------------------------------
(***************************************************************************)
(* settle_delivery, as a step of a view.                                   *)
(***************************************************************************)

\* What a settlement makes of its row: pending again, or ended.
Retried(d) == [d EXCEPT !.status = "pending", !.ripe = FALSE, !.owner = 0]
Closed(d) == [d EXCEPT !.status = IF host.outcome = "sent" THEN "sent" ELSE "failed",
                       !.owner = 0, !.ripe = FALSE, !.attempts = 0, !.expected = 0]

\* Either keeps the key of the row.
LEMMA SettledRows ==
  ASSUME NEW r \in Run, NEW d \in RowRec(r)
  PROVE  /\ Retried(d) \in RowRec(r) /\ Retried(d).kind = d.kind /\ Retried(d).tag = d.tag
         /\ Retried(d).expected = d.expected /\ Retried(d).status = "pending"
         /\ Closed(d) \in RowRec(r) /\ Closed(d).kind = d.kind /\ Closed(d).tag = d.tag
         /\ Closed(d).status \in Ended
<1>1. /\ Retried(d) \in RowRec(r) /\ Retried(d).kind = d.kind /\ Retried(d).tag = d.tag
      /\ Retried(d).expected = d.expected /\ Retried(d).status = "pending"
  <2> DEFINE e1 == [d EXCEPT !.status = "pending"]
             e2 == [e1 EXCEPT !.ripe = FALSE]
             e3 == [e2 EXCEPT !.owner = 0]
  <2>1. Retried(d) = e3
    BY DEF Retried
  <2>2. /\ e1 \in RowRec(r) /\ e1.kind = d.kind /\ e1.tag = d.tag
        /\ e1.expected = d.expected /\ e1.status = "pending"
    BY DEF RowRec
  <2> HIDE DEF e1
  <2>3. /\ e2 \in RowRec(r) /\ e2.kind = d.kind /\ e2.tag = d.tag
        /\ e2.expected = d.expected /\ e2.status = "pending"
    BY <2>2 DEF RowRec
  <2> HIDE DEF e2
  <2>4. /\ e3 \in RowRec(r) /\ e3.kind = d.kind /\ e3.tag = d.tag
        /\ e3.expected = d.expected /\ e3.status = "pending"
    BY <2>3 DEF RowRec
  <2> QED
    BY <2>1, <2>4
<1>2. /\ Closed(d) \in RowRec(r) /\ Closed(d).kind = d.kind /\ Closed(d).tag = d.tag
      /\ Closed(d).status \in Ended
  <2> DEFINE s == IF host.outcome = "sent" THEN "sent" ELSE "failed"
             e1 == [d EXCEPT !.status = s]
             e2 == [e1 EXCEPT !.owner = 0]
             e3 == [e2 EXCEPT !.ripe = FALSE]
             e4 == [e3 EXCEPT !.attempts = 0]
             e5 == [e4 EXCEPT !.expected = 0]
  <2>1. Closed(d) = e5
    BY DEF Closed
  <2>2. s \in Ended
    BY DEF Ended
  <2> HIDE DEF s
  <2>3. e1 \in RowRec(r) /\ e1.kind = d.kind /\ e1.tag = d.tag /\ e1.status \in Ended
    BY <2>2 DEF RowRec
  <2> HIDE DEF e1
  <2>4. e2 \in RowRec(r) /\ e2.kind = d.kind /\ e2.tag = d.tag /\ e2.status \in Ended
    BY <2>3 DEF RowRec
  <2> HIDE DEF e2
  <2>5. e3 \in RowRec(r) /\ e3.kind = d.kind /\ e3.tag = d.tag /\ e3.status \in Ended
    BY <2>4 DEF RowRec
  <2> HIDE DEF e3
  <2>6. e4 \in RowRec(r) /\ e4.kind = d.kind /\ e4.tag = d.tag /\ e4.status \in Ended
    BY <2>5 DEF RowRec
  <2> HIDE DEF e4
  <2>7. e5 \in RowRec(r) /\ e5.kind = d.kind /\ e5.tag = d.tag /\ e5.status \in Ended
    BY <2>6 DEF RowRec
  <2> QED
    BY <2>1, <2>7
<1> QED
  BY <1>1, <1>2

\* A row in flight that is replaced by one that is not.
LEMMA RowReplaced ==
  ASSUME NEW r \in Run, NEW c \in ConsoleRec, NEW D, D \subseteq RowRec(r),
         Keyed(D), Behind(c, D), Newest(D),
         NEW d \in D, d.status = "attempting", NEW e \in RowRec(r),
         e.kind = d.kind, e.tag = d.tag, e.status # "attempting",
         IsOpen(e) => e.expected = d.expected,
         NEW E, E = SetRow(D, d, e)
  PROVE  /\ E \subseteq RowRec(r) /\ Keyed(E) /\ Behind(c, E) /\ Newest(E)
         /\ e \in E
         /\ \A x \in E : x = e \/ (x \in D /\ x # d)
         /\ \A x \in D : x # d => x \in E
         /\ \A x \in E : x.status = "attempting" => x \in D /\ x # d
         /\ \A x \in D : x.status = "attempting" /\ x # d => x \in E
         /\ d.kind = "upsert" => \A x \in E : x.kind = "upsert" /\ IsOpen(x) => x = e
<1>1. E = (D \ {d}) \cup {e}
  BY DEF SetRow
<1>2. E \subseteq RowRec(r) /\ Keyed(E)
  BY <1>1 DEF Keyed
<1>3. IsOpen(d)
  BY DEF IsOpen
<1>4. Behind(c, E) /\ Newest(E)
  BY <1>1, <1>3 DEF Behind, Newest
<1>5. ASSUME d.kind = "upsert", NEW x \in E, x.kind = "upsert", IsOpen(x), x # e
      PROVE  FALSE
  <2>1. x \in D /\ x # d
    BY <1>1, <1>5
  <2>2. x.tag < d.tag /\ d.tag < x.tag
    BY <2>1, <1>3, <1>5 DEF Newest
  <2>3. x.tag \in Nat /\ d.tag \in Nat
    BY <2>1, <1>5 DEF Behind
  <2> QED
    BY <2>2, <2>3
<1> QED
  BY <1>1, <1>2, <1>4, <1>5

\* What a settlement of row d leaves alone, and what it may change.
SettledStep(r, v, w, d, lost) ==
    /\ w \in ViewRec(r) /\ ViewInv(w.c, w.rows, lost)
    /\ w.c.latest = v.c.latest /\ w.c.snap = v.c.snap
    /\ \A x \in w.rows : x.status = "attempting" => x \in v.rows /\ x # d
    /\ \A x \in v.rows : x.status = "attempting" /\ x # d => x \in w.rows
    /\ w.c.ext = IF d.kind = "upsert" /\ host.outcome = "sent" /\ host.id # 0 THEN host.id
                 ELSE v.c.ext
    /\ \/ w.c.delivered = v.c.delivered
       \/ /\ d.kind = "upsert" /\ host.outcome = "sent" /\ host.id # 0
          /\ w.c.delivered = d.expected
    /\ d.kind = "upsert" => w.c.state = v.c.state
    /\ d.kind = "recall" => /\ w.c.state \in RecallStates
                            /\ w.c.state = "recalled" => host.outcome = "sent"

\* The attempt failed and is repeated later.
LEMMA RetryKeeps ==
  ASSUME NEW r \in Run, NEW v \in ViewRec(r), NEW lost \in BOOLEAN,
         ViewInv(v.c, v.rows, lost), NEW d \in v.rows, d.status = "attempting",
         host.outcome = "retry",
         NEW w, w = [v EXCEPT !.rows = SetRow(v.rows, d, Retried(d))]
  PROVE  SettledStep(r, v, w, d, lost)
<1> DEFINE e == Retried(d)
           E == SetRow(v.rows, d, e)
<1>1. v.c \in ConsoleRec /\ v.rows \subseteq RowRec(r)
  BY DEF ViewRec
<1>2. /\ e \in RowRec(r) /\ e.kind = d.kind /\ e.tag = d.tag
      /\ e.expected = d.expected /\ e.status = "pending"
  BY <1>1, SettledRows
<1>3. w.c = v.c /\ w.rows = E /\ (E \subseteq RowRec(r) => w \in ViewRec(r))
  BY DEF ViewRec
<1> HIDE DEF e
<1>4. /\ E \subseteq RowRec(r) /\ Keyed(E) /\ Behind(v.c, E) /\ Newest(E)
      /\ e \in E
      /\ \A x \in E : x = e \/ (x \in v.rows /\ x # d)
      /\ \A x \in v.rows : x # d => x \in E
      /\ \A x \in E : x.status = "attempting" => x \in v.rows /\ x # d
      /\ \A x \in v.rows : x.status = "attempting" /\ x # d => x \in E
      /\ d.kind = "upsert" => \A x \in E : x.kind = "upsert" /\ IsOpen(x) => x = e
  <2>1. Keyed(v.rows) /\ Behind(v.c, v.rows) /\ Newest(v.rows)
    BY DEF ViewInv
  <2>2. e.status # "attempting"
    BY <1>2
  <2>3. E = SetRow(v.rows, d, e)
    OBVIOUS
  <2> HIDE DEF E
  <2> QED
    BY <1>1, <1>2, <2>1, <2>2, <2>3, RowReplaced
<1> HIDE DEF E
<1>5. IsOpen(d) /\ IsOpen(e)
  BY <1>2 DEF IsOpen
<1>6. Open(v.rows, "upsert") = {} <=> Open(E, "upsert") = {}
  BY <1>2, <1>4, <1>5 DEF Open, IsOpen
<1>7. Recalls(v.c, E)
  <2>1. \A x \in E : x.kind = "recall" =>
          /\ v.c.state \in RecallStates
          /\ IsOpen(x) => v.c.state = "recall_pending"
          /\ x.status = "attempting" => Open(E, "upsert") = {}
    BY <1>2, <1>4, <1>5, <1>6 DEF ViewInv, Recalls
  <2>2. \A x, y \in E : x.kind = "recall" /\ y.kind = "recall" /\ IsOpen(x) /\ IsOpen(y) => x = y
    BY <1>2, <1>4, <1>5 DEF ViewInv, Recalls
  <2> QED
    BY <2>1, <2>2 DEF Recalls
<1>8. Recalled(v.c, E) /\ Sealed(v.c, E, lost)
  BY <1>6 DEF ViewInv, Recalled, Sealed
<1>9. SealQueued(v.c, E, lost)
  <2> SUFFICES ASSUME ~lost, v.c.state = "terminal_sealed", NEW x \in Open(E, "upsert")
               PROVE  x.expected = v.c.latest
    BY DEF SealQueued
  <2>1. PICK y \in Open(v.rows, "upsert") : x.expected = y.expected
    BY <1>2, <1>4, <1>5 DEF Open, IsOpen
  <2> QED
    BY <2>1 DEF ViewInv, SealQueued
<1>10. d.kind = "recall" => v.c.state = "recall_pending"
  BY <1>5 DEF ViewInv, Recalls
<1> QED
  BY <1>3, <1>4, <1>7, <1>8, <1>9, <1>10 DEF SettledStep, ViewInv, RecallStates

\* A row in flight that has ended: no update is open beside an update, nothing beside a recall.
LEMMA RowClosed ==
  ASSUME NEW r \in Run, NEW v \in ViewRec(r), NEW lost \in BOOLEAN,
         ViewInv(v.c, v.rows, lost), NEW d \in v.rows, d.status = "attempting",
         NEW E, E = SetRow(v.rows, d, Closed(d))
  PROVE  /\ E \subseteq RowRec(r) /\ Keyed(E) /\ Behind(v.c, E) /\ Newest(E)
         /\ \A x \in E : x.status = "attempting" => x \in v.rows /\ x # d
         /\ \A x \in v.rows : x.status = "attempting" /\ x # d => x \in E
         /\ Open(E, "upsert") = {}
         /\ d.kind = "upsert" =>
              /\ v.c.state # "recalled" /\ Recalls(v.c, E)
              /\ d.tag \in Nat /\ d.tag <= d.expected /\ d.expected <= v.c.latest
              /\ \A x \in E : x.kind = "upsert" => x.tag \in Nat /\ x.tag <= d.tag
         /\ d.kind = "recall" =>
              /\ v.c.state = "recall_pending"
              /\ \A x \in E : x.kind = "recall" => ~IsOpen(x)
<1> DEFINE e == Closed(d)
<1>1. v.c \in ConsoleRec /\ v.rows \subseteq RowRec(r)
  BY DEF ViewRec
<1>2. e \in RowRec(r) /\ e.kind = d.kind /\ e.tag = d.tag /\ e.status \in Ended
  BY <1>1, SettledRows
<1>3. ~IsOpen(e) /\ e.status # "attempting" /\ IsOpen(d)
  BY <1>2 DEF IsOpen, Ended
<1>4. E = SetRow(v.rows, d, e)
  OBVIOUS
<1> HIDE DEF e
<1>5. Keyed(v.rows) /\ Behind(v.c, v.rows) /\ Newest(v.rows)
  BY DEF ViewInv
<1>6. /\ E \subseteq RowRec(r) /\ Keyed(E) /\ Behind(v.c, E) /\ Newest(E)
      /\ e \in E
      /\ \A x \in E : x = e \/ (x \in v.rows /\ x # d)
      /\ \A x \in v.rows : x # d => x \in E
      /\ \A x \in E : x.status = "attempting" => x \in v.rows /\ x # d
      /\ \A x \in v.rows : x.status = "attempting" /\ x # d => x \in E
      /\ d.kind = "upsert" => \A x \in E : x.kind = "upsert" /\ IsOpen(x) => x = e
  BY <1>1, <1>2, <1>3, <1>4, <1>5, RowReplaced
<1>7. d.kind \in {"upsert", "recall"}
  BY <1>1 DEF RowRec
<1>8. CASE d.kind = "upsert"
  <2>1. Open(E, "upsert") = {}
    BY <1>3, <1>6, <1>8 DEF Open, IsOpen
  <2>2. d \in Open(v.rows, "upsert")
    BY <1>8 DEF Open
  <2>3. v.c.state # "recalled" /\ \A x \in v.rows : x.kind = "recall" => x.status # "attempting"
    BY <2>2 DEF ViewInv, Recalled, Recalls
  <2>4. Recalls(v.c, E)
    <3>1. \A x \in E : x.kind = "recall" => x \in v.rows
      BY <1>2, <1>6, <1>8
    <3> QED
      BY <3>1, <2>3 DEF ViewInv, Recalls
  <2>5. d.tag \in Nat /\ d.tag <= d.expected /\ d.expected <= v.c.latest
    BY <1>3, <1>5, <1>8 DEF Behind
  <2>6. ASSUME NEW x \in E, x.kind = "upsert"
        PROVE  x.tag \in Nat /\ x.tag <= d.tag
    <3>1. CASE x = e
      BY <3>1, <1>2, <2>5
    <3>2. CASE x \in v.rows /\ x # d
      BY <3>2, <1>3, <1>5, <1>8, <2>5, <2>6 DEF Newest, Behind
    <3> QED
      BY <3>1, <3>2, <1>6
  <2> QED
    BY <1>6, <1>8, <2>1, <2>3, <2>4, <2>5, <2>6
<1>9. CASE d.kind = "recall"
  <2>1. Open(v.rows, "upsert") = {} /\ v.c.state = "recall_pending"
    BY <1>3, <1>9 DEF ViewInv, Recalls
  <2>2. Open(E, "upsert") = {}
    BY <1>2, <1>3, <1>6, <1>9, <2>1 DEF Open, IsOpen
  <2>3. \A x \in E : x.kind = "recall" => ~IsOpen(x)
    BY <1>3, <1>6, <1>9 DEF ViewInv, Recalls
  <2> QED
    BY <1>6, <1>9, <2>1, <2>2, <2>3
<1> QED
  BY <1>7, <1>8, <1>9

\* The update was given up: the console records it.
LEMMA FailedKeeps ==
  ASSUME NEW r \in Run, NEW v \in ViewRec(r), NEW lost \in BOOLEAN,
         ViewInv(v.c, v.rows, lost), NEW d \in v.rows, d.status = "attempting",
         d.kind = "upsert", host.outcome # "sent",
         NEW w, w = [v EXCEPT !.rows = SetRow(v.rows, d, Closed(d)), !.c.failure = TRUE,
                              !.quiet = FALSE]
  PROVE  SettledStep(r, v, w, d, lost)
<1> DEFINE E == SetRow(v.rows, d, Closed(d))
           c == [v.c EXCEPT !.failure = TRUE]
<1>1. v.c \in ConsoleRec /\ v.rows \subseteq RowRec(r)
  BY DEF ViewRec
<1>2. /\ E \subseteq RowRec(r) /\ Keyed(E) /\ Behind(v.c, E) /\ Newest(E)
      /\ \A x \in E : x.status = "attempting" => x \in v.rows /\ x # d
      /\ \A x \in v.rows : x.status = "attempting" /\ x # d => x \in E
      /\ Open(E, "upsert") = {}
      /\ v.c.state # "recalled" /\ Recalls(v.c, E)
  BY RowClosed
<1> HIDE DEF E
<1>3. /\ c \in ConsoleRec /\ c.state = v.c.state /\ c.latest = v.c.latest /\ c.ext = v.c.ext
      /\ c.delivered = v.c.delivered /\ c.snap = v.c.snap /\ c.failure = TRUE
  BY <1>1 DEF ConsoleRec
<1> HIDE DEF c
<1>4. w = [[[v EXCEPT !.rows = E] EXCEPT !.c = c] EXCEPT !.quiet = FALSE]
  BY DEF E, c, ViewRec
<1>5. w \in ViewRec(r) /\ w.c = c /\ w.rows = E
  <2> DEFINE w1 == [v EXCEPT !.rows = E]
             w2 == [w1 EXCEPT !.c = c]
  <2>1. w1 \in ViewRec(r) /\ w1.rows = E
    BY <1>2 DEF ViewRec
  <2> HIDE DEF w1
  <2>2. w2 \in ViewRec(r) /\ w2.rows = E /\ w2.c = c
    BY <1>3, <2>1 DEF ViewRec
  <2>3. w = [w2 EXCEPT !.quiet = FALSE]
    BY <1>4 DEF w1
  <2> HIDE DEF w2
  <2> QED
    BY <2>2, <2>3 DEF ViewRec
<1>6. Behind(c, E) /\ Recalls(c, E)
  BY <1>2, <1>3 DEF Behind, Recalls
<1>7. Recalled(c, E) /\ Sealed(c, E, lost) /\ SealQueued(c, E, lost)
  BY <1>2, <1>3 DEF Recalled, Sealed, SealQueued
<1> QED
  BY <1>2, <1>3, <1>5, <1>6, <1>7 DEF SettledStep, ViewInv

\* The recall has ended, one way or the other.
LEMMA RecallKeeps ==
  ASSUME NEW r \in Run, NEW v \in ViewRec(r), NEW lost \in BOOLEAN,
         ViewInv(v.c, v.rows, lost), NEW d \in v.rows, d.status = "attempting",
         d.kind = "recall",
         NEW w, w = [v EXCEPT !.rows = SetRow(v.rows, d, Closed(d)),
                              !.c.state = IF host.outcome = "sent" THEN "recalled"
                                          ELSE "recall_failed",
                              !.c.failure = host.outcome # "sent"]
  PROVE  SettledStep(r, v, w, d, lost)
<1> DEFINE E == SetRow(v.rows, d, Closed(d))
           s == IF host.outcome = "sent" THEN "recalled" ELSE "recall_failed"
           c1 == [v.c EXCEPT !.state = s]
           c == [c1 EXCEPT !.failure = host.outcome # "sent"]
<1>1. v.c \in ConsoleRec /\ v.rows \subseteq RowRec(r)
  BY DEF ViewRec
<1>2. /\ E \subseteq RowRec(r) /\ Keyed(E) /\ Behind(v.c, E) /\ Newest(E)
      /\ \A x \in E : x.status = "attempting" => x \in v.rows /\ x # d
      /\ \A x \in v.rows : x.status = "attempting" /\ x # d => x \in E
      /\ Open(E, "upsert") = {}
      /\ \A x \in E : x.kind = "recall" => ~IsOpen(x)
  BY RowClosed
<1>3. /\ s \in RecallStates /\ s \in Live \cup Frozen \cup {"none"}
      /\ s = "recalled" => host.outcome = "sent"
  BY DEF RecallStates, Frozen
<1>4. w = [[v EXCEPT !.rows = E] EXCEPT !.c = c]
  BY DEF ViewRec
<1> HIDE DEF E, s
<1>5. /\ c1 \in ConsoleRec /\ c1.state = s /\ c1.latest = v.c.latest /\ c1.ext = v.c.ext
      /\ c1.delivered = v.c.delivered /\ c1.snap = v.c.snap
  BY <1>1, <1>3 DEF ConsoleRec
<1> HIDE DEF c1
<1>6. /\ c \in ConsoleRec /\ c.state = s /\ c.latest = v.c.latest /\ c.ext = v.c.ext
      /\ c.delivered = v.c.delivered /\ c.snap = v.c.snap
  BY <1>5 DEF ConsoleRec
<1> HIDE DEF c
<1>7. w \in ViewRec(r) /\ w.c = c /\ w.rows = E
  <2> DEFINE w1 == [v EXCEPT !.rows = E]
  <2>1. w1 \in ViewRec(r) /\ w1.rows = E
    BY <1>2 DEF ViewRec
  <2> HIDE DEF w1
  <2> QED
    BY <1>4, <1>6, <2>1 DEF ViewRec, w1
<1>8. Behind(c, E) /\ Recalls(c, E)
  <2>1. \A x \in E : x.status = "attempting" => IsOpen(x)
    BY DEF IsOpen
  <2> QED
    BY <1>2, <1>3, <1>6, <2>1 DEF Behind, Recalls
<1>9. Recalled(c, E) /\ Sealed(c, E, lost) /\ SealQueued(c, E, lost)
  BY <1>2, <1>3, <1>6 DEF Recalled, Sealed, SealQueued, RecallStates
<1> QED
  BY <1>2, <1>3, <1>6, <1>7, <1>8, <1>9 DEF SettledStep, ViewInv

\* A view that has just changed.
LEMMA ViewMade ==
  ASSUME NEW r \in Run, NEW c \in ConsoleRec, NEW D, D \subseteq RowRec(r),
         NEW w, w = [c |-> c, rows |-> D, quiet |-> FALSE]
  PROVE  w \in ViewRec(r) /\ w.c = c /\ w.rows = D
BY DEF ViewRec

\* The update was sent and the card is known: what the console gained meanwhile is queued
\* again, unless it is being recalled.
LEMMA SentKeeps ==
  ASSUME NEW r \in Run, NEW v \in ViewRec(r), NEW lost \in BOOLEAN,
         ViewInv(v.c, v.rows, lost), NEW d \in v.rows, d.status = "attempting",
         d.kind = "upsert", host.outcome = "sent", host.id \in Nat,
         host.id = 0 /\ v.c.state = "terminal_sealed" => lost /\ v.c.ext = 0,
         NEW w, w = SentUpsert([v EXCEPT !.rows = SetRow(v.rows, d, Closed(d))], d)
  PROVE  SettledStep(r, v, w, d, lost)
<1> DEFINE E == SetRow(v.rows, d, Closed(d))
           w0 == [v EXCEPT !.rows = E]
<1>1. v.c \in ConsoleRec /\ v.rows \subseteq RowRec(r)
  BY DEF ViewRec
<1>2. /\ E \subseteq RowRec(r) /\ Keyed(E) /\ Behind(v.c, E) /\ Newest(E)
      /\ \A x \in E : x.status = "attempting" => x \in v.rows /\ x # d
      /\ \A x \in v.rows : x.status = "attempting" /\ x # d => x \in E
      /\ Open(E, "upsert") = {}
      /\ v.c.state # "recalled" /\ Recalls(v.c, E)
      /\ d.tag \in Nat /\ d.tag <= d.expected /\ d.expected <= v.c.latest
      /\ \A x \in E : x.kind = "upsert" => x.tag \in Nat /\ x.tag <= d.tag
  BY RowClosed
<1>3. d \in RowRec(r) /\ d.run = r /\ d.expected \in Nat
  BY <1>1 DEF RowRec
<1>4. v.c.delivered <= v.c.latest /\ v.c.delivered \in Nat /\ v.c.latest \in Nat
  BY <1>1 DEF ViewInv, ConsoleRec
<1> HIDE DEF E
<1>5. w0 \in ViewRec(r) /\ w0.c = v.c /\ w0.rows = E
  BY <1>2 DEF ViewRec
<1>6. w = SentUpsert(w0, d)
  BY DEF E
<1> HIDE DEF w0
<1>7. CASE host.id = 0
  <2>1. w = w0
    BY <1>6, <1>7 DEF SentUpsert
  <2>2. Recalled(v.c, E) /\ Sealed(v.c, E, lost) /\ SealQueued(v.c, E, lost)
    BY <1>2, <1>7 DEF Recalled, Sealed, SealQueued
  <2> QED
    BY <1>2, <1>4, <1>5, <1>7, <2>1, <2>2 DEF SettledStep, ViewInv
<1>8. CASE host.id # 0
  <2> DEFINE seq == IF d.expected > v.c.delivered THEN d.expected ELSE v.c.delivered
             c1 == [v.c EXCEPT !.ext = host.id]
             c2 == [c1 EXCEPT !.delivered = seq]
             c == [c2 EXCEPT !.failure = FALSE]
             again == seq < v.c.latest /\ v.c.state \notin RecallStates
             D == IF again THEN QueueUpsert(E, r, v.c.latest) ELSE E
  <2>1. /\ seq \in Nat /\ seq <= v.c.latest /\ d.expected <= seq
        /\ seq = d.expected \/ seq = v.c.delivered
    BY <1>2, <1>3, <1>4
  <2>2. w = [c |-> c, rows |-> D, quiet |-> FALSE]
    <3>1. (IF d.expected < w0.c.latest THEN d.expected ELSE w0.c.latest) = d.expected
      BY <1>2, <1>3, <1>4, <1>5
    <3>2. w = LET cc == [w0.c EXCEPT !.ext = host.id, !.delivered = seq, !.failure = FALSE]
              IN [c |-> cc, quiet |-> FALSE,
                  rows |-> IF seq < cc.latest /\ cc.state \notin RecallStates
                           THEN QueueUpsert(w0.rows, d.run, cc.latest) ELSE w0.rows]
      BY <1>5, <1>6, <1>8, <3>1 DEF SentUpsert
    <3>3. c = [w0.c EXCEPT !.ext = host.id, !.delivered = seq, !.failure = FALSE]
      BY <1>5
    <3>4. c.latest = v.c.latest /\ c.state = v.c.state
      BY <1>1 DEF ConsoleRec
    <3> HIDE DEF c, seq
    <3> QED
      BY <1>3, <1>5, <3>2, <3>3, <3>4
  <2> HIDE DEF seq
  <2>3. /\ c1 \in ConsoleRec /\ c1.state = v.c.state /\ c1.latest = v.c.latest
        /\ c1.ext = host.id /\ c1.snap = v.c.snap
    BY <1>1 DEF ConsoleRec
  <2> HIDE DEF c1
  <2>4. /\ c2 \in ConsoleRec /\ c2.state = v.c.state /\ c2.latest = v.c.latest
        /\ c2.ext = host.id /\ c2.snap = v.c.snap /\ c2.delivered = seq
    BY <2>1, <2>3 DEF ConsoleRec
  <2> HIDE DEF c2
  <2>5. /\ c \in ConsoleRec /\ c.state = v.c.state /\ c.latest = v.c.latest
        /\ c.ext = host.id /\ c.snap = v.c.snap /\ c.delivered = seq
    BY <2>4 DEF ConsoleRec
  <2> HIDE DEF c
  <2>6. /\ D \subseteq RowRec(r) /\ Keyed(D) /\ Newest(D) /\ Behind(c, D)
        /\ SameRecalls(E, D) /\ SameFlight(E, D)
        /\ again => Open(D, "upsert") # {}
        /\ \A x \in Open(D, "upsert") : x.expected = v.c.latest
    <3>1. CASE again
      <4>1. \A x \in E : x.kind = "upsert" => x.tag # v.c.latest
        BY <1>2, <1>3, <1>4, <2>1, <3>1
      <4>2. \A x \in E : x.kind = "upsert" => x.status # "attempting"
        BY <1>2 DEF Open
      <4>3. D = QueueUpsert(E, r, v.c.latest)
        BY <3>1
      <4>4. PICK seq2 \in Nat : seq2 = v.c.latest
        BY <1>4
      <4> DEFINE c3 == [v.c EXCEPT !.latest = seq2]
      <4>5. c3.latest = c.latest
        BY <1>1, <2>5, <4>4 DEF ConsoleRec
      <4>6. v.c.latest <= seq2
        BY <1>4, <4>4
      <4> HIDE DEF D, again
      <4>7. /\ D \subseteq RowRec(r) /\ Keyed(D) /\ Newest(D)
            /\ Behind(c3, D)
            /\ SameRecalls(E, D) /\ SameFlight(E, D)
            /\ Open(D, "upsert") # {}
            /\ \A x \in Open(D, "upsert") : x.expected = v.c.latest
        <5>1. D = QueueUpsert(E, r, seq2) /\ \A x \in E : x.kind = "upsert" => x.tag # seq2
          BY <4>1, <4>3, <4>4
        <5>2. /\ D \subseteq RowRec(r) /\ Keyed(D) /\ Newest(D)
              /\ Behind(c3, D)
              /\ SameRecalls(E, D) /\ SameFlight(E, D)
              /\ Open(D, "upsert") # {}
              /\ \A x \in Open(D, "upsert") : x.expected = seq2
          <6>1. /\ v.c \in ConsoleRec /\ E \subseteq RowRec(r)
                /\ Keyed(E) /\ Behind(v.c, E) /\ Newest(E)
            BY <1>1, <1>2
          <6> QED
            BY <4>2, <4>6, <5>1, <6>1, UpdateQueued
        <5> QED
          BY <4>4, <5>2
      <4> HIDE DEF c3
      <4>8. Behind(c, D)
        BY <4>5, <4>7 DEF Behind
      <4> QED
        BY <4>7, <4>8
    <3>2. CASE ~again
      <4>1. D = E
        BY <3>2
      <4>2. Behind(c, D)
        BY <1>2, <2>5, <4>1 DEF Behind
      <4> HIDE DEF D, again
      <4> QED
        BY <1>2, <3>2, <4>1, <4>2 DEF SameRecalls, SameFlight
    <3> QED
      BY <3>1, <3>2
  <2>7. again <=> seq < v.c.latest /\ v.c.state \notin RecallStates
    OBVIOUS
  <2> HIDE DEF D, again
  <2>8. Recalls(c, D)
    <3>1. \A x \in E : x.kind = "recall" => x.status # "attempting"
      <4>1. d \in Open(v.rows, "upsert")
        BY DEF Open
      <4> QED
        BY <1>2, <4>1 DEF ViewInv, Recalls
    <3> QED
      BY <1>2, <2>5, <2>6, <3>1 DEF Recalls, SameRecalls
  <2>9. Recalled(c, D)
    BY <1>2, <2>5 DEF Recalled
  <2>10. Sealed(c, D, lost)
    <3>1. "terminal_sealed" \notin RecallStates
      BY DEF RecallStates
    <3>2. seq = v.c.latest \/ seq < v.c.latest
      BY <1>4, <2>1
    <3> QED
      BY <2>5, <2>6, <2>7, <3>1, <3>2 DEF Sealed
  <2>11. SealQueued(c, D, lost)
    BY <2>5, <2>6 DEF SealQueued
  <2>12. w \in ViewRec(r) /\ w.c = c /\ w.rows = D
    <3>1. D \subseteq RowRec(r) /\ c \in ConsoleRec
      BY <2>5, <2>6
    <3>2. w = [c |-> c, rows |-> D, quiet |-> FALSE]
      BY <2>2
    <3> HIDE DEF c, D
    <3> QED
      BY <3>1, <3>2, ViewMade
  <2>13. /\ \A x \in D : x.status = "attempting" => x \in v.rows /\ x # d
         /\ \A x \in v.rows : x.status = "attempting" /\ x # d => x \in D
    BY <1>2, <2>6 DEF SameFlight
  <2>14. ViewInv(c, D, lost)
    BY <1>4, <2>1, <2>5, <2>6, <2>8, <2>9, <2>10, <2>11 DEF ViewInv
  <2> QED
    BY <1>8, <2>1, <2>5, <2>12, <2>13, <2>14 DEF SettledStep
<1> QED
  BY <1>7, <1>8

\* settle_delivery.
LEMMA SettledKeeps ==
  ASSUME NEW r \in Run, NEW v \in ViewRec(r), NEW lost \in BOOLEAN,
         ViewInv(v.c, v.rows, lost), NEW d \in v.rows, d.status = "attempting",
         host.outcome \in {"sent", "retry", "failed"}, host.id \in Nat,
         d.kind = "upsert" /\ host.outcome = "sent" /\ host.id = 0
           /\ v.c.state = "terminal_sealed" => lost /\ v.c.ext = 0,
         NEW w, w = Settled(v, d)
  PROVE  SettledStep(r, v, w, d, lost)
<1>1. v.c \in ConsoleRec /\ v.rows \subseteq RowRec(r)
  BY DEF ViewRec
<1>2. d.kind \in {"upsert", "recall"} /\ d.attempts \in Nat
  BY <1>1 DEF RowRec
<1>3. MaxAttempts \in Nat
  BY ConsoleAssumption
<1> DEFINE again == host.outcome = "retry" /\ d.attempts < MaxAttempts
           w0 == [v EXCEPT !.rows = SetRow(v.rows, d, Closed(d))]
<1>4. CASE again
  <2>1. ~ (d.attempts >= MaxAttempts)
    BY <1>2, <1>3, <1>4
  <2>2. w = [v EXCEPT !.rows = SetRow(v.rows, d, Retried(d))]
    BY <1>4, <2>1 DEF Settled, Retried
  <2> QED
    BY <1>4, <2>2, RetryKeeps
<1>5. CASE ~again /\ d.kind = "upsert" /\ host.outcome = "sent"
  <2>1. w = SentUpsert(w0, d)
    BY <1>5 DEF Settled, Closed
  <2> QED
    BY <1>5, <2>1, SentKeeps
<1>6. CASE ~again /\ d.kind = "upsert" /\ host.outcome # "sent"
  <2>1. host.outcome = "failed" \/ d.attempts >= MaxAttempts
    BY <1>2, <1>3, <1>6
  <2>2. w = [v EXCEPT !.rows = SetRow(v.rows, d, Closed(d)), !.c.failure = TRUE,
                      !.quiet = FALSE]
    BY <1>6, <2>1 DEF Settled, Closed
  <2> QED
    BY <1>6, <2>2, FailedKeeps
<1>7. CASE ~again /\ d.kind = "recall"
  <2>1. v.c.state # "recalled"
    BY <1>7 DEF ViewInv, Recalls, IsOpen
  <2>2. w = [v EXCEPT !.rows = SetRow(v.rows, d, Closed(d)),
                      !.c.state = IF host.outcome = "sent" THEN "recalled"
                                  ELSE "recall_failed",
                      !.c.failure = host.outcome # "sent"]
    BY <1>7, <2>1 DEF Settled, Closed
  <2> QED
    BY <1>7, <2>2, RecallKeeps
<1> QED
  BY <1>2, <1>4, <1>5, <1>6, <1>7

-------------------------------------------------------------------------------
(***************************************************************************)
(* From views to states.                                                   *)
(***************************************************************************)

\* A tick replaces the views of all runs.
LEMMA ViewsApplied ==
  ASSUME NEW view, \A r \in Run : view[r] \in ViewRec(r), Apply(view)
  PROVE  /\ console' \in [Run -> ConsoleRec] /\ quiet' \in [Run -> BOOLEAN]
         /\ rows' \subseteq UNION {RowRec(r) : r \in Run}
         /\ \A r \in Run : console'[r] = view[r].c /\ RowsOf(r)' = view[r].rows
<1>1. \A r \in Run : /\ view[r].c \in ConsoleRec /\ view[r].quiet \in BOOLEAN
                     /\ view[r].rows \subseteq RowRec(r)
  BY DEF ViewRec
<1>2. console' \in [Run -> ConsoleRec] /\ \A r \in Run : console'[r] = view[r].c
  BY <1>1 DEF Apply
<1>3. quiet' \in [Run -> BOOLEAN]
  BY <1>1 DEF Apply
<1>4. rows' = UNION {view[r].rows : r \in Run}
  BY DEF Apply
<1>5. rows' \subseteq UNION {RowRec(r) : r \in Run}
  BY <1>1, <1>4
<1>6. \A r \in Run : \A d \in RowRec(r) : d.run = r
  BY DEF RowRec
<1>7. \A r \in Run : RowsOf(r)' = view[r].rows
  <2> TAKE r \in Run
  <2>1. RowsOf(r)' = {d \in rows' : d.run = r}
    BY DEF RowsOf
  <2>2. \A d \in rows' : d.run = r => d \in view[r].rows
    BY <1>1, <1>4, <1>6
  <2>3. \A d \in view[r].rows : d \in rows' /\ d.run = r
    BY <1>1, <1>4, <1>6
  <2> QED
    BY <2>1, <2>2, <2>3
<1> QED
  BY <1>2, <1>3, <1>5, <1>7

\* The end of a run and a settlement replace the view of one run.
LEMMA ViewApplied ==
  ASSUME Typed, NEW r \in Run, NEW w \in ViewRec(r),
         console' = [console EXCEPT ![r] = w.c], quiet' = [quiet EXCEPT ![r] = w.quiet],
         rows' = (rows \ RowsOf(r)) \cup w.rows
  PROVE  /\ console' \in [Run -> ConsoleRec] /\ quiet' \in [Run -> BOOLEAN]
         /\ rows' \subseteq UNION {RowRec(s) : s \in Run}
         /\ console'[r] = w.c /\ RowsOf(r)' = w.rows
         /\ \A s \in Run \ {r} : console'[s] = console[s] /\ RowsOf(s)' = RowsOf(s)
<1>1. w.c \in ConsoleRec /\ w.quiet \in BOOLEAN /\ w.rows \subseteq RowRec(r)
  BY DEF ViewRec
<1>2. console' \in [Run -> ConsoleRec] /\ quiet' \in [Run -> BOOLEAN] /\ console'[r] = w.c
  BY <1>1 DEF Typed
<1>3. rows' \subseteq UNION {RowRec(s) : s \in Run}
  BY <1>1 DEF Typed
<1>4. \A d \in RowRec(r) : d.run = r
  BY DEF RowRec
<1>5. RowsOf(r)' = w.rows
  BY <1>1, <1>4 DEF RowsOf
<1>6. \A s \in Run \ {r} : console'[s] = console[s] /\ RowsOf(s)' = RowsOf(s)
  BY <1>1, <1>4 DEF Typed, RowsOf
<1> QED
  BY <1>2, <1>3, <1>5, <1>6

\* The hand is of claims, and what is in it is what InHand looks for.
LEMMA HandTyped ==
  ASSUME Typed
  PROVE  /\ Hand \subseteq ClaimRec
         /\ \A a \in Hand : a.run \in Run /\ a.kind \in {"upsert", "recall"}
         /\ host.pc # "idle" => host.cur \in Hand /\ host.cur.run \in Run
         /\ \A d \in rows : (\E a \in Hand : IsFor(a, d)) => InHand(d)
<1>1. host.batch \subseteq ClaimRec /\ (host.pc # "idle" => host.cur \in ClaimRec)
  BY DEF Typed, HostRec
<1>2. Hand \subseteq ClaimRec /\ (host.pc # "idle" => host.cur \in Hand)
  BY <1>1 DEF Hand
<1>3. \A a \in Hand : a.run \in Run /\ a.kind \in {"upsert", "recall"}
  BY <1>2 DEF ClaimRec
<1>4. \A a \in Hand : a \in host.batch \cup {host.cur}
  BY DEF Hand
<1>5. \A d \in rows : (\E a \in Hand : IsFor(a, d)) => InHand(d)
  BY <1>4 DEF InHand
<1> QED
  BY <1>2, <1>3, <1>5

\* A row in flight that stays in flight.
Flies(d, e) == /\ e.run = d.run /\ e.kind = d.kind /\ e.tag = d.tag /\ e.expected = d.expected
               /\ e.owner = d.owner /\ d.status = "attempting" /\ e.status = "attempting"

\* A step that leaves the Host and the chat alone and moves consoles to new sequences only.
HostApart ==
    /\ UNCHANGED <<host, chat>>
    /\ \A kinds \in {Stray, Disturbed, Blurred} : Suffered(kinds) => Suffered(kinds)'
    /\ \A r \in Run : /\ Moves(console[r], console'[r])
                      /\ \/ console'[r] = console[r] \/ console'[r].state # "terminal_sealed"
                         \/ Suffered(Disturbed)'
    /\ \A e \in rows' : e.status = "attempting" =>
         \E d \in rows : Flies(d, e) /\ (~Suffered(Stray)' => e.ripe = d.ripe)
    /\ ~Suffered(Stray)' => \A d \in rows : d.status = "attempting" => \E e \in rows' : Flies(d, e)

\* The Host and the chat still agree with the rows and the consoles after such a step.
LEMMA HostApartKeeps ==
  ASSUME Typed, ViewsInv, HandInv, CardsInv, HostApart,
         console' \in [Run -> ConsoleRec]
  PROVE  HandInv' /\ CardsInv'
<1>1. host' = host /\ chat' = chat /\ Hand' = Hand
  BY DEF HostApart, Hand
<1>2. /\ Hand \subseteq ClaimRec
      /\ \A a \in Hand : a.run \in Run /\ a.kind \in {"upsert", "recall"}
      /\ host.pc # "idle" => host.cur \in Hand /\ host.cur.run \in Run
  BY HandTyped
<1>3. /\ Suffered(Stray) => Suffered(Stray)'
      /\ Suffered(Disturbed) => Suffered(Disturbed)'
      /\ Suffered(Blurred) => Suffered(Blurred)'
  BY DEF HostApart
<1>4. \A r \in Run :
        /\ Moves(console[r], console'[r])
        /\ \/ console'[r] = console[r] \/ console'[r].state # "terminal_sealed"
           \/ Suffered(Disturbed)'
  BY DEF HostApart
<1>5. \A r \in Run : /\ console[r] \in ConsoleRec /\ console'[r] \in ConsoleRec
                     /\ console[r].delivered <= console[r].latest
  BY DEF Typed, ViewsInv, ViewInv
<1>6. \A r \in Run :
        /\ console'[r].latest \in Nat /\ console[r].latest \in Nat
        /\ console[r].delivered \in Nat /\ console[r].latest <= console'[r].latest
        /\ console'[r].ext = console[r].ext /\ console'[r].delivered = console[r].delivered
        /\ console'[r] = console[r] \/ (/\ console[r].latest < console'[r].latest
                                        /\ console[r].state \notin RecallStates
                                        /\ console'[r].state \notin RecallStates)
  BY <1>4, <1>5 DEF Moves, ConsoleRec
<1>7. ClaimsKnown'
  <2>1. \A a \in Hand : a.expected \in Nat
    BY <1>2 DEF ClaimRec
  <2> QED
    BY <1>1, <1>2, <1>6, <2>1 DEF HandInv, ClaimsKnown
<1>8. ClaimsAgree'
  <2> SUFFICES ASSUME NEW a \in Hand, NEW e \in rows', IsFor(a, e), Owned(e)'
               PROVE  a.expected = e.expected /\ a.upd = console'[a.run].ext
    BY <1>1 DEF ClaimsAgree
  <2>1. e.status = "attempting" /\ e.owner = host.worker
    BY <1>1 DEF Owned
  <2>2. PICK d \in rows : Flies(d, e)
    BY <2>1 DEF HostApart
  <2>3. IsFor(a, d) /\ Owned(d)
    BY <2>1, <2>2 DEF IsFor, Owned, Flies
  <2>4. a.expected = d.expected /\ a.upd = console[a.run].ext
    BY <2>3 DEF HandInv, ClaimsAgree
  <2> QED
    BY <2>2, <2>4, <1>2, <1>6 DEF Flies
<1>9. ClaimsKeyed'
  BY <1>1 DEF HandInv, ClaimsKeyed
<1>10. HandExact'
  <2> SUFFICES ASSUME ~Suffered(Stray)'
               PROVE  /\ \A e \in rows' : e.status = "attempting" =>
                            /\ ~e.ripe /\ e.owner = host.worker
                            /\ \E a \in Hand : IsFor(a, e)
                      /\ \A a \in Hand : \E e \in rows' : IsFor(a, e) /\ Owned(e)'
    BY <1>1 DEF HandExact
  <2>1. ~Suffered(Stray)
    BY <1>3
  <2>2. ASSUME NEW e \in rows', e.status = "attempting"
        PROVE  ~e.ripe /\ e.owner = host.worker /\ \E a \in Hand : IsFor(a, e)
    <3>1. PICK d \in rows : Flies(d, e) /\ e.ripe = d.ripe
      BY <2>2 DEF HostApart
    <3>2. ~d.ripe /\ d.owner = host.worker /\ \E a \in Hand : IsFor(a, d)
      BY <2>1, <3>1 DEF HandInv, HandExact, Flies
    <3> QED
      BY <3>1, <3>2 DEF Flies, IsFor
  <2>3. ASSUME NEW a \in Hand
        PROVE  \E e \in rows' : IsFor(a, e) /\ Owned(e)'
    <3>1. PICK d \in rows : IsFor(a, d) /\ Owned(d)
      BY <2>1 DEF HandInv, HandExact
    <3>2. PICK e \in rows' : Flies(d, e)
      BY <3>1 DEF HostApart, Owned
    <3> QED
      BY <3>1, <3>2, <1>1 DEF Flies, IsFor, Owned
  <2> QED
    BY <2>2, <2>3
<1>11. ExtInv'
  BY <1>1, <1>6 DEF CardsInv, ExtInv
<1>12. SendInv'
  <2> SUFFICES ASSUME host.pc = "send", host.cur.kind = "upsert"
               PROVE  LET c == console'[host.cur.run] IN
                      /\ c.delivered <= host.cur.expected
                      /\ c.state = "terminal_sealed" /\ host.cur.expected = c.latest
                           => host.shown = c.snap
    BY <1>1 DEF SendInv, CurConsole, Updating
  <2> DEFINE r == host.cur.run
  <2>1. /\ r \in Run /\ host.cur.expected \in Nat /\ host.cur.expected <= console[r].latest
    BY <1>2 DEF HandInv, ClaimsKnown, ClaimRec
  <2>2. /\ console[r].delivered <= host.cur.expected
        /\ console[r].state = "terminal_sealed" /\ host.cur.expected = console[r].latest
             => host.shown = console[r].snap
    BY DEF CardsInv, SendInv, CurConsole, Updating
  <2> HIDE DEF r
  <2>3. CASE console'[r] = console[r]
    BY <2>2, <2>3 DEF r
  <2>4. CASE console[r].latest < console'[r].latest
    BY <2>1, <2>2, <2>4, <1>6 DEF r
  <2> QED
    BY <2>1, <2>3, <2>4, <1>6
<1>13. SentInv'
  <2> SUFFICES ASSUME host.pc = "settle"
               PROVE  LET c == console'[host.cur.run] IN
                 /\ host.id <= Len(chat[host.cur.run])
                 /\ host.outcome = "sent" /\ host.cur.kind = "upsert" =>
                      /\ host.cur.upd # 0 => host.id = host.cur.upd
                      /\ host.id # 0 /\ c.state = "terminal_sealed"
                           /\ host.cur.expected = c.latest
                           => chat[host.cur.run][host.id] = c.snap
                      /\ host.id = 0 /\ c.state = "terminal_sealed" => Suffered(Disturbed)'
    BY <1>1 DEF SentInv, CurConsole, Updating
  <2> DEFINE r == host.cur.run
  <2>1. /\ r \in Run /\ host.cur.expected \in Nat
        /\ host.cur.kind = "upsert" => host.cur.expected <= console[r].latest
    BY <1>2 DEF HandInv, ClaimsKnown, ClaimRec
  <2>2. /\ host.id <= Len(chat[r])
        /\ host.outcome = "sent" /\ host.cur.kind = "upsert" =>
             /\ host.cur.upd # 0 => host.id = host.cur.upd
             /\ host.id # 0 /\ console[r].state = "terminal_sealed"
                  /\ host.cur.expected = console[r].latest
                  => chat[r][host.id] = console[r].snap
             /\ host.id = 0 /\ console[r].state = "terminal_sealed" => Suffered(Disturbed)
    BY DEF CardsInv, SentInv, CurConsole, Updating
  <2> HIDE DEF r
  <2>3. CASE console'[r] = console[r]
    BY <2>2, <2>3, <1>3 DEF r
  <2>4. CASE console'[r] # console[r]
    <3>1. console[r].latest < console'[r].latest
      BY <2>1, <2>4, <1>6
    <3>2. host.cur.kind = "upsert" => host.cur.expected # console'[r].latest
      BY <2>1, <3>1, <1>6
    <3>3. console'[r].state = "terminal_sealed" => Suffered(Disturbed)'
      BY <2>1, <2>4, <1>4
    <3> QED
      BY <2>2, <3>2, <3>3 DEF r
  <2> QED
    BY <2>3, <2>4
<1>14. ChatInv'
  <2> SUFFICES ASSUME ~Suffered(Blurred)'
               PROVE  /\ \A r \in Run :
                           /\ Len(chat[r]) <= 1
                           /\ console'[r].ext = 0 => Len(chat[r]) = 0 \/ FirstSent(r)
                           /\ console'[r].state = "recalled" => AllGone(r)
                      /\ host.pc = "settle" /\ host.outcome = "sent" /\ host.cur.kind = "recall"
                           => AllGone(host.cur.run)
    BY <1>1 DEF ChatInv, FirstSent, AllGone, Updating
  <2>1. ~Suffered(Blurred)
    BY <1>3
  <2> QED
    BY <2>1, <1>6 DEF CardsInv, ChatInv, RecallStates
<1>15. DeliveredIsShown'
  <2> SUFFICES ASSUME NEW r \in Run, console'[r].state = "terminal_sealed",
                      console'[r].delivered = console'[r].latest
               PROVE  console'[r].ext # 0 /\ chat[r][console'[r].ext] = console'[r].snap
    BY <1>1 DEF DeliveredIsShown
  <2>1. console'[r] = console[r]
    BY <1>5, <1>6
  <2> QED
    BY <2>1 DEF CardsInv, DeliveredIsShown
<1> QED
  BY <1>7, <1>8, <1>9, <1>10, <1>11, <1>12, <1>13, <1>14, <1>15 DEF HandInv, CardsInv

-------------------------------------------------------------------------------
(***************************************************************************)
(* The steps of the runs.                                                  *)
(***************************************************************************)

\* No run has started and nothing is known of any card.
LEMMA InitHolds == Init => ConsoleInv
<1> SUFFICES ASSUME Init
             PROVE  ConsoleInv
  OBVIOUS
<1>1. Cardinality(Run) \in Nat /\ MaxFaults \in Nat
  BY ConsoleAssumption, FS_CardinalityType
<1>2. NoConsole \in ConsoleRec /\ NoConsole.ext = 0 /\ NoConsole.state = "none"
        /\ NoConsole.delivered = 0 /\ NoConsole.latest = 0
  BY DEF NoConsole, ConsoleRec, RunStatus, Content, Gone
<1>3. Idle(1) \in HostRec /\ Idle(1).pc = "idle" /\ Idle(1).cur = NoClaim /\ Idle(1).batch = {}
  BY DEF Idle, HostRec, Content, Gone
<1>4. /\ \A r \in Run : console[r] = NoConsole /\ chat[r] = <<>> /\ RowsOf(r) = {}
      /\ host = Idle(1) /\ rows = {} /\ faults = <<>> /\ Hand = {}
  BY <1>3 DEF Init, RowsOf, Hand
<1>5. Typed
  <2>1. /\ run \in [Run -> RunStatus] /\ start \in [Run -> 0 .. Cardinality(Run)]
        /\ rev \in [Run -> Nat] /\ text \in [Run -> {"settled", "streaming"}]
        /\ console \in [Run -> ConsoleRec] /\ quiet \in [Run -> BOOLEAN]
        /\ chat \in [Run -> Seq(Content)]
        /\ \A r \in Run : run[r] = "queued" => start[r] = 0
    BY <1>1, <1>2 DEF Init, RunStatus
  <2>2. faults \in Seq(Fault) /\ Len(faults) <= MaxFaults
    BY <1>1, <1>4
  <2> QED
    BY <1>3, <1>4, <2>1, <2>2 DEF Typed
<1>6. ViewsInv
  BY <1>2, <1>4 DEF ViewsInv, ViewInv, Keyed, Behind, Newest, Recalls, Recalled, Sealed,
                    SealQueued
<1>7. HandInv
  BY <1>3, <1>4 DEF HandInv, ClaimsKnown, ClaimsAgree, ClaimsKeyed, HandExact
<1>8. CardsInv
  BY <1>2, <1>3, <1>4 DEF CardsInv, ExtInv, SendInv, SentInv, ChatInv, DeliveredIsShown
<1> QED
  BY <1>5, <1>6, <1>7, <1>8 DEF ConsoleInv

\* More faults excuse more.
LEMMA LostGrows ==
  ASSUME NEW c, NEW D, ViewInv(c, D, Suffered(Disturbed)),
         Suffered(Disturbed) => Suffered(Disturbed)'
  PROVE  ViewInv(c, D, Suffered(Disturbed)')
BY DEF ViewInv, Sealed, SealQueued

\* What only changes the runs.
LEMMA ConsolesKept ==
  ASSUME ConsoleInv, UNCHANGED <<console, rows, host, chat, faults>>
  PROVE  ViewsInv' /\ HandInv' /\ CardsInv'
<1>1. \A r \in Run : RowsOf(r)' = RowsOf(r)
  BY DEF RowsOf
<1>2. \A kinds \in {Stray, Disturbed, Blurred} : Suffered(kinds)' <=> Suffered(kinds)
  BY FaultsSame
<1>3. ViewsInv'
  <2> SUFFICES ASSUME NEW r \in Run
               PROVE  ViewInv(console'[r], RowsOf(r)', Suffered(Disturbed)')
    BY DEF ViewsInv
  <2>1. ViewInv(console[r], RowsOf(r), Suffered(Disturbed))
    BY DEF ConsoleInv, ViewsInv
  <2>2. ViewInv(console[r], RowsOf(r), Suffered(Disturbed)')
    BY <1>2, <2>1, LostGrows
  <2> QED
    BY <1>1, <2>2
<1>4. HostApart
  BY <1>2 DEF HostApart, Moves, Flies
<1>5. console' \in [Run -> ConsoleRec]
  BY DEF ConsoleInv, Typed
<1> QED
  BY <1>3, <1>4, <1>5, HostApartKeeps DEF ConsoleInv

\* A run starts after those that have started.
LEMMA StartRunKeeps ==
  ASSUME ConsoleInv, NEW r \in Run, StartRun(r)
  PROVE  ConsoleInv'
<1>1. ViewsInv' /\ HandInv' /\ CardsInv'
  BY ConsolesKept DEF StartRun
<1> DEFINE S == {s \in Run : start[s] # 0}
<1>2. r \notin S /\ S \subseteq Run
  BY DEF ConsoleInv, Typed, StartRun
<1>3. IsFiniteSet(S) /\ Cardinality(S) \in Nat /\ Cardinality(Run) \in Nat
  BY <1>2, ConsoleAssumption, FS_Subset, FS_CardinalityType
<1>4. 1 + Cardinality(S) <= Cardinality(Run)
  <2>1. Cardinality(S \cup {r}) = Cardinality(S) + 1
    BY <1>2, <1>3, FS_AddElement
  <2>2. S \cup {r} \in SUBSET Run
    BY <1>2
  <2>3. Cardinality(S \cup {r}) <= Cardinality(Run)
    BY <2>2, ConsoleAssumption, FS_Subset
  <2> QED
    BY <2>1, <2>3, <1>3
<1>5. start' \in [Run -> 0 .. Cardinality(Run)]
  <2>1. start' = [start EXCEPT ![r] = 1 + Cardinality(S)]
    BY DEF StartRun
  <2> HIDE DEF S
  <2> QED
    BY <2>1, <1>3, <1>4 DEF ConsoleInv, Typed
<1>6. run' \in [Run -> RunStatus]
      /\ \A s \in Run : run'[s] = "queued" => s # r /\ run[s] = "queued"
  BY DEF ConsoleInv, Typed, StartRun, RunStatus
<1>7. \A s \in Run : run'[s] = "queued" => start'[s] = 0
  BY <1>6 DEF ConsoleInv, Typed, StartRun
<1>8. Typed'
  BY <1>5, <1>6, <1>7 DEF ConsoleInv, Typed, StartRun
<1> QED
  BY <1>1, <1>8 DEF ConsoleInv

\* Evidence changes what the next snapshot shows, and nothing that was sealed.
LEMMA EvidenceKeeps ==
  ASSUME ConsoleInv, NEW r \in Run, NEW streaming \in BOOLEAN, Evidence(r, streaming)
  PROVE  ConsoleInv'
<1>1. ViewsInv' /\ HandInv' /\ CardsInv'
  BY ConsolesKept DEF Evidence
<1>2. rev' \in [Run -> Nat] /\ text' \in [Run -> {"settled", "streaming"}]
  BY DEF ConsoleInv, Typed, Evidence
<1>3. Typed'
  BY <1>2 DEF ConsoleInv, Typed, Evidence
<1> QED
  BY <1>1, <1>3 DEF ConsoleInv

\* The settlement of the text blocks changes no console.
LEMMA SettleTextKeeps ==
  ASSUME ConsoleInv, NEW r \in Run, SettleText(r)
  PROVE  ConsoleInv'
<1>1. ViewsInv' /\ HandInv' /\ CardsInv'
  BY ConsolesKept DEF SettleText
<1>2. text' \in [Run -> {"settled", "streaming"}]
  BY DEF ConsoleInv, Typed, SettleText
<1>3. Typed'
  BY <1>2 DEF ConsoleInv, Typed, SettleText
<1> QED
  BY <1>1, <1>3 DEF ConsoleInv

\* Nor does the quiet window by itself.
LEMMA QuietElapsesKeeps ==
  ASSUME ConsoleInv, NEW r \in Run, QuietElapses(r)
  PROVE  ConsoleInv'
<1>1. ViewsInv' /\ HandInv' /\ CardsInv'
  BY ConsolesKept DEF QuietElapses
<1>2. quiet' \in [Run -> BOOLEAN]
  BY DEF ConsoleInv, Typed, QuietElapses
<1>3. Typed'
  BY <1>2 DEF ConsoleInv, Typed, QuietElapses
<1> QED
  BY <1>1, <1>3 DEF ConsoleInv

\* Nor does a step of something else.
LEMMA StutterKeeps ==
  ASSUME ConsoleInv, UNCHANGED vars
  PROVE  ConsoleInv'
<1>1. ViewsInv' /\ HandInv' /\ CardsInv'
  BY ConsolesKept DEF vars
<1>2. Typed'
  BY DEF ConsoleInv, Typed, vars
<1> QED
  BY <1>1, <1>2 DEF ConsoleInv

\* The rows after a step are those of the runs after it.
LEMMA NextRows ==
  ASSUME rows' \subseteq UNION {RowRec(r) : r \in Run}
  PROVE  /\ \A e \in rows' : e.run \in Run /\ e \in RowsOf(e.run)'
         /\ \A r \in Run : \A e \in RowsOf(r)' : e \in rows' /\ e.run = r
BY DEF RowsOf, RowRec

\* The end of a run may project its console, and does not seal it.
LEMMA EndRunKeeps ==
  ASSUME ConsoleInv, NEW r \in Run, EndRun(r)
  PROVE  ConsoleInv'
<1> DEFINE v == [View(r) EXCEPT !.quiet = FALSE]
           w == IF r \in TurnRuns THEN Materialize(r, "ended", v) ELSE v
           lost == Suffered(Disturbed)
<1>1. Typed /\ ViewsInv /\ HandInv /\ CardsInv
  BY DEF ConsoleInv
<1>2. v \in ViewRec(r) /\ v.c = console[r] /\ v.rows = RowsOf(r) /\ ~v.quiet
  BY <1>1, ViewTyped DEF ViewRec
<1>3. /\ console' = [console EXCEPT ![r] = w.c] /\ quiet' = [quiet EXCEPT ![r] = w.quiet]
      /\ rows' = (rows \ RowsOf(r)) \cup w.rows
      /\ run' = [run EXCEPT ![r] = "ended"]
      /\ UNCHANGED <<start, rev, text, host, chat, faults>>
  BY DEF EndRun
<1> HIDE DEF v
<1>4. ViewInv(v.c, v.rows, lost) /\ lost \in BOOLEAN
  BY <1>1, <1>2 DEF ViewsInv, Suffered
<1>5. /\ w \in ViewRec(r) /\ ViewInv(w.c, w.rows, lost)
      /\ Moves(v.c, w.c) /\ SameFlight(v.rows, w.rows)
      /\ w.c = v.c \/ w.c.state # "terminal_sealed"
  <2>1. CASE r \in TurnRuns
    <3>1. w = Materialize(r, "ended", v) /\ "ended" \in RunStatus
      BY <2>1 DEF RunStatus
    <3> HIDE DEF w
    <3>2. /\ w \in ViewRec(r) /\ ViewInv(w.c, w.rows, lost)
          /\ Moves(v.c, w.c) /\ SameFlight(v.rows, w.rows)
          /\ w.c = v.c \/ w.c.state # "terminal_sealed" \/ v.quiet
      <4> HIDE DEF lost
      <4> QED
        BY <1>1, <1>2, <1>4, <3>1, MaterializeKeeps
    <3> QED
      BY <1>2, <3>2
  <2>2. CASE r \notin TurnRuns
    BY <1>2, <1>4, <2>2 DEF Moves, SameFlight
  <2> QED
    BY <2>1, <2>2
<1> HIDE DEF w
<1>6. /\ console' \in [Run -> ConsoleRec] /\ quiet' \in [Run -> BOOLEAN]
      /\ rows' \subseteq UNION {RowRec(s) : s \in Run}
      /\ console'[r] = w.c /\ RowsOf(r)' = w.rows
      /\ \A s \in Run \ {r} : console'[s] = console[s] /\ RowsOf(s)' = RowsOf(s)
  BY <1>1, <1>3, <1>5, ViewApplied
<1>7. \A kinds \in {Stray, Disturbed, Blurred} : Suffered(kinds)' <=> Suffered(kinds)
  BY <1>3, FaultsSame
<1>8. ViewsInv'
  <2> SUFFICES ASSUME NEW s \in Run
               PROVE  ViewInv(console'[s], RowsOf(s)', Suffered(Disturbed)')
    BY DEF ViewsInv
  <2>1. ViewInv(console'[s], RowsOf(s)', Suffered(Disturbed))
    BY <1>1, <1>5, <1>6 DEF ViewsInv
  <2> QED
    BY <1>7, <2>1, LostGrows
<1>9. HostApart
  <2>1. \A s \in Run : /\ Moves(console[s], console'[s])
                       /\ console'[s] = console[s] \/ console'[s].state # "terminal_sealed"
    BY <1>2, <1>5, <1>6 DEF Moves
  <2>2. \A e \in rows' : e.status = "attempting" => e \in rows
    <3> TAKE e \in rows'
    <3> HAVE e.status = "attempting"
    <3>1. e.run \in Run /\ e \in RowsOf(e.run)'
      BY <1>6, NextRows
    <3>2. e \in RowsOf(e.run)
      BY <1>2, <1>5, <1>6, <3>1 DEF SameFlight
    <3> QED
      BY <3>2 DEF RowsOf
  <2>3. \A d \in rows : d.status = "attempting" => d \in rows'
    <3> TAKE d \in rows
    <3> HAVE d.status = "attempting"
    <3>1. d.run \in Run /\ d \in RowsOf(d.run)
      BY <1>1, RowsTyped
    <3>2. d \in RowsOf(d.run)'
      BY <1>2, <1>5, <1>6, <3>1 DEF SameFlight
    <3> QED
      BY <3>1, <3>2, <1>6, NextRows
  <2> QED
    BY <1>3, <1>7, <2>1, <2>2, <2>3 DEF HostApart, Flies
<1>10. HandInv' /\ CardsInv'
  BY <1>1, <1>6, <1>9, HostApartKeeps
<1>11. Typed'
  <2>1. run' \in [Run -> RunStatus] /\ \A s \in Run : run'[s] = "queued" => start'[s] = 0
    BY <1>1, <1>3 DEF Typed, RunStatus
  <2> QED
    BY <1>1, <1>3, <1>6, <2>1 DEF Typed
<1> QED
  BY <1>8, <1>10, <1>11 DEF ConsoleInv

\* A lease or a backoff runs out; without a stray fault it is that of no row in flight.
LEMMA ElapseKeeps ==
  ASSUME ConsoleInv, NEW d \in rows, Elapse(d)
  PROVE  ConsoleInv'
<1> DEFINE e == [d EXCEPT !.ripe = TRUE]
           r == d.run
<1>1. Typed /\ ViewsInv /\ HandInv /\ CardsInv
  BY DEF ConsoleInv
<1>2. d.run \in Run /\ d \in RowsOf(r) /\ d \in RowRec(r) /\ RowsOf(r) \subseteq RowRec(r)
  <2>1. d.run \in Run /\ d \in RowsOf(d.run) /\ d \in RowRec(d.run)
    BY <1>1 DEF Typed, RowsOf, RowRec
  <2>2. r = d.run
    OBVIOUS
  <2> HIDE DEF r
  <2>3. RowsOf(r) \subseteq RowRec(r)
    BY <1>1, <2>1, <2>2, RowsTyped
  <2> QED
    BY <2>1, <2>2, <2>3
<1>3. /\ e \in RowRec(r) /\ e.run = r /\ e.kind = d.kind /\ e.tag = d.tag
      /\ e.expected = d.expected /\ e.status = d.status /\ e.owner = d.owner
  BY <1>2 DEF RowRec
<1>4. /\ rows' = (rows \ {d}) \cup {e}
      /\ UNCHANGED <<run, start, rev, text, console, quiet, host, chat>>
  BY DEF Elapse
<1> HIDE DEF e
<1>5. /\ faults' \in Seq(Fault) /\ Len(faults') <= MaxFaults
      /\ \A kinds \in {Stray, Disturbed, Blurred} : Suffered(kinds) => Suffered(kinds)'
      /\ d.status = "attempting" => Suffered(Stray)'
  <2>1. faults \in Seq(Fault) /\ Len(faults) <= MaxFaults
    BY <1>1 DEF Typed
  <2>2. CASE d.status = "attempting" /\ InHand(d)
    <3>1. Suffer("slow")
      BY <2>2 DEF Elapse
    <3> QED
      BY <2>1, <3>1, FaultAdded DEF Stray
  <2>3. CASE ~ (d.status = "attempting" /\ InHand(d))
    <3>1. UNCHANGED faults
      BY <2>3 DEF Elapse
    <3>2. \A kinds \in {Stray, Disturbed, Blurred} : Suffered(kinds)' <=> Suffered(kinds)
      BY <3>1, FaultsSame
    <3>3. d.status = "attempting" => Suffered(Stray)
      BY <1>1, <2>3, HandTyped DEF HandInv, HandExact
    <3> QED
      BY <2>1, <3>1, <3>2, <3>3
  <2> QED
    BY <2>2, <2>3
<1>6. rows' \subseteq UNION {RowRec(s) : s \in Run}
  BY <1>1, <1>2, <1>3, <1>4 DEF Typed
<1>7. RowsOf(r)' = (RowsOf(r) \ {d}) \cup {e}
  BY <1>2, <1>3, <1>4 DEF RowsOf
<1>8. \A s \in Run \ {r} : RowsOf(s)' = RowsOf(s)
  BY <1>3, <1>4 DEF RowsOf
<1>9. ViewInv(console[r], RowsOf(r)', Suffered(Disturbed))
  <2> DEFINE D == RowsOf(r)
             E == RowsOf(r)'
             c == console[r]
  <2>1. ViewInv(c, D, Suffered(Disturbed))
    BY <1>1, <1>2 DEF ViewsInv
  <2>2. E = (D \ {d}) \cup {e} /\ d \in D
    BY <1>2, <1>7
  <2>3. IsOpen(e) <=> IsOpen(d)
    BY <1>3 DEF IsOpen
  <2> HIDE DEF D, E, c
  <2>4. Keyed(E) /\ Behind(c, E) /\ Newest(E)
    <3>1. Keyed(D) /\ Behind(c, D) /\ Newest(D)
      BY <2>1 DEF ViewInv
    <3>2. Keyed(E)
      BY <1>3, <2>2, <3>1 DEF Keyed
    <3>3. Behind(c, E)
      BY <1>3, <2>2, <2>3, <3>1 DEF Behind
    <3>4. Newest(E)
      BY <1>3, <2>2, <2>3, <3>1 DEF Newest
    <3> QED
      BY <3>2, <3>3, <3>4
  <2>5. Open(E, "upsert") = {} <=> Open(D, "upsert") = {}
    BY <1>3, <2>2 DEF Open
  <2>6. Recalls(c, E)
    BY <1>3, <2>1, <2>2, <2>3, <2>5 DEF ViewInv, Recalls
  <2>7. Recalled(c, E) /\ Sealed(c, E, Suffered(Disturbed))
    BY <2>1, <2>5 DEF ViewInv, Recalled, Sealed
  <2>8. SealQueued(c, E, Suffered(Disturbed))
    BY <1>3, <2>1, <2>2 DEF ViewInv, SealQueued, Open
  <2> QED
    BY <2>1, <2>4, <2>6, <2>7, <2>8 DEF ViewInv, E, c
<1>10. ViewsInv'
  <2> SUFFICES ASSUME NEW s \in Run
               PROVE  ViewInv(console'[s], RowsOf(s)', Suffered(Disturbed)')
    BY DEF ViewsInv
  <2>1. ViewInv(console[s], RowsOf(s)', Suffered(Disturbed))
    BY <1>1, <1>8, <1>9 DEF ViewsInv
  <2> QED
    BY <1>4, <1>5, <2>1, LostGrows
<1>11. HostApart
  <2>1. \A x \in rows' : x.status = "attempting" =>
          \E y \in rows : Flies(y, x) /\ (~Suffered(Stray)' => x.ripe = y.ripe)
    <3> TAKE x \in rows'
    <3> HAVE x.status = "attempting"
    <3>1. CASE x = e
      BY <1>3, <1>5, <3>1 DEF Flies
    <3>2. CASE x \in rows
      BY <3>2 DEF Flies
    <3> QED
      BY <1>4, <3>1, <3>2
  <2>2. ~Suffered(Stray)' => \A y \in rows : y.status = "attempting" =>
                               \E x \in rows' : Flies(y, x)
    BY <1>4, <1>5 DEF Flies
  <2> QED
    BY <1>4, <1>5, <2>1, <2>2 DEF HostApart, Moves
<1>12. HandInv' /\ CardsInv'
  BY <1>1, <1>4, <1>11, HostApartKeeps DEF Typed
<1>13. Typed'
  BY <1>1, <1>4, <1>5, <1>6 DEF Typed
<1> QED
  BY <1>10, <1>12, <1>13 DEF ConsoleInv

-------------------------------------------------------------------------------
(***************************************************************************)
(* The steps of the Hosts.                                                 *)
(***************************************************************************)

\* The tick of the Host of another provider: an update in flight stays in flight unless its lease
\* is over, and a console that is sealed now is one that another Host disturbed.
LEMMA OtherTickKeeps ==
  ASSUME ConsoleInv, OtherTick
  PROVE  ConsoleInv'
<1> DEFINE m(r) == Materialize(r, run[r], View(r))
           view == [r \in Run |-> Expire(m(r))]
<1>1. Typed /\ ViewsInv /\ HandInv /\ CardsInv
  BY DEF ConsoleInv
<1>2. /\ Suffer("other") /\ Apply(view)
      /\ UNCHANGED <<run, start, rev, text, host, chat>>
  BY DEF OtherTick
<1>3. /\ faults' \in Seq(Fault) /\ Len(faults') <= MaxFaults
      /\ \A kinds \in {Stray, Disturbed, Blurred} : Suffered(kinds) => Suffered(kinds)'
      /\ Suffered(Disturbed)'
  <2>1. faults \in Seq(Fault)
    BY <1>1 DEF Typed
  <2> QED
    BY <1>2, <2>1, FaultAdded DEF Disturbed
<1>4. \A r \in Run :
        /\ m(r) \in ViewRec(r) /\ ViewInv(m(r).c, m(r).rows, TRUE)
        /\ Moves(console[r], m(r).c) /\ SameFlight(RowsOf(r), m(r).rows)
  <2> TAKE r \in Run
  <2>1. /\ View(r) \in ViewRec(r) /\ View(r).c = console[r] /\ View(r).rows = RowsOf(r)
    BY <1>1, ViewTyped
  <2>2. ViewInv(View(r).c, View(r).rows, TRUE)
    BY <1>1, <2>1 DEF ViewsInv, ViewInv, Sealed, SealQueued
  <2>3. run[r] \in RunStatus
    BY <1>1 DEF Typed
  <2>4. PICK w : w = m(r)
    OBVIOUS
  <2> HIDE DEF m
  <2>5. w = Materialize(r, run[r], View(r))
    BY <2>4 DEF m
  <2>6. /\ w \in ViewRec(r) /\ ViewInv(w.c, w.rows, TRUE)
        /\ Moves(View(r).c, w.c) /\ SameFlight(View(r).rows, w.rows)
    BY <1>1, <2>1, <2>2, <2>3, <2>5, MaterializeKeeps
  <2> QED
    BY <2>1, <2>4, <2>6
<1>5. \A r \in Run :
        /\ view[r] \in ViewRec(r) /\ ViewInv(view[r].c, view[r].rows, TRUE)
        /\ Moves(console[r], view[r].c)
        /\ \A d \in view[r].rows : d.status = "attempting" => d \in RowsOf(r)
        /\ \A d \in RowsOf(r) : d.status = "attempting" /\ ~d.ripe => d \in view[r].rows
  <2> TAKE r \in Run
  <2>1. view[r] = Expire(m(r))
    OBVIOUS
  <2>2. /\ m(r) \in ViewRec(r) /\ ViewInv(m(r).c, m(r).rows, TRUE)
        /\ Moves(console[r], m(r).c) /\ SameFlight(RowsOf(r), m(r).rows)
    BY <1>4
  <2> HIDE DEF m, view
  <2>3. /\ view[r] \in ViewRec(r) /\ ViewInv(view[r].c, view[r].rows, TRUE)
        /\ view[r].c = m(r).c
        /\ \A d \in view[r].rows : d.status = "attempting" => d \in m(r).rows /\ ~d.ripe
        /\ \A d \in m(r).rows : d.status = "attempting" /\ ~d.ripe => d \in view[r].rows
    BY <2>1, <2>2, ExpireKeeps
  <2> QED
    BY <2>2, <2>3 DEF SameFlight
<1> HIDE DEF view, m
<1>6. /\ console' \in [Run -> ConsoleRec] /\ quiet' \in [Run -> BOOLEAN]
      /\ rows' \subseteq UNION {RowRec(r) : r \in Run}
      /\ \A r \in Run : console'[r] = view[r].c /\ RowsOf(r)' = view[r].rows
  <2>1. \A r \in Run : view[r] \in ViewRec(r)
    BY <1>5
  <2> QED
    BY <1>2, <2>1, ViewsApplied
<1>7. ViewsInv'
  <2>1. Suffered(Disturbed)' = TRUE
    BY <1>3 DEF Suffered
  <2> QED
    BY <1>5, <1>6, <2>1 DEF ViewsInv
<1>8. HostApart
  <2>1. \A e \in rows' : e.status = "attempting" => e \in rows
    <3> TAKE e \in rows'
    <3> HAVE e.status = "attempting"
    <3>1. e.run \in Run /\ e \in RowsOf(e.run)'
      BY <1>6, NextRows
    <3>2. e \in RowsOf(e.run)
      BY <1>5, <1>6, <3>1
    <3> QED
      BY <3>2 DEF RowsOf
  <2>2. ~Suffered(Stray)' => \A d \in rows : d.status = "attempting" => d \in rows'
    <3> SUFFICES ASSUME ~Suffered(Stray)', NEW d \in rows, d.status = "attempting"
                 PROVE  d \in rows'
      OBVIOUS
    <3>1. ~d.ripe
      BY <1>1, <1>3 DEF HandInv, HandExact
    <3>2. d.run \in Run /\ d \in RowsOf(d.run)
      BY <1>1 DEF Typed, RowsOf, RowRec
    <3>3. d \in RowsOf(d.run)'
      BY <1>5, <1>6, <3>1, <3>2
    <3> QED
      BY <3>2, <3>3, <1>6, NextRows
  <2> QED
    BY <1>2, <1>3, <1>5, <1>6, <2>1, <2>2 DEF HostApart, Flies
<1>9. HandInv' /\ CardsInv'
  BY <1>1, <1>6, <1>8, HostApartKeeps
<1>10. Typed'
  BY <1>1, <1>2, <1>3, <1>6 DEF Typed
<1> QED
  BY <1>7, <1>9, <1>10 DEF ConsoleInv

\* The claims of a worker on the rows D of run r, and the rows E they leave.
ClaimsMade(D, E, worker) ==
    /\ \A d \in Eligible(D) : \E e \in E : ClaimedRow(e, d, worker)
    /\ \A e \in E : e.status = "attempting" =>
         e \in D \/ \E d \in Eligible(D) : ClaimedRow(e, d, worker)

\* What a tick may make of console c of a run: a new sequence, then a recall.
TickedTo(c, e) ==
    /\ e.ext = c.ext /\ e.delivered = c.delivered /\ c.latest <= e.latest
    /\ e.state = "terminal_sealed" /\ e.delivered = e.latest => e = c
    /\ e.state = "recalled" => c.state = "recalled" \/ c.ext = 0

\* A tick brings a run up to date, recalls its card, and returns expired leases.
Ticked(r) == Expire(Supersede(r, Materialize(r, run[r], View(r))))

\* A tick up to the claims, as a step of a view.
LEMMA TickedKeeps ==
  ASSUME Typed, ViewsInv, HandInv, host.pc = "idle", host.batch = {}, NEW r \in Run,
         NEW w, w = Ticked(r)
  PROVE  /\ w \in ViewRec(r) /\ ViewInv(w.c, w.rows, Suffered(Disturbed))
         /\ TickedTo(console[r], w.c)
         /\ \A d \in w.rows : d.status = "attempting" => d \in RowsOf(r)
<1> DEFINE lost == Suffered(Disturbed)
           v == View(r)
           a == Materialize(r, run[r], v)
           b == Supersede(r, a)
<1>1. /\ v \in ViewRec(r) /\ v.c = console[r] /\ v.rows = RowsOf(r)
      /\ ViewInv(v.c, v.rows, lost) /\ lost \in BOOLEAN /\ run[r] \in RunStatus
  <2>1. v \in ViewRec(r) /\ v.c = console[r] /\ v.rows = RowsOf(r)
    BY ViewTyped
  <2>2. ViewInv(console[r], RowsOf(r), lost) /\ lost \in BOOLEAN
    BY DEF ViewsInv, Suffered
  <2>3. run[r] \in RunStatus
    BY DEF Typed
  <2> HIDE DEF v, lost
  <2> QED
    BY <2>1, <2>2, <2>3
<1>2. lost \/ NoneInFlight(v.rows)
  <2>1. Hand = {}
    BY DEF Hand
  <2>2. ~lost => \A d \in rows : d.status # "attempting"
    BY <2>1, StrayDisturbs DEF HandInv, HandExact
  <2>3. \A d \in v.rows : d \in rows
    BY <1>1 DEF RowsOf
  <2> HIDE DEF lost, v
  <2> QED
    BY <2>2, <2>3 DEF NoneInFlight
<1> HIDE DEF v, lost
<1>3. /\ a \in ViewRec(r) /\ ViewInv(a.c, a.rows, lost)
      /\ Moves(v.c, a.c) /\ SameFlight(v.rows, a.rows)
  <2>1. PICK w1 : w1 = a
    OBVIOUS
  <2>2. w1 = Materialize(r, run[r], v)
    BY <2>1
  <2> HIDE DEF a
  <2>3. /\ w1 \in ViewRec(r) /\ ViewInv(w1.c, w1.rows, lost)
        /\ Moves(v.c, w1.c) /\ SameFlight(v.rows, w1.rows)
    BY <1>1, <1>2, <2>2, MaterializeKeeps
  <2> QED
    BY <2>1, <2>3
<1> HIDE DEF a
<1>4. /\ b \in ViewRec(r) /\ ViewInv(b.c, b.rows, lost)
      /\ SameFlight(a.rows, b.rows)
      /\ b.c.latest = a.c.latest /\ b.c.delivered = a.c.delivered /\ b.c.ext = a.c.ext
      /\ \/ b = a
         \/ /\ b.c.state \in {"recalled", "recall_pending"}
            /\ b.c.state = "recalled" => a.c.ext = 0
  <2>1. PICK w1 : w1 = b
    OBVIOUS
  <2>2. w1 = Supersede(r, a)
    BY <2>1
  <2> HIDE DEF b
  <2>3. /\ w1 \in ViewRec(r) /\ ViewInv(w1.c, w1.rows, lost)
        /\ SameFlight(a.rows, w1.rows)
        /\ w1.c.latest = a.c.latest /\ w1.c.delivered = a.c.delivered /\ w1.c.ext = a.c.ext
        /\ \/ w1 = a
           \/ /\ a.c.state \in {"terminal_sealed", "recall_failed"}
              /\ w1.c.state \in {"recalled", "recall_pending"}
              /\ w1.c.state = "recalled" => a.c.ext = 0 /\ NoneInFlight(a.rows)
    BY <1>1, <1>3, <2>2, SupersedeKeeps
  <2> QED
    BY <2>1, <2>3
<1>5. w = Expire(b)
  BY DEF Ticked, b, a, v
<1> HIDE DEF b
<1>6. /\ w \in ViewRec(r) /\ ViewInv(w.c, w.rows, lost) /\ w.c = b.c
      /\ \A d \in w.rows : d.status = "attempting" => d \in b.rows
  BY <1>1, <1>4, <1>5, ExpireKeeps
<1>7. \A d \in w.rows : d.status = "attempting" => d \in RowsOf(r)
  BY <1>1, <1>3, <1>4, <1>6 DEF SameFlight
<1>8. TickedTo(console[r], w.c)
  <2>1. /\ console[r].latest \in Nat /\ a.c.latest \in Nat /\ console[r].delivered \in Nat
        /\ console[r].delivered <= console[r].latest
    BY <1>1, <1>3 DEF ViewRec, ConsoleRec, ViewInv
  <2>2. /\ a.c.ext = console[r].ext /\ a.c.delivered = console[r].delivered
        /\ console[r].latest <= a.c.latest
        /\ a.c.delivered = a.c.latest => a.c = console[r]
        /\ a.c.state = "recalled" => console[r].state = "recalled"
    BY <1>1, <1>3, <2>1 DEF Moves, RecallStates
  <2> QED
    BY <1>4, <1>6, <2>2 DEF TickedTo
<1> QED
  BY <1>6, <1>7, <1>8 DEF lost

\* host_tick: the Host has no claims left, and takes those on the rows that are due.
LEMMA TickKeeps ==
  ASSUME ConsoleInv, Tick
  PROVE  ConsoleInv'
<1> DEFINE view == [r \in Run |-> Ticked(r)]
           done == [r \in Run |-> Claimed(view[r], host.worker)]
           batch == UNION {ClaimsOf(view[r]) : r \in Run}
           lost == Suffered(Disturbed)
<1>1. Typed /\ ViewsInv /\ HandInv /\ CardsInv /\ host.pc = "idle" /\ host.batch = {}
  BY DEF ConsoleInv, Tick
<1>2. /\ Apply(done) /\ host' = [host EXCEPT !.batch = batch]
      /\ UNCHANGED <<run, start, rev, text, chat, faults>>
  BY DEF Tick, Ticked
<1>3. \A r \in Run :
        /\ view[r] \in ViewRec(r) /\ ViewInv(view[r].c, view[r].rows, lost)
        /\ TickedTo(console[r], view[r].c)
        /\ \A d \in view[r].rows : d.status = "attempting" => d \in RowsOf(r)
  <2> TAKE r \in Run
  <2>1. view[r] = Ticked(r)
    OBVIOUS
  <2> HIDE DEF view
  <2> QED
    BY <1>1, <2>1, TickedKeeps DEF lost
<1>4. host \in HostRec /\ host.worker \in Nat /\ lost \in BOOLEAN
  BY <1>1 DEF Typed, HostRec, Suffered
<1> HIDE DEF lost
<1>5. \A r \in Run :
        /\ done[r] \in ViewRec(r) /\ ViewInv(done[r].c, done[r].rows, lost)
        /\ done[r].c = view[r].c
        /\ Eligible(view[r].rows) \subseteq view[r].rows
        /\ ClaimsMade(view[r].rows, done[r].rows, host.worker)
  <2> TAKE r \in Run
  <2>1. PICK w, x, u : w = done[r] /\ x = view[r] /\ u = host.worker
    OBVIOUS
  <2>2. w = Claimed(x, u)
    BY <2>1
  <2>3. x \in ViewRec(r) /\ ViewInv(x.c, x.rows, lost) /\ u \in Nat
    BY <1>3, <1>4, <2>1
  <2> HIDE DEF view, done
  <2>4. /\ w \in ViewRec(r) /\ ViewInv(w.c, w.rows, lost) /\ w.c = x.c
        /\ Eligible(x.rows) \subseteq x.rows
        /\ \A d \in Eligible(x.rows) : \E e \in w.rows : ClaimedRow(e, d, u)
        /\ \A e \in w.rows : e.status = "attempting" =>
             e \in x.rows \/ \E d \in Eligible(x.rows) : ClaimedRow(e, d, u)
    <3> HIDE DEF batch
    <3>1. ViewInv(x.c, x.rows, lost) /\ x \in ViewRec(r) /\ lost \in BOOLEAN
      BY <1>4, <2>3
    <3>2. u \in Nat /\ w = Claimed(x, u)
      BY <2>2, <2>3
    <3> QED
      BY <3>1, <3>2, ClaimedKeeps
  <2> QED
    BY <2>1, <2>4 DEF ClaimsMade
<1> HIDE DEF view, done
<1>6. /\ console' \in [Run -> ConsoleRec] /\ quiet' \in [Run -> BOOLEAN]
      /\ rows' \subseteq UNION {RowRec(r) : r \in Run}
      /\ \A r \in Run : console'[r] = done[r].c /\ RowsOf(r)' = done[r].rows
  <2>1. \A r \in Run : done[r] \in ViewRec(r)
    BY <1>5
  <2> QED
    BY <1>2, <2>1, ViewsApplied
<1>7. \A kinds \in {Stray, Disturbed, Blurred} : Suffered(kinds)' <=> Suffered(kinds)
  BY <1>2, FaultsSame
<1>8. ViewsInv'
  BY <1>5, <1>6, <1>7, LostGrows DEF ViewsInv, lost
<1>9. \A a \in batch : \E d \in Eligible(view[a.run].rows) :
        /\ a.run \in Run /\ d \in RowRec(a.run) /\ d \in view[a.run].rows
        /\ d.status = "pending"
        /\ a = [run |-> d.run, kind |-> d.kind, tag |-> d.tag, expected |-> d.expected,
                upd |-> view[a.run].c.ext]
  <2> TAKE a \in batch
  <2>1. PICK r \in Run : a \in ClaimsOf(view[r])
    OBVIOUS
  <2>2. PICK d \in Eligible(view[r].rows) :
          a = [run |-> d.run, kind |-> d.kind, tag |-> d.tag, expected |-> d.expected,
               upd |-> view[r].c.ext]
    BY <2>1 DEF ClaimsOf
  <2>3. d \in view[r].rows /\ d \in RowRec(r) /\ d.run = r /\ d.status = "pending"
    BY <1>3, <1>5 DEF ViewRec, RowRec, Eligible
  <2>4. a.run = r
    BY <2>2, <2>3
  <2> QED
    BY <2>2, <2>3, <2>4
<1>10. \A r \in Run : \A d \in Eligible(view[r].rows) : \E a \in batch :
         /\ a.run = r /\ d.run = r /\ a.kind = d.kind /\ a.tag = d.tag /\ a.expected = d.expected
         /\ a.upd = view[r].c.ext
  <2> TAKE r \in Run
  <2> TAKE d \in Eligible(view[r].rows)
  <2> DEFINE a == [run |-> d.run, kind |-> d.kind, tag |-> d.tag, expected |-> d.expected,
                   upd |-> view[r].c.ext]
  <2>1. a \in ClaimsOf(view[r])
    BY DEF ClaimsOf
  <2>2. d.run = r
    BY <1>3, <1>5 DEF ViewRec, RowRec
  <2> QED
    BY <2>1, <2>2
<1> HIDE DEF batch
<1>11. /\ batch \subseteq ClaimRec
       /\ \A a \in batch : view[a.run].c.ext \in Nat
  <2>1. \A a \in batch : view[a.run].c.ext \in Nat
    BY <1>3, <1>9 DEF ViewRec, ConsoleRec
  <2>2. ASSUME NEW a \in batch
        PROVE  a \in ClaimRec
    <3>1. PICK d \in Eligible(view[a.run].rows) :
            /\ a.run \in Run /\ d \in RowRec(a.run)
            /\ a = [run |-> d.run, kind |-> d.kind, tag |-> d.tag, expected |-> d.expected,
                    upd |-> view[a.run].c.ext]
      BY <1>9
    <3>2. view[a.run].c.ext \in Nat
      BY <2>1
    <3> QED
      BY <3>1, <3>2 DEF RowRec, ClaimRec
  <2> QED
    BY <2>1, <2>2
<1>12. /\ host' \in HostRec /\ host'.pc = "idle" /\ host'.batch = batch
       /\ host'.worker = host.worker /\ host'.cur = host.cur /\ Hand' = batch
  BY <1>1, <1>2, <1>4, <1>11 DEF HostRec, Hand
<1>13. Typed'
  BY <1>1, <1>2, <1>6, <1>12 DEF Typed
<1>14. \A a \in batch : /\ a.run \in Run /\ a.upd = console[a.run].ext
                        /\ console'[a.run].ext = console[a.run].ext
                        /\ a.kind = "upsert" => a.expected <= console'[a.run].latest
                        /\ a.kind = "recall" => console'[a.run].state \in RecallStates
  <2> TAKE a \in batch
  <2>1. PICK d \in Eligible(view[a.run].rows) :
          /\ a.run \in Run /\ d \in view[a.run].rows /\ d.status = "pending"
          /\ a = [run |-> d.run, kind |-> d.kind, tag |-> d.tag, expected |-> d.expected,
                  upd |-> view[a.run].c.ext]
    BY <1>9
  <2>2. a.kind = d.kind /\ a.expected = d.expected /\ a.upd = view[a.run].c.ext
    BY <2>1
  <2>3. console'[a.run] = view[a.run].c /\ view[a.run].c.ext = console[a.run].ext
    BY <1>3, <1>5, <1>6, <2>1 DEF TickedTo
  <2>4. /\ d.kind = "upsert" => d.expected <= view[a.run].c.latest
        /\ d.kind = "recall" => view[a.run].c.state \in RecallStates
    BY <1>3, <2>1 DEF ViewInv, Behind, Recalls, IsOpen
  <2> QED
    BY <2>1, <2>2, <2>3, <2>4
<1>15. ClaimsKnown'
  BY <1>1, <1>2, <1>12, <1>14 DEF ClaimsKnown, CardsInv, ExtInv
<1>16. \A a \in batch : \E e \in rows' :
         /\ IsFor(a, e) /\ e.expected = a.expected /\ e.status = "attempting"
         /\ e.owner = host.worker
  <2> TAKE a \in batch
  <2>1. PICK d \in Eligible(view[a.run].rows) :
          /\ a.run \in Run /\ d \in RowRec(a.run)
          /\ a = [run |-> d.run, kind |-> d.kind, tag |-> d.tag, expected |-> d.expected,
                  upd |-> view[a.run].c.ext]
    BY <1>9
  <2>2. a.run = d.run /\ a.kind = d.kind /\ a.expected = d.expected /\ a.tag = d.tag
    BY <2>1
  <2>3. PICK e \in done[a.run].rows : ClaimedRow(e, d, host.worker)
    BY <1>5, <2>1 DEF ClaimsMade
  <2>4. e \in rows'
    BY <1>6, <2>1, <2>3, NextRows
  <2> QED
    BY <2>2, <2>3, <2>4 DEF ClaimedRow, IsFor
<1>17. \A d, e \in rows' : d.run = e.run /\ d.kind = e.kind /\ d.tag = e.tag => d = e
  <2>1. \A e \in rows' : e.run \in Run /\ e \in done[e.run].rows
    BY <1>6, NextRows
  <2> QED
    BY <1>5, <2>1 DEF ViewInv, Keyed
<1>18. ClaimsAgree'
  <2> SUFFICES ASSUME NEW a \in batch, NEW e \in rows', IsFor(a, e)
               PROVE  a.expected = e.expected /\ a.upd = console'[a.run].ext
    BY <1>12 DEF ClaimsAgree
  <2>1. PICK f \in rows' : IsFor(a, f) /\ f.expected = a.expected
    BY <1>16
  <2>2. f = e
    BY <1>17, <2>1 DEF IsFor
  <2> QED
    BY <1>14, <2>1, <2>2
<1>19. ClaimsKeyed'
  <2> SUFFICES ASSUME NEW a \in batch, NEW b \in batch, SameKey(a, b)
               PROVE  a = b
    BY <1>12 DEF ClaimsKeyed
  <2>1. PICK d \in Eligible(view[a.run].rows) :
          /\ a.run \in Run /\ d \in view[a.run].rows
          /\ a = [run |-> d.run, kind |-> d.kind, tag |-> d.tag, expected |-> d.expected,
                  upd |-> view[a.run].c.ext]
    BY <1>9
  <2>2. PICK e \in Eligible(view[b.run].rows) :
          /\ e \in view[b.run].rows
          /\ b = [run |-> e.run, kind |-> e.kind, tag |-> e.tag, expected |-> e.expected,
                  upd |-> view[b.run].c.ext]
    BY <1>9
  <2>3. a.run = b.run /\ a.kind = b.kind /\ a.tag = b.tag
    BY DEF SameKey
  <2>4. a.kind = d.kind /\ a.tag = d.tag /\ b.kind = e.kind /\ b.tag = e.tag
    BY <2>1, <2>2
  <2>5. /\ a.run \in Run /\ d \in view[a.run].rows /\ e \in view[a.run].rows
        /\ d.kind = e.kind /\ d.tag = e.tag
    BY <2>1, <2>2, <2>3, <2>4
  <2>6. Keyed(view[a.run].rows)
    BY <1>3, <2>5 DEF ViewInv
  <2>7. d = e
    BY <2>5, <2>6 DEF Keyed
  <2> QED
    BY <2>1, <2>2, <2>3, <2>7
<1>20. HandExact'
  <2> SUFFICES ASSUME ~Suffered(Stray)
               PROVE  /\ \A e \in rows' : e.status = "attempting" =>
                            /\ ~e.ripe /\ e.owner = host.worker
                            /\ \E a \in batch : IsFor(a, e)
                      /\ \A a \in batch : \E e \in rows' : IsFor(a, e) /\ Owned(e)'
    BY <1>7, <1>12 DEF HandExact
  <2>1. \A d \in rows : d.status # "attempting"
    BY <1>1 DEF HandInv, HandExact, Hand
  <2>2. ASSUME NEW e \in rows', e.status = "attempting"
        PROVE  ~e.ripe /\ e.owner = host.worker /\ \E a \in batch : IsFor(a, e)
    <3>1. e.run \in Run /\ e \in done[e.run].rows
      BY <1>6, NextRows
    <3>2. e \notin view[e.run].rows
      BY <1>3, <2>1, <2>2, <3>1 DEF RowsOf
    <3>3. PICK d \in Eligible(view[e.run].rows) : ClaimedRow(e, d, host.worker)
      BY <1>5, <2>2, <3>1, <3>2 DEF ClaimsMade
    <3>4. PICK a \in batch : a.run = e.run /\ a.kind = d.kind /\ a.tag = d.tag
      BY <1>10, <3>1
    <3> QED
      BY <3>3, <3>4 DEF ClaimedRow, IsFor
  <2>3. \A a \in batch : \E e \in rows' : IsFor(a, e) /\ Owned(e)'
    BY <1>12, <1>16 DEF Owned
  <2> QED
    BY <2>2, <2>3
<1>21. CardsInv'
  <2>1. \A r \in Run : TickedTo(console[r], console'[r])
    BY <1>3, <1>5, <1>6
  <2>2. ExtInv'
    BY <1>1, <1>2, <2>1 DEF CardsInv, ExtInv, TickedTo
  <2>3. SendInv' /\ SentInv'
    BY <1>12 DEF SendInv, SentInv
  <2>4. ChatInv'
    <3> SUFFICES ASSUME ~Suffered(Blurred), NEW r \in Run
                 PROVE  /\ Len(chat[r]) <= 1
                        /\ console'[r].ext = 0 => Len(chat[r]) = 0
                        /\ console'[r].state = "recalled" => AllGone(r)
      BY <1>2, <1>7, <1>12 DEF ChatInv, AllGone
    <3>1. /\ Len(chat[r]) <= 1
          /\ console[r].ext = 0 => Len(chat[r]) = 0
          /\ console[r].state = "recalled" => AllGone(r)
      BY <1>1 DEF CardsInv, ChatInv, FirstSent
    <3>2. Len(chat[r]) = 0 => AllGone(r)
      BY DEF AllGone
    <3> QED
      BY <2>1, <3>1, <3>2 DEF TickedTo
  <2>5. DeliveredIsShown'
    BY <1>1, <1>2, <2>1 DEF CardsInv, DeliveredIsShown, TickedTo
  <2> QED
    BY <2>2, <2>3, <2>4, <2>5 DEF CardsInv
<1> QED
  BY <1>8, <1>13, <1>15, <1>18, <1>19, <1>20, <1>21 DEF ConsoleInv, HandInv

\* Steps that leave the consoles and the outbox alone.
LEMMA ViewsKept ==
  ASSUME ConsoleInv, UNCHANGED <<console, rows>>,
         Suffered(Disturbed) => Suffered(Disturbed)'
  PROVE  ViewsInv'
<1> SUFFICES ASSUME NEW r \in Run
             PROVE  ViewInv(console'[r], RowsOf(r)', Suffered(Disturbed)')
  BY DEF ViewsInv
<1>1. ViewInv(console[r], RowsOf(r), Suffered(Disturbed)) /\ RowsOf(r)' = RowsOf(r)
  BY DEF ConsoleInv, ViewsInv, RowsOf
<1> QED
  BY <1>1, LostGrows

\* Steps that leave the claims of the Host alone, too.
LEMMA HandKept ==
  ASSUME ConsoleInv, UNCHANGED <<console, rows>>, Hand' = Hand, host'.worker = host.worker,
         \A r \in Run : Len(chat[r]) <= Len(chat'[r]),
         Suffered(Stray) => Suffered(Stray)', ClaimsKeyed'
  PROVE  HandInv'
<1>1. Typed /\ HandInv
  BY DEF ConsoleInv
<1>2. \A a \in Hand : a.run \in Run /\ a.upd \in Nat
  BY <1>1, HandTyped DEF ClaimRec
<1>3. ClaimsAgree' /\ HandExact'
  BY <1>1 DEF HandInv, ClaimsAgree, HandExact, Owned
<1> QED
  BY <1>1, <1>2, <1>3 DEF HandInv, ClaimsKnown, Typed

\* A Host without claims.
LEMMA IdleHost ==
  ASSUME NEW w \in Nat
  PROVE  /\ Idle(w) \in HostRec /\ Idle(w).pc = "idle" /\ Idle(w).cur = NoClaim
         /\ Idle(w).batch = {} /\ Idle(w).worker = w
BY DEF Idle, HostRec, Content, Gone

\* What is sent for a claim is the seal, if the console is sealed at the sequence of the claim.
Taken(claim) ==
    \/ host'.pc = "send" /\ claim.kind = "recall"
    \/ /\ host'.pc = "send" /\ claim.kind = "upsert" /\ HasSource(console[claim.run], claim)
       /\ console[claim.run].state = "terminal_sealed" => host'.shown = console[claim.run].snap
    \/ /\ host'.pc = "settle" /\ claim.kind = "upsert" /\ ~HasSource(console[claim.run], claim)
       /\ host'.outcome = "sent" /\ host'.id = claim.upd

\* The Host after it took a claim.
LEMMA TakenHost ==
  ASSUME Typed, NEW claim \in host.batch, Take(claim)
  PROVE  /\ host' \in HostRec /\ host'.batch = host.batch \ {claim} /\ host'.cur = claim
         /\ host'.worker = host.worker /\ Taken(claim)
<1> DEFINE c == console[claim.run]
           shown == IF c.state = "terminal_sealed" THEN c.snap ELSE Snapshot(claim.run)
           h1 == [host EXCEPT !.batch = @ \ {claim}]
           h == [h1 EXCEPT !.cur = claim]
           s1 == [h EXCEPT !.pc = "send"]
           s2 == [s1 EXCEPT !.shown = shown]
           t1 == [h EXCEPT !.pc = "settle"]
           t2 == [t1 EXCEPT !.outcome = "sent"]
           t3 == [t2 EXCEPT !.id = claim.upd]
<1>1. /\ claim \in ClaimRec /\ claim.run \in Run /\ claim.upd \in Nat
      /\ claim.kind \in {"upsert", "recall"}
      /\ c \in ConsoleRec /\ host \in HostRec
  BY DEF Typed, HostRec, ClaimRec
<1>2. shown \in Content
  BY <1>1 DEF ConsoleRec, Snapshot, Content, Typed
<1>3. host' = IF claim.kind = "recall" THEN s1 ELSE IF HasSource(c, claim) THEN s2 ELSE t3
  BY DEF Take
<1>4. c.state = "terminal_sealed" => shown = c.snap
  OBVIOUS
<1>5. c = console[claim.run]
  OBVIOUS
<1> HIDE DEF shown, c
<1>6. h1 \in HostRec /\ h1.batch = host.batch \ {claim} /\ h1.worker = host.worker
  BY <1>1 DEF HostRec
<1> HIDE DEF h1
<1>7. /\ h \in HostRec /\ h.batch = host.batch \ {claim} /\ h.worker = host.worker
      /\ h.cur = claim
  BY <1>1, <1>6 DEF HostRec
<1> HIDE DEF h
<1>8. /\ s1 \in HostRec /\ s1.batch = host.batch \ {claim} /\ s1.worker = host.worker
      /\ s1.cur = claim /\ s1.pc = "send"
  BY <1>7 DEF HostRec
<1>9. /\ t1 \in HostRec /\ t1.batch = host.batch \ {claim} /\ t1.worker = host.worker
      /\ t1.cur = claim /\ t1.pc = "settle"
  BY <1>7 DEF HostRec
<1> HIDE DEF s1, t1
<1>10. /\ s2 \in HostRec /\ s2.batch = host.batch \ {claim} /\ s2.worker = host.worker
       /\ s2.cur = claim /\ s2.pc = "send" /\ s2.shown = shown
  BY <1>2, <1>8 DEF HostRec
<1>11. /\ t2 \in HostRec /\ t2.batch = host.batch \ {claim} /\ t2.worker = host.worker
       /\ t2.cur = claim /\ t2.pc = "settle" /\ t2.outcome = "sent"
  BY <1>9 DEF HostRec
<1> HIDE DEF s2, t2
<1>12. /\ t3 \in HostRec /\ t3.batch = host.batch \ {claim} /\ t3.worker = host.worker
       /\ t3.cur = claim /\ t3.pc = "settle" /\ t3.outcome = "sent" /\ t3.id = claim.upd
  BY <1>1, <1>11 DEF HostRec
<1> HIDE DEF t3
<1> QED
  BY <1>1, <1>3, <1>4, <1>5, <1>8, <1>10, <1>12 DEF Taken

\* #deliverNow up to the call: without a source there is nothing to send; the console of a first
\* update is sealed then only if it was disturbed.
LEMMA TakeKeeps ==
  ASSUME ConsoleInv, NEW claim \in host.batch, Take(claim)
  PROVE  ConsoleInv'
<1> DEFINE r == claim.run
<1>1. Typed /\ ViewsInv /\ HandInv /\ CardsInv /\ host.pc = "idle"
  BY DEF ConsoleInv, Take
<1>2. UNCHANGED <<run, start, rev, text, console, quiet, rows, chat, faults>>
  BY DEF Take
<1>3. /\ host' \in HostRec /\ host'.batch = host.batch \ {claim} /\ host'.cur = claim
      /\ host'.worker = host.worker /\ Taken(claim)
  BY <1>1, TakenHost
<1>4. Hand = host.batch /\ Hand' = host.batch
  BY <1>1, <1>3 DEF Hand, Taken
<1>5. /\ claim \in ClaimRec /\ r \in Run /\ claim.kind \in {"upsert", "recall"}
      /\ claim.expected \in Nat /\ claim.upd \in Nat
  BY <1>1, <1>4, HandTyped DEF ClaimRec
<1>6. \A kinds \in {Stray, Disturbed, Blurred} : Suffered(kinds)' <=> Suffered(kinds)
  BY <1>2, FaultsSame
<1>7. ViewsInv'
  BY <1>2, <1>6, ViewsKept
<1>8. HandInv'
  <2>1. ClaimsKeyed'
    BY <1>1, <1>3 DEF HandInv, ClaimsKeyed, SameKey
  <2>2. \A s \in Run : Len(chat[s]) <= Len(chat'[s])
    BY <1>1, <1>2 DEF Typed
  <2> QED
    BY <1>2, <1>3, <1>4, <1>6, <2>1, <2>2, HandKept
<1>9. Typed'
  <2>1. host'.pc # "idle" /\ (host'.pc = "settle" => host'.outcome # "none")
    BY <1>3 DEF Taken
  <2> QED
    BY <1>1, <1>2, <1>3, <1>5, <2>1 DEF Typed
<1>10. SendInv'
  <2> SUFFICES ASSUME host'.pc = "send", claim.kind = "upsert"
               PROVE  /\ console[r].delivered <= claim.expected
                      /\ console[r].state = "terminal_sealed" => host'.shown = console[r].snap
    BY <1>2, <1>3 DEF SendInv, CurConsole, Updating
  <2> QED
    BY <1>1, <1>3, <1>5 DEF Taken, HasSource, ViewsInv, ViewInv
<1>11. SentInv'
  <2> SUFFICES ASSUME host'.pc = "settle"
               PROVE  /\ host'.id = claim.upd /\ claim.upd <= Len(chat[r])
                      /\ ~ (/\ console[r].state = "terminal_sealed"
                            /\ claim.expected = console[r].latest)
                      /\ claim.upd = 0 /\ console[r].state = "terminal_sealed"
                           => Suffered(Disturbed)
    BY <1>2, <1>3, <1>6 DEF SentInv, CurConsole, Updating
  <2>1. host'.id = claim.upd /\ ~HasSource(console[r], claim) /\ claim.kind = "upsert"
    BY <1>3 DEF Taken
  <2>2. claim.upd <= Len(chat[r])
    BY <1>1, <1>4 DEF HandInv, ClaimsKnown
  <2>3. ~ (console[r].state = "terminal_sealed" /\ claim.expected = console[r].latest)
    BY <2>1 DEF HasSource
  <2>4. ASSUME console[r].state = "terminal_sealed", ~Suffered(Disturbed)
        PROVE  FALSE
    <3>1. PICK d \in rows : IsFor(claim, d) /\ Owned(d)
      BY <1>1, <1>4, <2>4, StrayDisturbs DEF HandInv, HandExact
    <3>2. claim.expected = d.expected
      BY <1>1, <1>4, <3>1 DEF HandInv, ClaimsAgree
    <3>3. d \in Open(RowsOf(r), "upsert")
      BY <2>1, <3>1 DEF IsFor, Owned, Open, RowsOf
    <3>4. d.expected = console[r].latest
      BY <1>1, <1>5, <2>4, <3>3 DEF ViewsInv, ViewInv, SealQueued
    <3> QED
      BY <2>3, <2>4, <3>2, <3>4
  <2> QED
    BY <2>1, <2>2, <2>3, <2>4
<1>12. ChatInv'
  <2> SUFFICES ASSUME ~Suffered(Blurred)
               PROVE  /\ \A s \in Run : /\ Len(chat[s]) <= 1
                                        /\ console[s].ext = 0 => Len(chat[s]) = 0
                                        /\ console[s].state = "recalled" => AllGone(s)
                      /\ host'.pc = "settle" => claim.kind = "upsert"
    BY <1>2, <1>3, <1>6 DEF ChatInv, AllGone
  <2>1. host'.pc = "settle" => claim.kind = "upsert"
    BY <1>3 DEF Taken
  <2> QED
    BY <1>1, <2>1 DEF CardsInv, ChatInv, FirstSent
<1>13. ExtInv' /\ DeliveredIsShown'
  BY <1>1, <1>2 DEF CardsInv, ExtInv, DeliveredIsShown
<1> QED
  BY <1>7, <1>8, <1>9, <1>10, <1>11, <1>12, <1>13 DEF ConsoleInv, CardsInv

\* The effect of a call at the provider: the card that was named changes, or one is added.
LEMMA ProviderIs ==
  ASSUME Typed, HandInv, host.pc = "send", NEW cards, cards = chat[host.cur.run],
         NEW p, p = Provider(host.cur)
  PROVE  /\ cards \in Seq(Content) /\ p.cards \in Seq(Content) /\ p.id \in Nat
         /\ Len(cards) <= Len(p.cards) /\ p.id <= Len(p.cards)
         /\ \A i \in 1 .. Len(cards) : i # p.id => p.cards[i] = cards[i]
         /\ host.cur.upd # 0 => p.id = host.cur.upd /\ Len(p.cards) = Len(cards)
         /\ Updating => p.id # 0 /\ p.cards[p.id] = host.shown
         /\ Updating /\ host.cur.upd = 0 => p.id = Len(cards) + 1 /\ Len(p.cards) = p.id
         /\ ~Updating => /\ host.cur.upd # 0 => p.cards[host.cur.upd] = Gone
                         /\ host.cur.upd = 0 => p.cards = cards
<1> DEFINE claim == host.cur
           upd == claim.upd
<1>1. /\ claim \in ClaimRec /\ claim.run \in Run /\ claim.kind \in {"upsert", "recall"}
      /\ upd \in Nat /\ claim \in Hand
  BY HandTyped DEF ClaimRec
<1>2. cards \in Seq(Content) /\ Len(cards) \in Nat /\ upd <= Len(cards)
  BY <1>1 DEF Typed, HandInv, ClaimsKnown
<1>3. Gone \in Content /\ host.shown \in Content
  BY DEF Content, Typed, HostRec
<1>4. p = CASE claim.kind = "recall" /\ upd = 0 -> [cards |-> cards, id |-> 0]
            [] claim.kind = "recall" /\ upd # 0 ->
                  [cards |-> [cards EXCEPT ![upd] = Gone], id |-> upd]
            [] claim.kind = "upsert" /\ upd = 0 ->
                  [cards |-> Append(cards, host.shown), id |-> Len(cards) + 1]
            [] OTHER -> [cards |-> [cards EXCEPT ![upd] = host.shown], id |-> upd]
  BY DEF Provider
<1>5. Updating <=> claim.kind = "upsert"
  BY DEF Updating
<1> HIDE DEF claim, upd
<1>6. host.cur.upd = upd
  BY DEF upd, claim
<1>7. CASE claim.kind = "recall" /\ upd = 0
  BY <1>2, <1>4, <1>5, <1>6, <1>7
<1>8. CASE claim.kind = "recall" /\ upd # 0
  <2>1. p.cards = [cards EXCEPT ![upd] = Gone] /\ p.id = upd /\ upd \in 1 .. Len(cards)
    <3>1. p = [cards |-> [cards EXCEPT ![upd] = Gone], id |-> upd]
      BY <1>4, <1>8, Zenon
    <3>2. upd \in 1 .. Len(cards)
      BY <1>1, <1>2, <1>8
    <3> QED
      BY <3>1, <3>2
  <2>2. /\ p.cards \in Seq(Content) /\ Len(p.cards) = Len(cards) /\ p.cards[upd] = Gone
        /\ \A i \in 1 .. Len(cards) : i # upd => p.cards[i] = cards[i]
    BY <1>2, <1>3, <2>1, ExceptSeq
  <2> QED
    BY <1>1, <1>2, <1>5, <1>6, <1>8, <2>1, <2>2
<1>9. CASE claim.kind = "upsert" /\ upd = 0
  <2>1. p.cards = Append(cards, host.shown) /\ p.id = Len(cards) + 1
    BY <1>4, <1>9
  <2>2. /\ p.cards \in Seq(Content) /\ Len(p.cards) = Len(cards) + 1
        /\ p.cards[Len(cards) + 1] = host.shown
        /\ \A i \in 1 .. Len(cards) : p.cards[i] = cards[i]
    BY <1>2, <1>3, <2>1, AppendProperties
  <2> QED
    BY <1>2, <1>5, <1>6, <1>9, <2>1, <2>2
<1>10. CASE claim.kind = "upsert" /\ upd # 0
  <2>1. p.cards = [cards EXCEPT ![upd] = host.shown] /\ p.id = upd /\ upd \in 1 .. Len(cards)
    BY <1>1, <1>2, <1>4, <1>10
  <2>2. /\ p.cards \in Seq(Content) /\ Len(p.cards) = Len(cards) /\ p.cards[upd] = host.shown
        /\ \A i \in 1 .. Len(cards) : i # upd => p.cards[i] = cards[i]
    BY <1>2, <1>3, <2>1, ExceptSeq
  <2> QED
    BY <1>1, <1>2, <1>5, <1>6, <1>10, <2>1, <2>2
<1> QED
  BY <1>1, <1>7, <1>8, <1>9, <1>10

\* A call that took effect leaves a delivered seal shown, whichever answer it brings.
LEMMA Called ==
  ASSUME ConsoleInv, host.pc = "send", UNCHANGED <<console, rows>>,
         chat' = [chat EXCEPT ![host.cur.run] = Provider(host.cur).cards],
         host'.cur = host.cur, host'.batch = host.batch, host'.worker = host.worker,
         host'.pc = "settle", Suffered(Stray) => Suffered(Stray)'
  PROVE  /\ chat' \in [Run -> Seq(Content)] /\ HandInv' /\ ExtInv' /\ DeliveredIsShown'
         /\ host.cur.run \in Run /\ chat'[host.cur.run] = Provider(host.cur).cards
         /\ \A r \in Run : r # host.cur.run => chat'[r] = chat[r]
<1> DEFINE r == host.cur.run
<1>1. Typed /\ ViewsInv /\ HandInv /\ CardsInv
  BY DEF ConsoleInv
<1>2. PICK p : p = Provider(host.cur)
  OBVIOUS
<1>3. /\ chat[r] \in Seq(Content) /\ p.cards \in Seq(Content) /\ p.id \in Nat
      /\ Len(chat[r]) <= Len(p.cards) /\ p.id <= Len(p.cards)
      /\ \A i \in 1 .. Len(chat[r]) : i # p.id => p.cards[i] = chat[r][i]
      /\ Updating => p.id # 0 /\ p.cards[p.id] = host.shown
  BY <1>1, <1>2, ProviderIs
<1>4. r \in Run /\ host.cur \in Hand /\ host.cur \in ClaimRec
  BY <1>1, HandTyped
<1>5. /\ chat' \in [Run -> Seq(Content)] /\ chat'[r] = p.cards
      /\ \A s \in Run : s # r => chat'[s] = chat[s]
  BY <1>1, <1>2, <1>3, <1>4 DEF Typed
<1>6. \A s \in Run : Len(chat[s]) \in Nat /\ Len(chat'[s]) \in Nat /\ Len(chat[s]) <= Len(chat'[s])
  BY <1>1, <1>3, <1>5 DEF Typed
<1>7. HandInv'
  <2>1. Hand' = Hand
    BY DEF Hand
  <2>2. ClaimsKeyed'
    BY <1>1 DEF HandInv, ClaimsKeyed
  <2> QED
    BY <1>6, <2>1, <2>2, HandKept
<1>8. \A s \in Run : /\ console[s] \in ConsoleRec /\ console[s].ext \in Nat
                     /\ console[s].ext <= Len(chat[s])
  BY <1>1 DEF Typed, ConsoleRec, CardsInv, ExtInv
<1>9. ExtInv'
  BY <1>6, <1>8 DEF ExtInv
<1>10. DeliveredIsShown'
  <2> SUFFICES ASSUME NEW s \in Run, console[s].state = "terminal_sealed",
                      console[s].delivered = console[s].latest
               PROVE  console[s].ext # 0 /\ chat'[s][console[s].ext] = console[s].snap
    BY DEF DeliveredIsShown
  <2>1. console[s].ext # 0 /\ chat[s][console[s].ext] = console[s].snap
    BY <1>1 DEF CardsInv, DeliveredIsShown
  <2>2. CASE s # r
    BY <1>5, <2>1, <2>2
  <2>3. CASE s = r
    <3>1. Updating
      <4>1. host.cur.kind \in {"upsert", "recall"}
        BY <1>4 DEF ClaimRec
      <4>2. host.cur.kind = "recall" => console[r].state \in RecallStates
        BY <1>1, <1>4 DEF HandInv, ClaimsKnown
      <4> QED
        BY <2>3, <4>1, <4>2 DEF Updating, RecallStates
    <3>2. /\ host.cur.expected <= console[r].latest /\ console[r].delivered <= host.cur.expected
          /\ host.cur.expected = console[r].latest => host.shown = console[r].snap
      BY <1>1, <1>4, <2>3, <3>1 DEF HandInv, ClaimsKnown, CardsInv, SendInv, CurConsole, Updating
    <3>3. host.cur.expected \in Nat /\ console[r].latest \in Nat
      BY <1>1, <1>4 DEF ClaimRec, Typed, ConsoleRec
    <3>4. host.shown = console[r].snap
      BY <2>3, <3>2, <3>3
    <3>5. console[r].ext \in 1 .. Len(chat[r])
      BY <1>4, <1>6, <1>8, <2>1, <2>3
    <3> QED
      BY <1>3, <1>5, <2>1, <2>3, <3>1, <3>4, <3>5
  <2> QED
    BY <2>2, <2>3
<1> QED
  BY <1>2, <1>4, <1>5, <1>7, <1>9, <1>10

\* The call took effect and its answer arrived.
LEMMA SendKeeps ==
  ASSUME ConsoleInv, Send
  PROVE  ConsoleInv'
<1> DEFINE r == host.cur.run
<1>1. Typed /\ ViewsInv /\ HandInv /\ CardsInv /\ host.pc = "send"
  BY DEF ConsoleInv, Send
<1>2. PICK p : p = Provider(host.cur)
  OBVIOUS
<1>3. /\ chat[r] \in Seq(Content) /\ p.cards \in Seq(Content) /\ p.id \in Nat
      /\ Len(chat[r]) <= Len(p.cards) /\ p.id <= Len(p.cards)
      /\ \A i \in 1 .. Len(chat[r]) : i # p.id => p.cards[i] = chat[r][i]
      /\ host.cur.upd # 0 => p.id = host.cur.upd /\ Len(p.cards) = Len(chat[r])
      /\ Updating => p.id # 0 /\ p.cards[p.id] = host.shown
      /\ Updating /\ host.cur.upd = 0 => p.id = Len(chat[r]) + 1 /\ Len(p.cards) = p.id
      /\ ~Updating => /\ host.cur.upd # 0 => p.cards[host.cur.upd] = Gone
                      /\ host.cur.upd = 0 => p.cards = chat[r]
  BY <1>1, <1>2, ProviderIs
<1>4. /\ chat' = [chat EXCEPT ![r] = Provider(host.cur).cards]
      /\ host' = [host EXCEPT !.pc = "settle", !.outcome = "sent", !.id = p.id, !.shown = Gone]
      /\ UNCHANGED <<run, start, rev, text, console, quiet, rows, faults>>
  BY <1>2 DEF Send
<1>5. /\ host' \in HostRec /\ host'.cur = host.cur /\ host'.batch = host.batch
      /\ host'.worker = host.worker /\ host'.pc = "settle" /\ host'.outcome = "sent"
      /\ host'.id = p.id
  <2> DEFINE h1 == [host EXCEPT !.pc = "settle"]
             h2 == [h1 EXCEPT !.outcome = "sent"]
             h3 == [h2 EXCEPT !.id = p.id]
             h4 == [h3 EXCEPT !.shown = Gone]
  <2>1. host' = h4
    BY <1>4
  <2>2. /\ h1 \in HostRec /\ h1.cur = host.cur /\ h1.batch = host.batch
        /\ h1.worker = host.worker /\ h1.pc = "settle"
    BY <1>1 DEF Typed, HostRec
  <2> HIDE DEF h1
  <2>3. /\ h2 \in HostRec /\ h2.cur = host.cur /\ h2.batch = host.batch
        /\ h2.worker = host.worker /\ h2.pc = "settle" /\ h2.outcome = "sent"
    BY <2>2 DEF HostRec
  <2> HIDE DEF h2
  <2>4. /\ h3 \in HostRec /\ h3.cur = host.cur /\ h3.batch = host.batch
        /\ h3.worker = host.worker /\ h3.pc = "settle" /\ h3.outcome = "sent" /\ h3.id = p.id
    BY <1>3, <2>3 DEF HostRec
  <2> HIDE DEF h3
  <2>5. /\ h4 \in HostRec /\ h4.cur = host.cur /\ h4.batch = host.batch
        /\ h4.worker = host.worker /\ h4.pc = "settle" /\ h4.outcome = "sent" /\ h4.id = p.id
    BY <2>4 DEF HostRec, Content
  <2> QED
    BY <2>1, <2>5
<1>6. \A kinds \in {Stray, Disturbed, Blurred} : Suffered(kinds)' <=> Suffered(kinds)
  BY <1>4, FaultsSame
<1>7. /\ chat' \in [Run -> Seq(Content)] /\ HandInv' /\ ExtInv' /\ DeliveredIsShown'
      /\ r \in Run /\ chat'[r] = p.cards
      /\ \A s \in Run : s # r => chat'[s] = chat[s]
  BY <1>1, <1>2, <1>4, <1>5, <1>6, Called
<1>8. ViewsInv'
  BY <1>4, <1>6, ViewsKept
<1>9. Typed'
  BY <1>1, <1>4, <1>5, <1>7 DEF Typed
<1>10. SendInv'
  BY <1>5 DEF SendInv
<1>11. SentInv'
  <2> SUFFICES /\ p.id <= Len(p.cards)
               /\ Updating =>
                    /\ host.cur.upd # 0 => p.id = host.cur.upd
                    /\ p.id # 0
                    /\ console[r].state = "terminal_sealed" /\ host.cur.expected = console[r].latest
                         => p.cards[p.id] = console[r].snap
    BY <1>4, <1>5, <1>7 DEF SentInv, CurConsole, Updating
  <2> QED
    BY <1>1, <1>3 DEF CardsInv, SendInv, CurConsole
<1>12. ChatInv'
  <2> SUFFICES ASSUME ~Suffered(Blurred)
               PROVE  /\ \A s \in Run :
                           /\ Len(chat'[s]) <= 1
                           /\ console[s].ext = 0 =>
                                Len(chat'[s]) = 0 \/ (s = r /\ Updating /\ p.id = 1)
                           /\ console[s].state = "recalled"
                                => \A i \in 1 .. Len(chat'[s]) : chat'[s][i] = Gone
                      /\ ~Updating => \A i \in 1 .. Len(chat'[r]) : chat'[r][i] = Gone
    <3>1. ~Suffered(Blurred)' <=> ~Suffered(Blurred)
      BY <1>6
    <3>2. host'.cur.kind = "recall" => ~Updating
      BY <1>5 DEF Updating
    <3>3. Updating /\ p.id = 1 => FirstSent(r)'
      BY <1>5 DEF FirstSent, Updating
    <3> QED
      BY <1>4, <1>5, <3>1, <3>2, <3>3 DEF ChatInv, AllGone, FirstSent, Updating
  <2>1. \A s \in Run : /\ Len(chat[s]) <= 1
                       /\ console[s].ext = 0 => Len(chat[s]) = 0
                       /\ console[s].state = "recalled" => AllGone(s)
    BY <1>1 DEF CardsInv, ChatInv, FirstSent
  <2>2. host.cur \in Hand /\ host.cur \in ClaimRec
    BY <1>1, HandTyped
  <2>3. PICK d \in rows : IsFor(host.cur, d) /\ Owned(d)
    BY <1>1, <2>2, StrayDisturbs DEF HandInv, HandExact
  <2>4. host.cur.upd = console[r].ext /\ host.cur.upd \in Nat
    BY <1>1, <2>2, <2>3 DEF HandInv, ClaimsAgree, ClaimRec
  <2>5. Updating => console[r].state # "recalled"
    <3> HAVE Updating
    <3>1. d \in Open(RowsOf(r), "upsert")
      BY <2>3 DEF Updating, IsFor, Owned, Open, RowsOf
    <3> QED
      BY <1>1, <1>7, <3>1 DEF ViewsInv, ViewInv, Recalled
  <2>6. \A s \in Run : s # r =>
          /\ Len(chat'[s]) <= 1
          /\ console[s].ext = 0 => Len(chat'[s]) = 0
          /\ console[s].state = "recalled"
               => \A i \in 1 .. Len(chat'[s]) : chat'[s][i] = Gone
    BY <1>7, <2>1 DEF AllGone
  <2>7. PICK m, n \in Nat : m = Len(chat[r]) /\ n = Len(p.cards)
    BY <1>3
  <2>8. /\ m <= 1
        /\ console[r].ext = 0 => m = 0
    BY <1>7, <2>1, <2>7
  <2>9. n <= 1 /\ (console[r].ext = 0 => n = 0 \/ (Updating /\ p.id = 1))
    BY <1>3, <2>4, <2>7, <2>8
  <2>10. ~Updating => \A i \in 1 .. n : p.cards[i] = Gone
    <3> SUFFICES ASSUME ~Updating, NEW i \in 1 .. n
                 PROVE  p.cards[i] = Gone
      OBVIOUS
    <3>1. i = 1 /\ n = 1
      BY <2>9
    <3>2. p.cards = chat[r] => n = m
      BY <2>7
    <3>3. host.cur.upd # 0
      BY <1>3, <2>4, <2>8, <3>1, <3>2
    <3>4. p.id = host.cur.upd /\ p.id <= n
      BY <1>3, <2>7, <3>3
    <3>5. host.cur.upd = 1
      BY <2>4, <3>1, <3>3, <3>4
    <3> QED
      BY <1>3, <3>1, <3>5
  <2>11. console[r].state = "recalled" => ~Updating
    BY <2>5
  <2> QED
    BY <1>7, <2>6, <2>7, <2>9, <2>10, <2>11
<1> QED
  BY <1>7, <1>8, <1>9, <1>10, <1>11, <1>12 DEF ConsoleInv, CardsInv

\* The Host after a call that brought no card.
LEMMA Answered ==
  ASSUME Typed, NEW outcome \in {"retry", "failed"},
         host' = [host EXCEPT !.pc = "settle", !.outcome = outcome, !.id = 0, !.shown = Gone]
  PROVE  /\ host' \in HostRec /\ host'.cur = host.cur /\ host'.batch = host.batch
         /\ host'.worker = host.worker /\ host'.pc = "settle" /\ host'.outcome = outcome
         /\ host'.id = 0
<1> DEFINE h1 == [host EXCEPT !.pc = "settle"]
           h2 == [h1 EXCEPT !.outcome = outcome]
           h3 == [h2 EXCEPT !.id = 0]
           h4 == [h3 EXCEPT !.shown = Gone]
<1>1. host' = h4
  OBVIOUS
<1>2. /\ h1 \in HostRec /\ h1.cur = host.cur /\ h1.batch = host.batch
      /\ h1.worker = host.worker /\ h1.pc = "settle"
  BY DEF Typed, HostRec
<1> HIDE DEF h1
<1>3. /\ h2 \in HostRec /\ h2.cur = host.cur /\ h2.batch = host.batch
      /\ h2.worker = host.worker /\ h2.pc = "settle" /\ h2.outcome = outcome
  BY <1>2 DEF HostRec
<1> HIDE DEF h2
<1>4. /\ h3 \in HostRec /\ h3.cur = host.cur /\ h3.batch = host.batch
      /\ h3.worker = host.worker /\ h3.pc = "settle" /\ h3.outcome = outcome /\ h3.id = 0
  BY <1>3 DEF HostRec
<1> HIDE DEF h3
<1>5. /\ h4 \in HostRec /\ h4.cur = host.cur /\ h4.batch = host.batch
      /\ h4.worker = host.worker /\ h4.pc = "settle" /\ h4.outcome = outcome /\ h4.id = 0
  BY <1>4 DEF HostRec, Content
<1> QED
  BY <1>1, <1>5

\* After a stray fault a Host without claims agrees with any outbox.
LEMMA NothingInHand ==
  ASSUME host'.pc = "idle", host'.batch = {}, Suffered(Stray)'
  PROVE  HandInv'
<1>1. Hand' = {}
  BY DEF Hand
<1> QED
  BY <1>1 DEF HandInv, ClaimsKnown, ClaimsAgree, ClaimsKeyed, HandExact

\* The call took effect and its answer was lost: cards nobody knows may be in the chat.
LEMMA SendUnclearKeeps ==
  ASSUME ConsoleInv, SendUnclear
  PROVE  ConsoleInv'
<1>1. Typed /\ CardsInv /\ host.pc = "send" /\ Suffer("unclear")
  BY DEF ConsoleInv, SendUnclear
<1>2. /\ faults' \in Seq(Fault) /\ Len(faults') <= MaxFaults
      /\ \A kinds \in {Stray, Disturbed, Blurred} : Suffered(kinds) => Suffered(kinds)'
      /\ Suffered(Blurred)'
  BY <1>1, FaultAdded DEF Typed, Blurred
<1>3. /\ chat' = [chat EXCEPT ![host.cur.run] = Provider(host.cur).cards]
      /\ host' = [host EXCEPT !.pc = "settle", !.outcome = "retry", !.id = 0, !.shown = Gone]
      /\ UNCHANGED <<run, start, rev, text, console, quiet, rows>>
  BY DEF SendUnclear
<1>4. /\ host' \in HostRec /\ host'.cur = host.cur /\ host'.batch = host.batch
      /\ host'.worker = host.worker /\ host'.pc = "settle" /\ host'.outcome = "retry"
      /\ host'.id = 0
  BY <1>1, <1>3, Answered
<1>5. /\ chat' \in [Run -> Seq(Content)] /\ HandInv' /\ ExtInv' /\ DeliveredIsShown'
      /\ host.cur.run \in Run
  BY <1>1, <1>2, <1>3, <1>4, Called
<1>6. ViewsInv'
  BY <1>2, <1>3, ViewsKept
<1>7. Typed'
  BY <1>1, <1>2, <1>3, <1>4, <1>5 DEF Typed
<1>8. SendInv' /\ SentInv' /\ ChatInv'
  BY <1>2, <1>4, <1>5 DEF SendInv, SentInv, ChatInv
<1> QED
  BY <1>5, <1>6, <1>7, <1>8 DEF ConsoleInv, CardsInv

\* The call was refused and had no effect.
LEMMA SendRefusedKeeps ==
  ASSUME ConsoleInv, NEW outcome \in {"retry", "failed"}, SendRefused(outcome)
  PROVE  ConsoleInv'
<1>1. Typed /\ HandInv /\ CardsInv /\ host.pc = "send" /\ Suffer("refused")
  BY DEF ConsoleInv, SendRefused
<1>2. /\ faults' \in Seq(Fault) /\ Len(faults') <= MaxFaults
      /\ \A kinds \in {Stray, Disturbed, Blurred} : Suffered(kinds)' <=> Suffered(kinds)
  <2>1. faults \in Seq(Fault)
    BY <1>1 DEF Typed
  <2>2. \A kinds \in {Stray, Disturbed, Blurred} : "refused" \notin kinds
    BY DEF Stray, Disturbed, Blurred
  <2> QED
    BY <1>1, <2>1, <2>2, FaultAdded
<1>3. /\ host' = [host EXCEPT !.pc = "settle", !.outcome = outcome, !.id = 0, !.shown = Gone]
      /\ UNCHANGED <<run, start, rev, text, console, quiet, rows, chat>>
  BY DEF SendRefused
<1>4. /\ host' \in HostRec /\ host'.cur = host.cur /\ host'.batch = host.batch
      /\ host'.worker = host.worker /\ host'.pc = "settle" /\ host'.outcome = outcome
      /\ host'.id = 0
  BY <1>1, <1>3, Answered
<1>5. HandInv'
  <2>1. Hand' = Hand
    BY <1>1, <1>4 DEF Hand
  <2>2. ClaimsKeyed'
    BY <1>1, <1>4 DEF HandInv, ClaimsKeyed
  <2>3. \A r \in Run : Len(chat[r]) <= Len(chat'[r])
    BY <1>1, <1>3 DEF Typed
  <2> QED
    BY <1>2, <1>3, <1>4, <2>1, <2>2, <2>3, HandKept
<1>6. ViewsInv'
  BY <1>2, <1>3, ViewsKept
<1>7. Typed'
  BY <1>1, <1>2, <1>3, <1>4 DEF Typed
<1>8. SendInv' /\ SentInv'
  <2>1. host.cur.run \in Run /\ Len(chat[host.cur.run]) \in Nat
    BY <1>1, HandTyped DEF Typed
  <2> QED
    BY <1>3, <1>4, <2>1 DEF SendInv, SentInv
<1>9. ChatInv'
  <2> SUFFICES ASSUME ~Suffered(Blurred)
               PROVE  \A r \in Run : /\ Len(chat[r]) <= 1
                                     /\ console[r].ext = 0 => Len(chat[r]) = 0
                                     /\ console[r].state = "recalled" => AllGone(r)
    BY <1>2, <1>3, <1>4 DEF ChatInv, AllGone
  <2> QED
    BY <1>1 DEF CardsInv, ChatInv, FirstSent
<1>10. ExtInv' /\ DeliveredIsShown'
  BY <1>1, <1>3 DEF CardsInv, ExtInv, DeliveredIsShown
<1> QED
  BY <1>5, <1>6, <1>7, <1>8, <1>9, <1>10 DEF ConsoleInv, CardsInv

\* The desktop process starts again with nothing in hand.
LEMMA CrashKeeps ==
  ASSUME ConsoleInv, Crash
  PROVE  ConsoleInv'
<1>1. Typed /\ CardsInv /\ Suffer("crash") /\ host.worker \in Nat
  BY DEF ConsoleInv, Crash, Typed, HostRec
<1>2. /\ faults' \in Seq(Fault) /\ Len(faults') <= MaxFaults
      /\ \A kinds \in {Stray, Disturbed, Blurred} : Suffered(kinds)'
  BY <1>1, FaultAdded DEF Typed, Stray, Disturbed, Blurred
<1>3. /\ host' = Idle(host.worker + 1)
      /\ UNCHANGED <<run, start, rev, text, console, quiet, rows, chat>>
  BY DEF Crash
<1>4. /\ host' \in HostRec /\ host'.pc = "idle" /\ host'.cur = NoClaim /\ host'.batch = {}
  BY <1>1, <1>3, IdleHost
<1>5. ViewsInv'
  BY <1>2, <1>3, ViewsKept
<1>6. Typed'
  BY <1>1, <1>2, <1>3, <1>4 DEF Typed
<1>7. HandInv'
  BY <1>2, <1>4, NothingInHand
<1>8. CardsInv'
  BY <1>1, <1>2, <1>3, <1>4 DEF CardsInv, ExtInv, SendInv, SentInv, ChatInv, DeliveredIsShown
<1> QED
  BY <1>5, <1>6, <1>7, <1>8 DEF ConsoleInv

\* What the settlement of the claim in hand commits, if the row is still that of this worker.
OwnsRow == \E d \in rows : IsFor(host.cur, d) /\ Owned(d)
BringsCard == Updating /\ host.outcome = "sent" /\ host.id # 0
Committed(c, e) ==
    /\ e.latest = c.latest /\ e.snap = c.snap
    /\ \/ e.state = c.state
       \/ /\ ~Updating /\ c.state \in RecallStates /\ e.state \in RecallStates
          /\ e.state = "recalled" => host.outcome = "sent"
    /\ \/ ~BringsCard /\ e.ext = c.ext /\ e.delivered = c.delivered
       \/ /\ BringsCard /\ c.ext = host.cur.upd /\ e.ext = host.id
          /\ e.delivered \in {c.delivered, host.cur.expected}

\* settle_delivery: it ends the attempt of the claim in hand, and with it an update is no
\* longer under way for the console.
LEMMA CommitKeeps ==
  ASSUME ConsoleInv, host.pc = "settle", CommitSettlement, NEW r, r = host.cur.run
  PROVE  /\ console' \in [Run -> ConsoleRec] /\ quiet' \in [Run -> BOOLEAN]
         /\ rows' \subseteq UNION {RowRec(s) : s \in Run}
         /\ \A s \in Run : ViewInv(console'[s], RowsOf(s)', Suffered(Disturbed))
         /\ \A s \in Run : s # r => console'[s] = console[s]
         /\ \/ console' = console /\ ~OwnsRow
            \/ Committed(console[r], console'[r]) /\ OwnsRow
         /\ \A x \in rows' : x.status = "attempting" =>
              /\ x \in rows /\ ~ (IsFor(host.cur, x) /\ Owned(x))
              /\ console'[x.run].ext = console[x.run].ext
         /\ \A x \in rows : x.status = "attempting" /\ ~IsFor(host.cur, x) => x \in rows'
<1> DEFINE lost == Suffered(Disturbed)
<1>1. Typed /\ ViewsInv /\ HandInv /\ CardsInv
  BY DEF ConsoleInv
<1>2. /\ host.cur \in Hand /\ r \in Run /\ host.cur \in ClaimRec
      /\ host.outcome \in {"sent", "retry", "failed"} /\ host.id \in Nat
  BY <1>1, HandTyped DEF Typed, HostRec
<1>3. \A s \in Run : ViewInv(console[s], RowsOf(s), lost)
  BY <1>1 DEF ViewsInv
<1>4. CASE ~OwnsRow
  <2>1. UNCHANGED <<console, quiet, rows>>
    BY <1>4 DEF CommitSettlement, Row, OwnsRow
  <2>2. \A s \in Run : RowsOf(s)' = RowsOf(s)
    BY <2>1 DEF RowsOf
  <2>3. \A x \in rows : ~ (IsFor(host.cur, x) /\ Owned(x))
    BY <1>4 DEF OwnsRow
  <2>4. /\ console \in [Run -> ConsoleRec] /\ quiet \in [Run -> BOOLEAN]
        /\ rows \subseteq UNION {RowRec(s) : s \in Run}
    BY <1>1 DEF Typed
  <2> QED
    BY <1>3, <1>4, <2>1, <2>2, <2>3, <2>4
<1>5. CASE OwnsRow
  <2> DEFINE owner == CHOOSE e \in Row(host.cur) : Owned(e)
  <2>1. \E e \in Row(host.cur) : Owned(e)
    BY <1>5 DEF Row, OwnsRow
  <2>2. PICK d : d = owner
    OBVIOUS
  <2>3. d \in rows /\ IsFor(host.cur, d) /\ Owned(d)
    <3>1. d \in Row(host.cur) /\ Owned(d)
      BY <2>1, <2>2
    <3> QED
      BY <3>1 DEF Row
  <2>4. PICK v, w : v = View(r) /\ w = Settled(v, d)
    OBVIOUS
  <2>5. /\ console' = [console EXCEPT ![r] = w.c] /\ quiet' = [quiet EXCEPT ![r] = w.quiet]
        /\ rows' = (rows \ RowsOf(r)) \cup w.rows
    BY <2>1, <2>2, <2>4 DEF CommitSettlement
  <2> HIDE DEF owner
  <2>6. /\ d.run = r /\ d.kind = host.cur.kind /\ d.tag = host.cur.tag
        /\ d.status = "attempting" /\ d.kind \in {"upsert", "recall"}
        /\ d.kind = "upsert" <=> Updating
    BY <1>2, <2>3 DEF IsFor, Owned, ClaimRec, Updating
  <2>7. host.cur.expected = d.expected /\ host.cur.upd = console[r].ext
    BY <1>1, <1>2, <2>3 DEF HandInv, ClaimsAgree
  <2>8. v \in ViewRec(r) /\ v.c = console[r] /\ v.rows = RowsOf(r)
    BY <1>1, <1>2, <2>4, ViewTyped
  <2>9. d \in v.rows
    BY <2>3, <2>6, <2>8 DEF RowsOf
  <2>10. d.kind = "upsert" /\ host.outcome = "sent" /\ host.id = 0
           /\ v.c.state = "terminal_sealed" => lost /\ v.c.ext = 0
    BY <1>1, <2>6, <2>7, <2>8 DEF CardsInv, SentInv, CurConsole
  <2>11. lost \in BOOLEAN /\ ViewInv(v.c, v.rows, lost)
    BY <1>2, <1>3, <2>8 DEF Suffered
  <2> HIDE DEF lost
  <2>12. SettledStep(r, v, w, d, lost)
    BY <1>2, <2>4, <2>6, <2>8, <2>9, <2>10, <2>11, SettledKeeps
  <2>13. w \in ViewRec(r) /\ ViewInv(w.c, w.rows, lost)
    BY <2>12 DEF SettledStep
  <2>14. /\ console' \in [Run -> ConsoleRec] /\ quiet' \in [Run -> BOOLEAN]
         /\ rows' \subseteq UNION {RowRec(s) : s \in Run}
         /\ console'[r] = w.c /\ RowsOf(r)' = w.rows
         /\ \A s \in Run \ {r} : console'[s] = console[s] /\ RowsOf(s)' = RowsOf(s)
    BY <1>1, <1>2, <2>5, <2>13, ViewApplied
  <2>15. \A s \in Run : ViewInv(console'[s], RowsOf(s)', lost)
    BY <1>3, <2>13, <2>14
  <2>16. Committed(v.c, w.c)
    <3>1. d.kind = "recall" => v.c.state \in RecallStates
      BY <2>9, <2>11 DEF ViewInv, Recalls
    <3>2. /\ w.c.latest = v.c.latest /\ w.c.snap = v.c.snap
          /\ w.c.ext = IF BringsCard THEN host.id ELSE v.c.ext
          /\ w.c.delivered = v.c.delivered \/ (BringsCard /\ w.c.delivered = d.expected)
          /\ d.kind = "upsert" => w.c.state = v.c.state
          /\ d.kind = "recall" => /\ w.c.state \in RecallStates
                                  /\ w.c.state = "recalled" => host.outcome = "sent"
      BY <2>6, <2>12 DEF SettledStep, BringsCard
    <3> QED
      BY <2>6, <2>7, <2>8, <3>1, <3>2 DEF Committed
  <2>17. \A x \in RowsOf(r) : x.kind = d.kind /\ x.tag = d.tag => x = d
    BY <2>8, <2>9, <2>11 DEF ViewInv, Keyed
  <2>18. ASSUME NEW x \in rows', x.status = "attempting"
         PROVE  /\ x \in rows /\ ~ (IsFor(host.cur, x) /\ Owned(x))
                /\ console'[x.run].ext = console[x.run].ext
    <3>1. x.run \in Run /\ x \in RowsOf(x.run)'
      BY <2>14, NextRows
    <3>2. CASE x.run # r
      BY <2>14, <3>1, <3>2 DEF RowsOf, IsFor
    <3>3. CASE x.run = r
      <4>1. x \in RowsOf(r) /\ x # d
        BY <2>8, <2>12, <2>14, <2>18, <3>1, <3>3 DEF SettledStep
      <4>2. ~IsFor(host.cur, x)
        BY <2>6, <2>17, <4>1 DEF IsFor
      <4>3. ~Updating
        <5> SUFFICES ASSUME Updating
                     PROVE  FALSE
          OBVIOUS
        <5>1. x.kind \in {"upsert", "recall"}
          BY <1>1, <1>2, <4>1, RowsTyped DEF RowRec
        <5>2. d \in Open(v.rows, "upsert") /\ IsOpen(d) /\ IsOpen(x)
          BY <2>6, <2>9, <2>18 DEF Open, IsOpen
        <5>3. x.kind = "upsert"
          BY <2>8, <2>11, <2>18, <4>1, <5>1, <5>2 DEF ViewInv, Recalls
        <5>4. x.tag < d.tag /\ d.tag < x.tag
          BY <2>6, <2>8, <2>9, <2>11, <4>1, <5>2, <5>3 DEF ViewInv, Newest
        <5>5. x.tag \in Nat /\ d.tag \in Nat
          BY <2>6, <2>8, <2>9, <2>11, <4>1, <5>3 DEF ViewInv, Behind
        <5> QED
          BY <5>4, <5>5
      <4>4. w.c.ext = v.c.ext
        BY <2>16, <4>3 DEF Committed, BringsCard
      <4> QED
        BY <2>8, <2>14, <3>3, <4>1, <4>2, <4>4 DEF RowsOf
    <3> QED
      BY <3>2, <3>3
  <2>19. ASSUME NEW x \in rows, x.status = "attempting", ~IsFor(host.cur, x)
         PROVE  x \in rows'
    <3>1. CASE x.run # r
      BY <2>5, <3>1 DEF RowsOf
    <3>2. CASE x.run = r
      <4>1. x \in v.rows /\ x # d
        BY <2>3, <2>8, <2>19, <3>2 DEF RowsOf
      <4> QED
        BY <2>5, <2>12, <2>19, <4>1 DEF SettledStep
    <3> QED
      BY <3>1, <3>2
  <2> QED
    BY <1>5, <2>8, <2>14, <2>15, <2>16, <2>18, <2>19 DEF lost
<1> QED
  BY <1>4, <1>5

\* The card a settlement brings is in the chat, and shows the seal if it counts as delivered.
LEMMA CommitShows ==
  ASSUME ConsoleInv, host.pc = "settle", CommitSettlement, chat' = chat
  PROVE  ExtInv' /\ DeliveredIsShown'
<1>1. PICK r : r = host.cur.run
  OBVIOUS
<1>2. Typed /\ CardsInv /\ r \in Run
  BY <1>1, HandTyped DEF ConsoleInv
<1>3. /\ \A s \in Run : s # r => console'[s] = console[s]
      /\ console' = console \/ Committed(console[r], console'[r])
  BY <1>1, CommitKeeps
<1>4. /\ host.id <= Len(chat[r])
      /\ BringsCard =>
           /\ host.cur.upd # 0 => host.id = host.cur.upd
           /\ console[r].state = "terminal_sealed" /\ host.cur.expected = console[r].latest
                => chat[r][host.id] = console[r].snap
  BY <1>1, <1>2 DEF CardsInv, SentInv, CurConsole, BringsCard
<1>5. ExtInv'
  BY <1>2, <1>3, <1>4 DEF CardsInv, ExtInv, Committed
<1>6. DeliveredIsShown'
  <2> SUFFICES ASSUME NEW s \in Run, console'[s].state = "terminal_sealed",
                      console'[s].delivered = console'[s].latest
               PROVE  console'[s].ext # 0 /\ chat[s][console'[s].ext] = console'[s].snap
    BY DEF DeliveredIsShown
  <2>1. CASE console'[s] = console[s]
    BY <1>2, <2>1 DEF CardsInv, DeliveredIsShown
  <2>2. CASE s = r /\ Committed(console[r], console'[r])
    <3>1. /\ console[r].state = "terminal_sealed" /\ console'[r].latest = console[r].latest
          /\ console'[r].snap = console[r].snap
      BY <2>2 DEF Committed, RecallStates
    <3>2. console[r].delivered = console[r].latest =>
            console[r].ext # 0 /\ chat[r][console[r].ext] = console[r].snap
      BY <1>2, <3>1 DEF CardsInv, DeliveredIsShown
    <3>3. CASE ~BringsCard
      BY <2>2, <3>1, <3>2, <3>3 DEF Committed
    <3>4. CASE BringsCard
      <4>1. host.id # 0 /\ console'[r].ext = host.id /\ console[r].ext = host.cur.upd
        BY <2>2, <3>4 DEF Committed, BringsCard
      <4>2. \/ console[r].delivered = console[r].latest
            \/ host.cur.expected = console[r].latest
        BY <2>2, <3>1, <3>4 DEF Committed
      <4> QED
        BY <1>4, <2>2, <3>1, <3>2, <3>4, <4>1, <4>2
    <3> QED
      BY <3>3, <3>4
  <2> QED
    BY <1>3, <2>1, <2>2
<1> QED
  BY <1>5, <1>6

\* The settlement is applied, and the next claim is treated.
LEMMA AppliedKeeps ==
  ASSUME ConsoleInv, Settle, ~Rejected(host.cur)
  PROVE  ConsoleInv'
<1>1. PICK r : r = host.cur.run
  OBVIOUS
<1>2. /\ Typed /\ ViewsInv /\ HandInv /\ CardsInv /\ host.pc = "settle" /\ CommitSettlement
      /\ host.worker \in Nat /\ host.batch \subseteq ClaimRec
  BY DEF ConsoleInv, Settle, Typed, HostRec
<1>3. /\ host' = [Idle(host.worker) EXCEPT !.batch = host.batch]
      /\ UNCHANGED <<run, start, rev, text, chat, faults>>
  BY DEF Settle
<1>4. /\ host' \in HostRec /\ host'.pc = "idle" /\ host'.cur = NoClaim
      /\ host'.batch = host.batch /\ host'.worker = host.worker
  <2>1. /\ Idle(host.worker) \in HostRec /\ Idle(host.worker).pc = "idle"
        /\ Idle(host.worker).cur = NoClaim /\ Idle(host.worker).worker = host.worker
    BY <1>2, IdleHost
  <2> QED
    BY <1>2, <1>3, <2>1 DEF HostRec
<1>5. /\ console' \in [Run -> ConsoleRec] /\ quiet' \in [Run -> BOOLEAN]
      /\ rows' \subseteq UNION {RowRec(s) : s \in Run}
      /\ \A s \in Run : ViewInv(console'[s], RowsOf(s)', Suffered(Disturbed))
      /\ \A s \in Run : s # r => console'[s] = console[s]
      /\ \/ console' = console /\ ~OwnsRow
         \/ Committed(console[r], console'[r]) /\ OwnsRow
      /\ \A x \in rows' : x.status = "attempting" =>
           /\ x \in rows /\ ~ (IsFor(host.cur, x) /\ Owned(x))
           /\ console'[x.run].ext = console[x.run].ext
      /\ \A x \in rows : x.status = "attempting" /\ ~IsFor(host.cur, x) => x \in rows'
  BY <1>1, <1>2, CommitKeeps
<1>6. \A kinds \in {Stray, Disturbed, Blurred} : Suffered(kinds)' <=> Suffered(kinds)
  BY <1>3, FaultsSame
<1>7. ViewsInv'
  BY <1>5, <1>6, LostGrows DEF ViewsInv
<1>8. Typed'
  BY <1>2, <1>3, <1>4, <1>5 DEF Typed
<1>9. /\ Hand = host.batch \cup {host.cur} /\ Hand' = host.batch
      /\ \A a \in host.batch : a.run \in Run
  BY <1>2, <1>4 DEF Hand, ClaimRec
<1>10. ClaimsKnown'
  <2>1. \A s \in Run : /\ console'[s].latest = console[s].latest
                       /\ console[s].state \in RecallStates => console'[s].state \in RecallStates
    BY <1>5 DEF Committed
  <2> QED
    BY <1>2, <1>3, <1>9, <2>1 DEF HandInv, ClaimsKnown
<1>11. ClaimsAgree'
  <2> SUFFICES ASSUME NEW a \in host.batch, NEW x \in rows', IsFor(a, x), Owned(x)'
               PROVE  a.expected = x.expected /\ a.upd = console'[a.run].ext
    BY <1>9 DEF ClaimsAgree
  <2>1. x.status = "attempting" /\ x.owner = host.worker /\ a.run = x.run
    BY <1>4 DEF Owned, IsFor
  <2>2. x \in rows /\ console'[x.run].ext = console[x.run].ext
    BY <1>5, <2>1
  <2>3. a.expected = x.expected /\ a.upd = console[a.run].ext
    BY <1>2, <1>9, <2>1, <2>2 DEF HandInv, ClaimsAgree, Owned
  <2> QED
    BY <2>1, <2>2, <2>3
<1>12. ClaimsKeyed'
  BY <1>2, <1>4 DEF HandInv, ClaimsKeyed
<1>13. HandExact'
  <2> SUFFICES ASSUME ~Suffered(Stray)
               PROVE  /\ \A x \in rows' : x.status = "attempting" =>
                            /\ ~x.ripe /\ x.owner = host.worker
                            /\ \E a \in host.batch : IsFor(a, x)
                      /\ \A a \in host.batch : \E x \in rows' : IsFor(a, x) /\ Owned(x)'
    BY <1>4, <1>6, <1>9 DEF HandExact
  <2>1. ASSUME NEW x \in rows', x.status = "attempting"
        PROVE  ~x.ripe /\ x.owner = host.worker /\ \E a \in host.batch : IsFor(a, x)
    <3>1. x \in rows /\ ~ (IsFor(host.cur, x) /\ Owned(x))
      BY <1>5, <2>1
    <3>2. ~x.ripe /\ x.owner = host.worker /\ \E a \in Hand : IsFor(a, x)
      BY <1>2, <2>1, <3>1 DEF HandInv, HandExact
    <3> QED
      BY <1>9, <2>1, <3>1, <3>2 DEF Owned
  <2>2. ASSUME NEW a \in host.batch
        PROVE  \E x \in rows' : IsFor(a, x) /\ Owned(x)'
    <3>1. PICK x \in rows : IsFor(a, x) /\ Owned(x)
      BY <1>2, <1>9 DEF HandInv, HandExact
    <3>2. ~IsFor(host.cur, x)
      BY <1>2, <3>1 DEF HandInv, ClaimsKeyed, SameKey, IsFor
    <3>3. x \in rows'
      BY <1>5, <3>1, <3>2 DEF Owned
    <3> QED
      BY <1>4, <3>1, <3>3 DEF Owned
  <2> QED
    BY <2>1, <2>2
<1>14. ExtInv' /\ DeliveredIsShown'
  BY <1>2, <1>3, CommitShows
<1>15. SendInv' /\ SentInv'
  BY <1>4 DEF SendInv, SentInv
<1>16. ChatInv'
  <2> SUFFICES ASSUME ~Suffered(Blurred), NEW s \in Run
               PROVE  /\ Len(chat[s]) <= 1
                      /\ console'[s].ext = 0 => Len(chat[s]) = 0
                      /\ console'[s].state = "recalled" => AllGone(s)
    BY <1>3, <1>4, <1>6 DEF ChatInv, AllGone
  <2>1. /\ Len(chat[s]) <= 1
        /\ console[s].ext = 0 => Len(chat[s]) = 0 \/ FirstSent(s)
        /\ console[s].state = "recalled" => AllGone(s)
        /\ host.outcome = "sent" /\ host.cur.kind = "recall" => AllGone(r)
    BY <1>1, <1>2 DEF CardsInv, ChatInv
  <2>2. OwnsRow
    BY <1>2, <1>9, StrayDisturbs DEF HandInv, HandExact, OwnsRow
  <2>3. Committed(console[r], console'[r])
    BY <1>5, <2>2
  <2>4. host.cur.kind \in {"upsert", "recall"}
    BY <1>2, <1>9, HandTyped
  <2>5. CASE s # r
    BY <1>1, <1>5, <2>1, <2>5 DEF FirstSent
  <2>6. CASE s = r
    <3>1. console'[r].ext = 0 => Len(chat[r]) = 0
      BY <2>1, <2>3, <2>6 DEF Committed, BringsCard, FirstSent
    <3>2. console'[r].state = "recalled" => AllGone(r)
      BY <2>1, <2>3, <2>4, <2>6 DEF Committed, Updating
    <3> QED
      BY <2>1, <2>6, <3>1, <3>2
  <2> QED
    BY <2>5, <2>6
<1> QED
  BY <1>7, <1>8, <1>10, <1>11, <1>12, <1>13, <1>14, <1>15, <1>16
     DEF ConsoleInv, HandInv, CardsInv

\* The settlement is rejected or does not answer: it is made again, as failed, or the claims
\* are given up.
LEMMA ThrownKeeps ==
  ASSUME ConsoleInv, host.pc = "settle", host' = Thrown,
         CommitSettlement \/ UNCHANGED <<console, quiet, rows>>,
         UNCHANGED <<run, start, rev, text, chat>>,
         faults' \in Seq(Fault), Len(faults') <= MaxFaults,
         \A kinds \in {Stray, Disturbed, Blurred} : Suffered(kinds)'
  PROVE  ConsoleInv'
<1>1. PICK r : r = host.cur.run
  OBVIOUS
<1>2. /\ Typed /\ ViewsInv /\ HandInv /\ CardsInv
      /\ host \in HostRec /\ host.worker \in Nat /\ host.batch \subseteq ClaimRec
      /\ host.cur \in ClaimRec
  BY DEF ConsoleInv, Typed, HostRec
<1>3. /\ console' \in [Run -> ConsoleRec] /\ quiet' \in [Run -> BOOLEAN]
      /\ rows' \subseteq UNION {RowRec(s) : s \in Run}
      /\ ViewsInv' /\ ExtInv' /\ DeliveredIsShown'
  <2>1. CASE CommitSettlement
    <3>1. /\ console' \in [Run -> ConsoleRec] /\ quiet' \in [Run -> BOOLEAN]
          /\ rows' \subseteq UNION {RowRec(s) : s \in Run}
          /\ \A s \in Run : ViewInv(console'[s], RowsOf(s)', Suffered(Disturbed))
      BY <1>1, <2>1, CommitKeeps
    <3>2. ViewsInv'
      BY <3>1, LostGrows DEF ViewsInv
    <3> QED
      BY <2>1, <3>1, <3>2, CommitShows
  <2>2. CASE UNCHANGED <<console, quiet, rows>>
    <3>1. ViewsInv'
      BY <1>2, <2>2, ViewsKept
    <3> QED
      BY <1>2, <2>2, <3>1 DEF Typed, CardsInv, ExtInv, DeliveredIsShown
  <2> QED
    BY <2>1, <2>2
<1>4. CASE host.outcome # "sent"
  <2>1. /\ host' \in HostRec /\ host'.pc = "idle" /\ host'.cur = NoClaim /\ host'.batch = {}
    BY <1>2, <1>4, IdleHost DEF Thrown
  <2>2. Typed'
    BY <1>2, <1>3, <2>1 DEF Typed
  <2>3. HandInv'
    BY <2>1, NothingInHand
  <2>4. SendInv' /\ SentInv' /\ ChatInv'
    BY <2>1 DEF SendInv, SentInv, ChatInv
  <2> QED
    BY <1>3, <2>2, <2>3, <2>4 DEF ConsoleInv, CardsInv
<1>5. CASE host.outcome = "sent"
  <2>1. /\ host' \in HostRec /\ host'.pc = "settle" /\ host'.cur = host.cur
        /\ host'.batch = host.batch /\ host'.worker = host.worker
        /\ host'.outcome = "failed" /\ host'.id = 0
    BY <1>2, <1>5 DEF Thrown, HostRec
  <2>2. Typed'
    BY <1>2, <1>3, <2>1 DEF Typed
  <2>3. Hand' = Hand /\ host.cur \in Hand /\ \A a \in Hand : a \in ClaimRec /\ a.run \in Run
    BY <1>2, <2>1 DEF Hand, ClaimRec
  <2>4. /\ \A s \in Run : /\ console'[s].latest = console[s].latest
                          /\ console[s].state \in RecallStates => console'[s].state \in RecallStates
        /\ \A x \in rows' : x.status = "attempting" =>
             x \in rows /\ console'[x.run].ext = console[x.run].ext
    <3>1. CASE CommitSettlement
      <4>1. /\ \A s \in Run : s # r => console'[s] = console[s]
            /\ console' = console \/ Committed(console[r], console'[r])
            /\ \A x \in rows' : x.status = "attempting" =>
                 x \in rows /\ console'[x.run].ext = console[x.run].ext
        BY <1>1, <3>1, CommitKeeps
      <4> QED
        BY <4>1 DEF Committed
    <3>2. CASE UNCHANGED <<console, quiet, rows>>
      BY <3>2
    <3> QED
      BY <3>1, <3>2
  <2>5. ClaimsKnown'
    <3> SUFFICES ASSUME NEW a \in Hand
                 PROVE  /\ a.upd <= Len(chat[a.run])
                        /\ a.kind = "upsert" => a.expected <= console'[a.run].latest
                        /\ a.kind = "recall" => console'[a.run].state \in RecallStates
      BY <2>3 DEF ClaimsKnown
    <3> QED
      BY <1>2, <2>3, <2>4 DEF HandInv, ClaimsKnown
  <2>6. ClaimsAgree'
    <3> SUFFICES ASSUME NEW a \in Hand, NEW x \in rows', IsFor(a, x), Owned(x)'
                 PROVE  a.expected = x.expected /\ a.upd = console'[a.run].ext
      BY <2>3 DEF ClaimsAgree
    <3>1. x.status = "attempting" /\ x.owner = host.worker /\ a.run = x.run
      BY <2>1 DEF Owned, IsFor
    <3>2. x \in rows /\ console'[x.run].ext = console[x.run].ext
      BY <2>4, <3>1
    <3>3. a.expected = x.expected /\ a.upd = console[a.run].ext
      BY <1>2, <3>1, <3>2 DEF HandInv, ClaimsAgree, Owned
    <3> QED
      BY <3>1, <3>2, <3>3
  <2>7. ClaimsKeyed'
    BY <1>2, <2>1 DEF HandInv, ClaimsKeyed
  <2>8. HandExact'
    BY DEF HandExact
  <2>9. SendInv' /\ SentInv' /\ ChatInv'
    <3>1. \A s \in Run : Len(chat[s]) >= 0
      BY <1>2 DEF Typed
    <3> QED
      BY <2>1, <2>3, <3>1 DEF SendInv, SentInv, ChatInv
  <2> QED
    BY <1>3, <2>2, <2>5, <2>6, <2>7, <2>8, <2>9 DEF ConsoleInv, HandInv, CardsInv
<1> QED
  BY <1>4, <1>5

\* A settlement that is rejected meets a row that was taken away: a stray fault came before.
LEMMA SettleKeeps ==
  ASSUME ConsoleInv, Settle
  PROVE  ConsoleInv'
<1>1. CASE ~Rejected(host.cur)
  BY <1>1, AppliedKeeps
<1>2. CASE Rejected(host.cur)
  <2>1. /\ host.pc = "settle" /\ CommitSettlement /\ host' = Thrown
        /\ UNCHANGED <<run, start, rev, text, chat, faults>>
    BY <1>2 DEF Settle
  <2>2. HandInv /\ host.cur \in Hand /\ faults \in Seq(Fault) /\ Len(faults) <= MaxFaults
    BY <2>1 DEF ConsoleInv, Typed, Hand
  <2>3. Suffered(Stray)
    BY <1>2, <2>2 DEF HandInv, HandExact, Rejected, Row
  <2>4. \A kinds \in {Stray, Disturbed, Blurred} : Suffered(kinds)'
    BY <2>1, <2>3, FaultsSame, StrayDisturbs
  <2> QED
    BY <2>1, <2>2, <2>4, ThrownKeeps
<1> QED
  BY <1>1, <1>2

\* The settlement fails before or after its commit.
LEMMA SettleFailsKeeps ==
  ASSUME ConsoleInv, SettleFails
  PROVE  ConsoleInv'
<1>1. Typed /\ host.pc = "settle" /\ Suffer("dropped")
  BY DEF ConsoleInv, SettleFails
<1>2. /\ faults' \in Seq(Fault) /\ Len(faults') <= MaxFaults
      /\ \A kinds \in {Stray, Disturbed, Blurred} : Suffered(kinds)'
  BY <1>1, FaultAdded DEF Typed, Stray, Disturbed, Blurred
<1>3. /\ CommitSettlement \/ UNCHANGED <<console, quiet, rows>>
      /\ host' = Thrown /\ UNCHANGED <<run, start, rev, text, chat>>
  BY DEF SettleFails
<1> QED
  BY <1>1, <1>2, <1>3, ThrownKeeps

\* Every step keeps the invariant.
LEMMA ConsoleNextKeeps ==
  ConsoleInv /\ [Next]_vars => ConsoleInv'
<1> SUFFICES ASSUME ConsoleInv, [Next]_vars
             PROVE  ConsoleInv'
  OBVIOUS
<1>1. ASSUME NEW r \in Run, StartRun(r)
      PROVE  ConsoleInv'
  BY <1>1, StartRunKeeps
<1>2. ASSUME NEW r \in Run, EndRun(r)
      PROVE  ConsoleInv'
  BY <1>2, EndRunKeeps
<1>3. ASSUME NEW r \in Run, SettleText(r)
      PROVE  ConsoleInv'
  BY <1>3, SettleTextKeeps
<1>4. ASSUME NEW r \in Run, QuietElapses(r)
      PROVE  ConsoleInv'
  BY <1>4, QuietElapsesKeeps
<1>5. ASSUME NEW r \in Run, NEW streaming \in BOOLEAN, Evidence(r, streaming)
      PROVE  ConsoleInv'
  BY <1>5, EvidenceKeeps
<1>6. ASSUME NEW d \in rows, Elapse(d)
      PROVE  ConsoleInv'
  BY <1>6, ElapseKeeps
<1>7. CASE Tick
  BY <1>7, TickKeeps
<1>8. CASE OtherTick
  BY <1>8, OtherTickKeeps
<1>9. ASSUME NEW claim \in host.batch, Take(claim)
      PROVE  ConsoleInv'
  BY <1>9, TakeKeeps
<1>10. CASE Send
  BY <1>10, SendKeeps
<1>11. CASE SendUnclear
  BY <1>11, SendUnclearKeeps
<1>12. ASSUME NEW outcome \in {"retry", "failed"}, SendRefused(outcome)
       PROVE  ConsoleInv'
  BY <1>12, SendRefusedKeeps
<1>13. CASE Settle
  BY <1>13, SettleKeeps
<1>14. CASE SettleFails
  BY <1>14, SettleFailsKeeps
<1>15. CASE Crash
  BY <1>15, CrashKeeps
<1>16. CASE UNCHANGED vars
  BY <1>16, StutterKeeps
<1> QED
  BY <1>1, <1>2, <1>3, <1>4, <1>5, <1>6, <1>7, <1>8, <1>9, <1>10, <1>11, <1>12, <1>13, <1>14,
     <1>15, <1>16 DEF Next

\* The inductive invariant holds, for any runs, faults and bounds.
THEOREM ConsoleInvHolds == Spec => []ConsoleInv
<1>1. Init => ConsoleInv
  BY InitHolds
<1>2. ConsoleInv /\ [Next]_vars => ConsoleInv'
  BY ConsoleNextKeeps
<1> QED
  BY <1>1, <1>2, PTL DEF Spec

\* What TypeOK says of the rows and consoles follows from their types and views.
LEMMA TypesFollow == ConsoleInv => TypeOK
<1> SUFFICES ASSUME ConsoleInv
             PROVE  TypeOK
  OBVIOUS
<1>1. Typed /\ ViewsInv /\ CardsInv
  BY DEF ConsoleInv
<1>2. \A r \in Run : /\ console[r].state \in Live \cup Frozen \cup {"none"}
                     /\ console[r].delivered \in 0 .. console[r].latest
                     /\ console[r].ext \in 0 .. Len(chat[r])
  <2> TAKE r \in Run
  <2>1. console[r] \in ConsoleRec /\ chat[r] \in Seq(Content)
    BY <1>1 DEF Typed
  <2>2. console[r].delivered <= console[r].latest /\ console[r].ext <= Len(chat[r])
    BY <1>1 DEF ViewsInv, ViewInv, CardsInv, ExtInv
  <2> QED
    BY <2>1, <2>2 DEF ConsoleRec
<1>3. \A d \in rows : /\ d.run \in Run /\ d.kind \in {"upsert", "recall"}
                      /\ d.status \in {"pending", "attempting"} \cup Ended
  BY <1>1 DEF Typed, RowRec
<1> QED
  BY <1>1, <1>2, <1>3 DEF TypeOK, Typed, RunStatus, HostRec

\* Types and card numbers of ExecutionConsole are correct.
THEOREM ConsoleTypeCorrect == Spec => []TypeOK
<1>1. ConsoleInv => TypeOK
  BY TypesFollow
<1> QED
  BY <1>1, ConsoleInvHolds, PTL

\* Two open updates of a run are one.
LEMMA OneOpen ==
  ASSUME ConsoleInv, NEW r \in Run
  PROVE  Cardinality(Open(RowsOf(r), "upsert")) <= 1
<1> DEFINE O == Open(RowsOf(r), "upsert")
<1>1. ViewInv(console[r], RowsOf(r), Suffered(Disturbed))
  BY DEF ConsoleInv, ViewsInv
<1>2. \A d \in O : d \in RowsOf(r) /\ d.kind = "upsert" /\ IsOpen(d)
  BY DEF Open, IsOpen
<1> HIDE DEF O
<1>3. \A d, e \in O : d = e
  <2> SUFFICES ASSUME NEW d \in O, NEW e \in O, d # e
               PROVE  FALSE
    OBVIOUS
  <2>1. d.tag < e.tag /\ e.tag < d.tag
    BY <1>1, <1>2 DEF ViewInv, Newest
  <2>2. d.tag \in Nat /\ e.tag \in Nat
    BY <1>1, <1>2 DEF ViewInv, Behind
  <2> QED
    BY <2>1, <2>2
<1>4. CASE O = {}
  <2>1. Cardinality(O) = 0
    BY <1>4, FS_EmptySet
  <2> QED
    BY <2>1 DEF O
<1>5. CASE O # {}
  <2>1. PICK d : d \in O
    BY <1>5
  <2>2. O = {d}
    BY <1>3, <2>1
  <2>3. Cardinality(O) = 1
    BY <2>2, FS_Singleton
  <2> QED
    BY <2>3 DEF O
<1> QED
  BY <1>4, <1>5

\* The invariant says that the cards and the consoles agree.
LEMMA CardsFollow == ConsoleInv => CardsAgree
<1> SUFFICES ASSUME ConsoleInv
             PROVE  CardsAgree
  OBVIOUS
<1>1. Typed /\ ViewsInv /\ HandInv /\ CardsInv
  BY DEF ConsoleInv
<1>2. OneUpdateOpen
  BY OneOpen DEF OneUpdateOpen
<1>3. IdentityAgrees
  <2> SUFFICES ASSUME NEW d \in rows, host.pc = "settle", host.outcome = "sent", host.id # 0,
                      IsFor(host.cur, d), d.kind = "upsert", Owned(d)
               PROVE  console[d.run].ext \in {0, host.id}
    BY DEF IdentityAgrees
  <2>1. host.cur \in Hand /\ host.cur.run = d.run /\ Updating
    BY <1>1, HandTyped DEF IsFor, Updating
  <2>2. host.cur.upd = console[d.run].ext
    BY <1>1, <2>1 DEF HandInv, ClaimsAgree
  <2>3. host.cur.upd # 0 => host.id = host.cur.upd
    BY <1>1, <2>1 DEF CardsInv, SentInv
  <2> QED
    BY <2>2, <2>3
<1>4. RecallAlone
  <2> SUFFICES ASSUME NEW d \in rows, d.kind = "recall", d.status = "attempting"
               PROVE  Open(RowsOf(d.run), "upsert") = {}
    BY DEF RecallAlone
  <2>1. d.run \in Run /\ d \in RowsOf(d.run)
    BY <1>1 DEF Typed, RowsOf, RowRec
  <2> QED
    BY <1>1, <2>1 DEF ViewsInv, ViewInv, Recalls
<1>5. RecalledIsGone
  <2> SUFFICES ASSUME NEW r \in Run, console[r].state = "recalled", ~Suffered(Blurred)
               PROVE  /\ \A i \in 1 .. Len(chat[r]) : chat[r][i] = Gone
                      /\ ~ (host.pc = "send" /\ host.cur.run = r)
    <3>1. Suffered({"unclear", "crash", "dropped", "slow"}) <=> Suffered(Blurred)
      BY DEF Suffered, Blurred, Stray
    <3> QED
      BY <3>1 DEF RecalledIsGone
  <2>1. \A i \in 1 .. Len(chat[r]) : chat[r][i] = Gone
    BY <1>1 DEF CardsInv, ChatInv, AllGone
  <2>2. ASSUME host.pc = "send", host.cur.run = r
        PROVE  FALSE
    <3>1. host.cur \in Hand /\ host.cur \in ClaimRec
      BY <1>1, <2>2, HandTyped
    <3>2. PICK d \in rows : IsFor(host.cur, d) /\ Owned(d)
      BY <1>1, <3>1, StrayDisturbs DEF HandInv, HandExact
    <3>3. d \in RowsOf(r) /\ IsOpen(d) /\ d.kind \in {"upsert", "recall"}
      BY <2>2, <3>1, <3>2 DEF IsFor, Owned, RowsOf, IsOpen, ClaimRec
    <3>4. ViewInv(console[r], RowsOf(r), Suffered(Disturbed))
      BY <1>1 DEF ViewsInv
    <3>5. d.kind # "recall"
      BY <3>3, <3>4 DEF ViewInv, Recalls
    <3>6. d \notin Open(RowsOf(r), "upsert")
      BY <3>4 DEF ViewInv, Recalled
    <3> QED
      BY <3>3, <3>5, <3>6 DEF Open, IsOpen
  <2> QED
    BY <2>1, <2>2
<1>6. TypeOK
  BY TypesFollow
<1> QED
  BY <1>1, <1>2, <1>3, <1>4, <1>5, <1>6 DEF CardsAgree, CardsInv

\* The card and the console agree, and nothing comes after a recall: one update is queued or in
\* flight, a settlement brings the card that is known, a recall is alone, a recalled card is gone
\* and a delivered seal is shown.
THEOREM CardsAgreeHolds == Spec => []CardsAgree
<1>1. ConsoleInv => CardsAgree
  BY CardsFollow
<1> QED
  BY <1>1, ConsoleInvHolds, PTL

\* A sealed console is delivered, has an update under way, records its failure, or its first
\* update was lost.
THEOREM SealedIsCarriedHolds == Spec => []SealedIsCarried
<1>1. ConsoleInv => SealedIsCarried
  <2> SUFFICES ASSUME ConsoleInv, NEW r \in Run
               PROVE  Carried(r) \/ FirstUpdateLost(r)
    BY DEF SealedIsCarried
  <2>1. Sealed(console[r], RowsOf(r), Suffered(Disturbed))
    BY DEF ConsoleInv, ViewsInv, ViewInv
  <2>2. Suffered({"other", "crash", "dropped", "slow"}) <=> Suffered(Disturbed)
    BY DEF Suffered, Disturbed, Stray
  <2> QED
    BY <2>1, <2>2 DEF Carried, FirstUpdateLost, Sealed
<1> QED
  BY <1>1, ConsoleInvHolds, PTL
==============================================================================
