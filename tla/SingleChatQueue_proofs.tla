---------------------- MODULE SingleChatQueue_proofs ----------------------
(***************************************************************************)
(* The queue of a Single Chat agrees with its conversation, for any number *)
(* of clients, texts, sends and restarts, and nothing comes after its end. *)
(***************************************************************************)
EXTENDS SingleChatQueue, FiniteSetTheorems, TLAPS

-----------------------------------------------------------------------------
(* The inductive invariant. *)

ItemState == {"queued", "needs_repair", "published", "cancelled"}
ItemRow == [no : Nat, rev : Nat, state : ItemState, text : Text, failed : Text \cup {None}]
ChatRow == [who : {"user", "agent"}, no : Nat, text : Text \cup {None}]

\* Every variable has its shape, and the driver works on an item of the queue.
Shape ==
    /\ ended \in BOOLEAN /\ wake \in BOOLEAN
    /\ draft \in [Client -> Text \cup {None}]
    /\ items \in Seq(ItemRow) /\ chat \in Seq(ChatRow)
    /\ session \in [item : Nat, base : Nat, client : Client \cup {None}, recover : BOOLEAN]
    /\ run \in [no : Nat, status : {"queued", "running", "ended"}]
    /\ turns \subseteq Nat
    /\ driver \in [at : {"wait", "publish", "record"}, item : Nat, rev : Nat]
    /\ driver.at # "wait" => driver.item \in DOMAIN items
    /\ written \in 0 .. MaxTexts /\ sends \in Nat

\* Inputs carry the number of their send, in the order of the queue; what is published has
\* overtaken nothing that still waits; an active run answers the last input of the chat.
Numbered ==
    /\ \A i \in DOMAIN items : items[i].no \in 1 .. sends
    /\ \A i, j \in DOMAIN items : i < j => items[i].no < items[j].no
    /\ \A k \in DOMAIN chat : chat[k].no \in 1 .. sends
    /\ \A k \in DOMAIN chat, i \in Open : chat[k].no < items[i].no
    /\ run.no \in 0 .. sends /\ turns \subseteq 1 .. sends
    /\ ActiveRun => /\ chat # <<>>
                    /\ chat[Len(chat)].who = "user" /\ chat[Len(chat)].no = run.no

\* A text is one of those the user wrote ...
Written ==
    /\ \A c \in Client : draft[c] # None => draft[c] <= written
    /\ \A i \in Open : items[i].text <= written
    /\ \A k \in DOMAIN chat : chat[k].text # None => chat[k].text <= written

\* ... and no two places hold the same one.
Apart ==
    /\ \A c, d \in Client : draft[c] = draft[d] /\ draft[c] # None => c = d
    /\ \A i, j \in Open : items[i].text = items[j].text => i = j
    /\ \A k, l \in DOMAIN chat : chat[k].text = chat[l].text /\ chat[k].text # None => k = l
    /\ \A c \in Client, i \in Open : draft[c] # items[i].text
    /\ \A c \in Client, k \in DOMAIN chat : draft[c] = chat[k].text => draft[c] = None
    /\ \A i \in Open, k \in DOMAIN chat : items[i].text # chat[k].text

\* The driver works on a revision the item had; what it records as a failure is what it
\* tried, unless the item was edited since.
DriverKnows ==
    driver.at # "wait" =>
        /\ driver.rev <= items[driver.item].rev
        /\ driver.at = "record" /\ driver.rev = items[driver.item].rev =>
               items[driver.item].failed = items[driver.item].text

\* A chat that ended has nothing that waits or runs.
EndedQuiet == ended => Open = {} /\ ~ActiveRun

ChatInv ==
    /\ Shape /\ Numbered /\ InOrder /\ Written /\ Apart /\ SessionOwnable
    /\ DriverKnows /\ RepairIsOfAttempt /\ EndedQuiet

-----------------------------------------------------------------------------
(* What the actions do to the queue. *)

\* What the proofs read from the assumption and the shapes.
LEMMA Bounds ==
  /\ None \notin Nat /\ None \notin Client /\ MaxTexts \in Nat /\ MaxSends \in Nat
  /\ Text \subseteq Nat \ {0} /\ None \notin Text
BY ChatAssumption DEF Text

\* One row of the queue is replaced.
Replaces(i, row) == i \in DOMAIN items /\ row \in ItemRow /\ items' = [items EXCEPT ![i] = row]

\* Replacing one row leaves the others; the row is open or not by its new state alone.
LEMMA ReplacedRow ==
  ASSUME items \in Seq(ItemRow), NEW i, NEW row, Replaces(i, row)
  PROVE  /\ items' \in Seq(ItemRow) /\ DOMAIN items' = DOMAIN items
         /\ items'[i] = row /\ \A j \in DOMAIN items : j # i => items'[j] = items[j]
         /\ Open' = IF row.state \in {"queued", "needs_repair"} THEN Open \cup {i} ELSE Open \ {i}
<1>1. /\ items' \in Seq(ItemRow) /\ DOMAIN items' = DOMAIN items
      /\ items'[i] = row /\ \A j \in DOMAIN items : j # i => items'[j] = items[j]
  BY DEF Replaces
<1> QED
  BY <1>1 DEF Open, Replaces

\* What waits is in the queue, whose items are rows.
LEMMA OpenItems ==
  ASSUME items \in Seq(ItemRow)
  PROVE  /\ Open \subseteq DOMAIN items /\ DOMAIN items = 1 .. Len(items) /\ Len(items) \in Nat
         /\ \A i \in DOMAIN items : items[i] \in ItemRow
BY DEF Open

\* An item leaves the queue for good.
CancelledRow(i) == [items[i] EXCEPT !.state = "cancelled", !.rev = items[i].rev + 1]

\* What cancelling an open item writes.
LEMMA CancelRow ==
  ASSUME items \in Seq(ItemRow), NEW i \in Open
  PROVE  /\ CancelledRow(i) \in ItemRow /\ CancelledRow(i).no = items[i].no
         /\ CancelledRow(i).state = "cancelled" /\ CancelledRow(i).text = items[i].text
         /\ Cancelled(i) = [items EXCEPT ![i] = CancelledRow(i)]
<1>1. items[i] \in ItemRow /\ i \in DOMAIN items
  BY OpenItems
<1>2. /\ CancelledRow(i) \in ItemRow /\ CancelledRow(i).no = items[i].no
      /\ CancelledRow(i).state = "cancelled" /\ CancelledRow(i).text = items[i].text
  <2>1. ASSUME NEW item \in ItemRow, NEW rev \in Nat
        PROVE  LET row == [item EXCEPT !.state = "cancelled", !.rev = rev]
               IN  /\ row \in ItemRow /\ row.no = item.no
                   /\ row.state = "cancelled" /\ row.text = item.text
    BY DEF ItemRow, ItemState
  <2>2. items[i].rev + 1 \in Nat
    BY <1>1 DEF ItemRow
  <2> QED
    BY <1>1, <2>1, <2>2 DEF CancelledRow
<1>3. Cancelled(i) = [items EXCEPT ![i] = CancelledRow(i)]
  BY <1>1 DEF Cancelled, CancelledRow
<1> QED
  BY <1>2, <1>3

\* The cancellation is a new revision.
LEMMA CancelRev ==
  ASSUME items \in Seq(ItemRow), NEW i \in DOMAIN items
  PROVE  CancelledRow(i).rev = items[i].rev + 1
<1>1. items[i] \in ItemRow
  BY OpenItems
<1> QED
  BY <1>1 DEF CancelledRow, ItemRow

\* The rows the other actions leave.
Saved(item, text, rev) == [item EXCEPT !.text = text, !.rev = rev, !.state = "queued"]
SavedRow(i) == Saved(items[i], written', items[i].rev + 1)
PublishedRow(i) == [items[i] EXCEPT !.state = "published"]
TriedRow(i) == [items[i] EXCEPT !.failed = items[i].text]
RepairRow(i) == [items[i] EXCEPT !.state = "needs_repair"]

\* What saving an edit, publishing, failing to publish and marking for repair write.
LEMMA EditRows ==
  ASSUME items \in Seq(ItemRow), NEW i \in DOMAIN items
  PROVE  /\ written' \in Text =>
              /\ SavedRow(i) \in ItemRow /\ SavedRow(i).no = items[i].no
              /\ SavedRow(i).state = "queued" /\ SavedRow(i).text = written'
              /\ SavedRow(i).rev = items[i].rev + 1
              /\ [items EXCEPT ![i].text = written', ![i].rev = @ + 1, ![i].state = "queued"]
                     = [items EXCEPT ![i] = SavedRow(i)]
         /\ PublishedRow(i) \in ItemRow /\ PublishedRow(i).no = items[i].no
         /\ PublishedRow(i).state = "published" /\ PublishedRow(i).text = items[i].text
         /\ PublishedRow(i).rev = items[i].rev
         /\ TriedRow(i) \in ItemRow /\ TriedRow(i).no = items[i].no
         /\ TriedRow(i).state = items[i].state /\ TriedRow(i).text = items[i].text
         /\ TriedRow(i).rev = items[i].rev /\ TriedRow(i).failed = items[i].text
         /\ RepairRow(i) \in ItemRow /\ RepairRow(i).no = items[i].no
         /\ RepairRow(i).state = "needs_repair" /\ RepairRow(i).text = items[i].text
         /\ RepairRow(i).rev = items[i].rev /\ RepairRow(i).failed = items[i].failed
<1>1. items[i] \in ItemRow
  BY OpenItems
<1>2. ASSUME NEW item \in ItemRow, NEW rev \in Nat, NEW text \in Text
      PROVE  /\ Saved(item, text, rev) \in ItemRow /\ Saved(item, text, rev).no = item.no
             /\ Saved(item, text, rev).state = "queued" /\ Saved(item, text, rev).text = text
             /\ Saved(item, text, rev).rev = rev
  BY DEF Saved, ItemRow, ItemState
<1>3. items[i].rev + 1 \in Nat
  BY <1>1 DEF ItemRow
<1>4. written' \in Text =>
        /\ SavedRow(i) \in ItemRow /\ SavedRow(i).no = items[i].no
        /\ SavedRow(i).state = "queued" /\ SavedRow(i).text = written'
        /\ SavedRow(i).rev = items[i].rev + 1
  BY <1>1, <1>2, <1>3 DEF SavedRow
<1>5. ASSUME written' \in Text
      PROVE  [items EXCEPT ![i].text = written', ![i].rev = @ + 1, ![i].state = "queued"]
               = [items EXCEPT ![i] = SavedRow(i)]
  BY <1>1 DEF SavedRow, Saved, ItemRow
<1>6. ASSUME NEW item \in ItemRow
      PROVE  /\ [item EXCEPT !.state = "published"] \in ItemRow
             /\ [item EXCEPT !.failed = item.text] \in ItemRow
             /\ [item EXCEPT !.state = "needs_repair"] \in ItemRow
  BY DEF ItemRow, ItemState
<1>7. /\ PublishedRow(i) \in ItemRow /\ PublishedRow(i).no = items[i].no
      /\ PublishedRow(i).state = "published" /\ PublishedRow(i).text = items[i].text
      /\ PublishedRow(i).rev = items[i].rev
  BY <1>1, <1>6 DEF PublishedRow, ItemRow
<1>8. /\ TriedRow(i) \in ItemRow /\ TriedRow(i).no = items[i].no
      /\ TriedRow(i).state = items[i].state /\ TriedRow(i).text = items[i].text
      /\ TriedRow(i).rev = items[i].rev /\ TriedRow(i).failed = items[i].text
  BY <1>1, <1>6 DEF TriedRow, ItemRow
<1>9. /\ RepairRow(i) \in ItemRow /\ RepairRow(i).no = items[i].no
      /\ RepairRow(i).state = "needs_repair" /\ RepairRow(i).text = items[i].text
      /\ RepairRow(i).rev = items[i].rev /\ RepairRow(i).failed = items[i].failed
  BY <1>1, <1>6 DEF RepairRow, ItemRow
<1> QED
  BY <1>4, <1>5, <1>7, <1>8, <1>9

-----------------------------------------------------------------------------
(* Every step keeps the shapes. *)

USE DEF vars

\* The initial states have their types.
LEMMA InitShape == Init => Shape
<1>1. <<>> \in Seq(ItemRow) /\ <<>> \in Seq(ChatRow)
  OBVIOUS
<1>2. ASSUME Init
      PROVE  /\ session \in [item : Nat, base : Nat, client : Client \cup {None}, recover : BOOLEAN]
             /\ run \in [no : Nat, status : {"queued", "running", "ended"}]
             /\ driver \in [at : {"wait", "publish", "record"}, item : Nat, rev : Nat]
             /\ driver.at = "wait"
  BY <1>2 DEF Init, NoSession, Idle
<1>3. 0 \in 0 .. MaxTexts
  BY Bounds
<1>4. Init => /\ items \in Seq(ItemRow) /\ chat \in Seq(ChatRow)
              /\ draft \in [Client -> Text \cup {None}] /\ turns \subseteq Nat
              /\ written \in 0 .. MaxTexts /\ sends \in Nat
  BY <1>1, <1>3 DEF Init
<1>5. Init => ended \in BOOLEAN /\ wake \in BOOLEAN
  BY DEF Init
<1> QED
  BY <1>2, <1>4, <1>5 DEF Shape

\* Every step keeps the types, and the driver works on an item that exists.
LEMMA ShapeStep == Shape /\ [Next]_vars => Shape'
<1> SUFFICES ASSUME Shape, [Next]_vars PROVE Shape'
  OBVIOUS
<1>s. /\ ended \in BOOLEAN /\ wake \in BOOLEAN /\ draft \in [Client -> Text \cup {None}]
      /\ items \in Seq(ItemRow) /\ chat \in Seq(ChatRow)
      /\ session \in [item : Nat, base : Nat, client : Client \cup {None}, recover : BOOLEAN]
      /\ run \in [no : Nat, status : {"queued", "running", "ended"}]
      /\ turns \subseteq Nat
      /\ driver \in [at : {"wait", "publish", "record"}, item : Nat, rev : Nat]
      /\ driver.at # "wait" => driver.item \in DOMAIN items
      /\ written \in 0 .. MaxTexts /\ sends \in Nat
  BY DEF Shape
<1>n. /\ NoSession \in [item : Nat, base : Nat, client : Client \cup {None}, recover : BOOLEAN]
      /\ Idle \in [at : {"wait", "publish", "record"}, item : Nat, rev : Nat]
      /\ Idle.at = "wait"
  BY DEF NoSession, Idle
<1>r. \A i \in DOMAIN items : items[i].no \in Nat /\ items[i].rev \in Nat /\ items[i].text \in Text
  BY <1>s, OpenItems DEF ItemRow
<1>w. ASSUME written' = written + 1, written < MaxTexts
      PROVE  written' \in 0 .. MaxTexts /\ written' \in Text
  BY <1>s, <1>w, Bounds DEF Text
<1>a. ASSUME NEW no \in Nat, NEW text \in Text, Admit(no, text)
      PROVE  /\ chat' \in Seq(ChatRow)
             /\ run' \in [no : Nat, status : {"queued", "running", "ended"}]
  <2>1. [who |-> "user", no |-> no, text |-> text] \in ChatRow
    BY DEF ChatRow
  <2> QED
    BY <1>s, <1>a, <2>1 DEF Admit
<1>e. ASSUME NEW c \in Client, NEW i \in Open,
             \/ BeginEdit(c, i) \/ SaveEdit(c, i) \/ CancelEdit(c, i)
             \/ DeleteItem(c, i) \/ ReturnItem(c, i)
      PROVE  Shape'
  <2>1. /\ UNCHANGED <<ended, chat, run, turns, driver, sends>> /\ wake' = TRUE
        /\ i \in DOMAIN items
    BY <1>s, <1>e, OpenItems DEF BeginEdit, SaveEdit, CancelEdit, DeleteItem, ReturnItem,
        EditCommand, Command
  <2>2. items' \in Seq(ItemRow) /\ DOMAIN items' = DOMAIN items /\ written' \in 0 .. MaxTexts
    <3>1. CASE SaveEdit(c, i)
      <4>1. Replaces(i, SavedRow(i))
        BY <1>s, <1>w, <2>1, <3>1, EditRows DEF SaveEdit, Replaces
      <4> QED
        BY <1>s, <1>w, <3>1, <4>1, ReplacedRow DEF SaveEdit
    <3>2. CASE items' = Cancelled(i) /\ UNCHANGED written
      <4>1. Replaces(i, CancelledRow(i))
        BY <1>s, <2>1, <3>2, CancelRow DEF Replaces
      <4> QED
        BY <1>s, <3>2, <4>1, ReplacedRow
    <3> QED
      BY <1>s, <1>e, <3>1, <3>2 DEF BeginEdit, CancelEdit, DeleteItem, ReturnItem
  <2>3. session' \in [item : Nat, base : Nat, client : Client \cup {None}, recover : BOOLEAN]
    <3>1. i \in Nat /\ items[i].rev \in Nat
      BY <1>s, <1>r, <2>1
    <3>2. \/ session' = [item |-> i, base |-> items[i].rev, client |-> c, recover |-> FALSE]
          \/ session' = session \/ session' = NoSession
      BY <1>e DEF BeginEdit, SaveEdit, CancelEdit, DeleteItem, ReturnItem, Released
    <3>3. [item |-> i, base |-> items[i].rev, client |-> c, recover |-> FALSE]
             \in [item : Nat, base : Nat, client : Client \cup {None}, recover : BOOLEAN]
      BY <3>1
    <3> QED
      BY <1>s, <1>n, <3>2, <3>3
  <2>4. draft' \in [Client -> Text \cup {None}]
    BY <1>s, <1>r, <1>e, <2>1 DEF BeginEdit, SaveEdit, CancelEdit, DeleteItem, ReturnItem
  <2> QED
    BY <1>s, <2>1, <2>2, <2>3, <2>4 DEF Shape
<1>1. ASSUME NEW c \in Client, Compose(c) PROVE Shape'
  BY <1>s, <1>w, <1>1 DEF Compose, Shape
<1>2. ASSUME NEW c \in Client, Send(c) PROVE Shape'
  <2>1. /\ UNCHANGED <<ended, session, turns, driver, written>> /\ wake' = TRUE
        /\ draft' = [draft EXCEPT ![c] = None] /\ sends' = sends + 1
        /\ draft[c] \in Text
    BY <1>s, <1>2 DEF Send, Command
  <2>2. sends' \in Nat
    BY <1>s, <2>1
  <2>3. CASE Busy
    <3>1. items' = Append(items, [no |-> sends', rev |-> 1, state |-> "queued",
                                  text |-> draft[c], failed |-> None])
          /\ UNCHANGED <<chat, run>>
      BY <1>2, <2>3 DEF Send
    <3>2. [no |-> sends', rev |-> 1, state |-> "queued", text |-> draft[c], failed |-> None]
             \in ItemRow
      BY <2>1, <2>2 DEF ItemRow, ItemState
    <3>3. items' \in Seq(ItemRow) /\ DOMAIN items \subseteq DOMAIN items'
      BY <1>s, <3>1, <3>2
    <3> QED
      BY <1>s, <2>1, <2>2, <3>1, <3>3 DEF Shape
  <2>4. CASE ~Busy
    <3>1. Admit(sends', draft[c]) /\ UNCHANGED items
      BY <1>2, <2>4 DEF Send
    <3> QED
      BY <1>s, <1>a, <2>1, <2>2, <3>1 DEF Shape
  <2> QED
    BY <2>3, <2>4
<1>3. ASSUME End PROVE Shape'
  <2>1. \A i \in DOMAIN items : (IF i \in Open THEN Cancelled(i)[i] ELSE items[i]) \in ItemRow
    BY <1>s, CancelRow, OpenItems
  <2>2. items' \in Seq(ItemRow) /\ DOMAIN items' = DOMAIN items
    BY <1>s, <1>3, <2>1, OpenItems DEF End
  <2> QED
    BY <1>s, <1>n, <1>3, <2>2 DEF End, Command, Shape
<1>4. ASSUME StartRun \/ StopRun PROVE Shape'
  BY <1>s, <1>4 DEF StartRun, StopRun, RunStep, Shape
<1>5. ASSUME NEW no \in turns, NEW output \in BOOLEAN, Succeed(no, output) PROVE Shape'
  <2>1. [who |-> "agent", no |-> no, text |-> None] \in ChatRow
    BY <1>s DEF ChatRow
  <2>2. chat' = chat \/ chat' = Append(chat, [who |-> "agent", no |-> no, text |-> None])
    BY <1>5 DEF Succeed
  <2>3. PICK row \in ChatRow : chat' = chat \/ chat' = Append(chat, row)
    BY <2>1, <2>2
  <2>4. Append(chat, row) \in Seq(ChatRow)
    BY <1>s
  <2>5. chat' \in Seq(ChatRow)
    BY <1>s, <2>3, <2>4
  <2> QED
    BY <1>s, <1>5, <2>5 DEF Succeed, RunStep, Shape
<1>6. ASSUME ListReady PROVE Shape'
  <2>1. /\ driver' \in [at : {"wait", "publish", "record"}, item : Nat, rev : Nat]
        /\ driver'.at # "wait" => driver'.item \in DOMAIN items
    <3>1. CASE \E i \in Open : Ready(i)
      <4>1. PICK i \in Open : driver' = [at |-> "publish", item |-> i, rev |-> items[i].rev]
        BY <1>6, <3>1 DEF ListReady
      <4>2. i \in DOMAIN items /\ i \in Nat /\ items[i].rev \in Nat
        BY <1>s, <1>r, OpenItems
      <4> QED
        BY <4>1, <4>2
    <3> QED
      BY <1>n, <1>6, <3>1 DEF ListReady
  <2> QED
    BY <1>s, <1>6, <2>1 DEF ListReady, DriverStep, Shape
<1>7. ASSUME Publish PROVE Shape'
  <2> DEFINE i == driver.item
  <2>1. CASE i \in DOMAIN items /\ Admit(items[i].no, items[i].text) /\ driver' = Idle
             /\ items' = [items EXCEPT ![i].state = "published"] /\ wake' = TRUE
    <3>1. Replaces(i, PublishedRow(i))
      BY <1>s, <2>1, EditRows DEF Replaces, PublishedRow
    <3>2. items' \in Seq(ItemRow)
      BY <1>s, <3>1, ReplacedRow
    <3> QED
      BY <1>s, <1>n, <1>r, <1>a, <1>7, <2>1, <3>2 DEF Publish, DriverStep, Shape
  <2>2. CASE UNCHANGED <<items, chat, run, wake>> /\ driver' = Idle
    BY <1>s, <1>n, <1>7, <2>2 DEF Publish, DriverStep, Shape
  <2>3. Ready(i) => i \in DOMAIN items
    BY <1>s, OpenItems DEF Ready
  <2> QED
    BY <1>7, <2>1, <2>2, <2>3 DEF Publish
<1>8. ASSUME PublishFails PROVE Shape'
  <2> DEFINE i == driver.item
  <2>1. items' = [items EXCEPT ![i].failed = items[i].text]
        /\ driver' = [driver EXCEPT !.at = "record"] /\ UNCHANGED <<chat, run, wake>>
    BY <1>8 DEF PublishFails
  <2>2. i \in DOMAIN items
    BY <1>s, <1>8 DEF PublishFails
  <2>3. Replaces(i, TriedRow(i))
    BY <1>s, <2>1, <2>2, EditRows DEF Replaces, TriedRow
  <2>4. items' \in Seq(ItemRow) /\ DOMAIN items' = DOMAIN items
    BY <1>s, <2>3, ReplacedRow
  <2>5. /\ driver' \in [at : {"wait", "publish", "record"}, item : Nat, rev : Nat]
        /\ driver'.item = i
    BY <1>s, <2>1
  <2> QED
    BY <1>s, <1>8, <2>1, <2>2, <2>4, <2>5 DEF PublishFails, DriverStep, Shape
<1>9. ASSUME RecordFailure PROVE Shape'
  <2> DEFINE i == driver.item
  <2>1. driver' = Idle /\ UNCHANGED <<chat, run, wake>>
    BY <1>9 DEF RecordFailure
  <2>2. items' \in Seq(ItemRow)
    <3>1. CASE items' = items
      BY <1>s, <3>1
    <3>2. CASE items' = [items EXCEPT ![i].state = "needs_repair"]
      <4>1. i \in DOMAIN items
        BY <1>s, <1>9 DEF RecordFailure
      <4>2. Replaces(i, RepairRow(i))
        BY <1>s, <3>2, <4>1, EditRows DEF Replaces, RepairRow
      <4> QED
        BY <1>s, <4>2, ReplacedRow
    <3> QED
      BY <1>9, <3>1, <3>2 DEF RecordFailure
  <2> QED
    BY <1>s, <1>n, <1>9, <2>1, <2>2 DEF RecordFailure, DriverStep, Shape
<1>10. ASSUME Restart PROVE Shape'
  BY <1>s, <1>n, <1>10 DEF Restart, Shape
<1>11. ASSUME UNCHANGED vars PROVE Shape'
  BY <1>s, <1>11 DEF Shape
<1> HIDE DEF Shape
<1> QED
  BY <1>e, <1>1, <1>2, <1>3, <1>4, <1>5, <1>6, <1>7, <1>8, <1>9, <1>10, <1>11 DEF Next, Driver

-----------------------------------------------------------------------------
(* What a step does to the queue and to the conversation. *)

\* No item is lost, renumbered or brought back by the step, and what waits keeps its text.
Settles ==
    /\ DOMAIN items' = DOMAIN items /\ Open' \subseteq Open
    /\ \A i \in DOMAIN items : items'[i].no = items[i].no /\ items'[i].text = items[i].text

\* The numbers of the queue and of the run stay, and no run becomes active.
SameNumbers ==
    /\ DOMAIN items' = DOMAIN items /\ Open' \subseteq Open
    /\ \A i \in DOMAIN items : items'[i].no = items[i].no
    /\ UNCHANGED sends /\ run'.no = run.no /\ (ActiveRun' => ActiveRun)
    /\ turns' \subseteq turns \/ (ActiveRun /\ turns' \subseteq turns \cup {run.no})

\* The edit commands: one row is replaced, or none.
LEMMA EditEffect ==
  ASSUME Shape, Shape', NEW c \in Client, NEW i \in Open
  PROVE  /\ SaveEdit(c, i) => Replaces(i, SavedRow(i)) /\ written' \in Text
         /\ DeleteItem(c, i) \/ ReturnItem(c, i) => Replaces(i, CancelledRow(i))
         /\ BeginEdit(c, i) \/ CancelEdit(c, i) => UNCHANGED items
<1>1. i \in DOMAIN items /\ items \in Seq(ItemRow)
  BY OpenItems DEF Shape
<1>2. ASSUME SaveEdit(c, i) PROVE Replaces(i, SavedRow(i)) /\ written' \in Text
  <2>1. written' = written + 1 /\ written \in 0 .. MaxTexts /\ written < MaxTexts
    BY <1>2 DEF SaveEdit, Shape
  <2>2. written' \in Text
    BY <2>1, Bounds DEF Text
  <2> QED
    BY <1>1, <1>2, <2>2, EditRows DEF SaveEdit, Replaces
<1>3. ASSUME DeleteItem(c, i) \/ ReturnItem(c, i) PROVE Replaces(i, CancelledRow(i))
  BY <1>1, <1>3, CancelRow DEF DeleteItem, ReturnItem, Replaces
<1>4. ASSUME BeginEdit(c, i) \/ CancelEdit(c, i) PROVE UNCHANGED items
  BY <1>4 DEF BeginEdit, CancelEdit
<1> QED
  BY <1>2, <1>3, <1>4

\* The end of the chat cancels what waits.
LEMMA EndEffect ==
  ASSUME Shape, End
  PROVE  /\ DOMAIN items' = DOMAIN items /\ Open' = {}
         /\ \A i \in DOMAIN items : items'[i] = IF i \in Open THEN CancelledRow(i) ELSE items[i]
<1>1. items \in Seq(ItemRow) /\ Open \subseteq DOMAIN items
  BY OpenItems DEF Shape
<1>2. ASSUME NEW i \in Open PROVE Cancelled(i)[i] = CancelledRow(i) /\ CancelledRow(i).state = "cancelled"
  BY <1>1, CancelRow
<1>3. items' = [i \in DOMAIN items |-> IF i \in Open THEN CancelledRow(i) ELSE items[i]]
  BY <1>2 DEF End
<1>4. \A i \in DOMAIN items : items'[i] = IF i \in Open THEN CancelledRow(i) ELSE items[i]
  BY <1>3
<1>5. Open' = {}
  BY <1>2, <1>3, <1>4 DEF Open
<1> QED
  BY <1>3, <1>4, <1>5

\* The driver publishes the row it listed, or gives it up.
LEMMA PublishEffect ==
  ASSUME Shape, Publish
  PROVE  \/ /\ Ready(driver.item) /\ driver.item \in DOMAIN items /\ Replaces(driver.item, PublishedRow(driver.item))
            /\ Admit(items[driver.item].no, items[driver.item].text)
         \/ UNCHANGED <<items, chat, run>>
<1>1. Ready(driver.item) => driver.item \in DOMAIN items
  BY OpenItems DEF Shape, Ready
<1>2. driver.item \in DOMAIN items /\ items' = [items EXCEPT ![driver.item].state = "published"]
        => Replaces(driver.item, PublishedRow(driver.item))
  BY EditRows DEF Shape, Replaces, PublishedRow
<1> QED
  BY <1>1, <1>2 DEF Publish

\* It tries the text of the row, and marks it when nobody edited it since.
LEMMA FailureEffect ==
  ASSUME Shape
  PROVE  /\ driver.at # "wait" => driver.item \in DOMAIN items
         /\ PublishFails => Replaces(driver.item, TriedRow(driver.item))
         /\ RecordFailure => \/ UNCHANGED items
                             \/ /\ Replaces(driver.item, RepairRow(driver.item))
                                /\ items[driver.item].rev = driver.rev
                                /\ items[driver.item].state = "queued"
<1>1. driver.at # "wait" => driver.item \in DOMAIN items
  BY DEF Shape
<1>2. PublishFails => Replaces(driver.item, TriedRow(driver.item))
  BY <1>1, EditRows DEF Shape, PublishFails, Replaces, TriedRow
<1>3. RecordFailure => \/ UNCHANGED items
                       \/ /\ Replaces(driver.item, RepairRow(driver.item))
                          /\ items[driver.item].rev = driver.rev
                          /\ items[driver.item].state = "queued"
  BY <1>1, EditRows DEF Shape, RecordFailure, Replaces, RepairRow
<1> QED
  BY <1>1, <1>2, <1>3

\* Which replacements settle.
LEMMA SettlingRows ==
  ASSUME Shape, NEW i \in DOMAIN items, NEW row, Replaces(i, row),
         row.no = items[i].no, row.state \in {"queued", "needs_repair"} => i \in Open
  PROVE  /\ DOMAIN items' = DOMAIN items /\ Open' \subseteq Open
         /\ \A j \in DOMAIN items : items'[j].no = items[j].no
         /\ row.text = items[i].text => Settles
         /\ \A j \in DOMAIN items : j # i => items'[j] = items[j]
         /\ items'[i] = row
<1>1. items \in Seq(ItemRow)
  BY DEF Shape
<1> QED
  BY <1>1, ReplacedRow DEF Settles

-----------------------------------------------------------------------------
(* The numbers of the inputs. *)

\* The final output of the last input is written.
Answered ==
    /\ ActiveRun /\ ~ActiveRun' /\ run'.no = run.no /\ turns' \subseteq turns
    /\ chat' = Append(chat, [who |-> "agent", no |-> run.no, text |-> None])
    /\ UNCHANGED <<items, sends>>

\* An edit or the cancellation of what waits keeps the numbers.
LEMMA NumbersKept ==
  ASSUME Shape, Shape', Next
  PROVE  \/ SameNumbers /\ UNCHANGED chat
         \/ \E c \in Client : Send(c)
         \/ Answered
         \/ /\ Publish /\ Ready(driver.item) /\ driver.item \in DOMAIN items
            /\ Replaces(driver.item, PublishedRow(driver.item))
            /\ Admit(items[driver.item].no, items[driver.item].text)
<1>s. /\ items \in Seq(ItemRow) /\ run \in [no : Nat, status : {"queued", "running", "ended"}]
      /\ Open \subseteq DOMAIN items
  BY OpenItems DEF Shape
<1>k. UNCHANGED <<items, sends>> =>
        /\ DOMAIN items' = DOMAIN items /\ Open' \subseteq Open
        /\ \A i \in DOMAIN items : items'[i].no = items[i].no
        /\ UNCHANGED sends
  BY DEF Open
<1>r. ASSUME NEW i \in DOMAIN items, NEW row, Replaces(i, row), row.no = items[i].no,
             row.state \in {"queued", "needs_repair"} => i \in Open,
             UNCHANGED <<chat, run, turns, sends>>
      PROVE  SameNumbers /\ UNCHANGED chat
  BY <1>r, SettlingRows DEF SameNumbers, ActiveRun
<1>e. ASSUME NEW c \in Client, NEW i \in Open,
             \/ BeginEdit(c, i) \/ SaveEdit(c, i) \/ CancelEdit(c, i)
             \/ DeleteItem(c, i) \/ ReturnItem(c, i)
      PROVE  SameNumbers /\ UNCHANGED chat
  <2>1. UNCHANGED <<ended, chat, run, turns, driver, sends>> /\ i \in DOMAIN items
    BY <1>s, <1>e DEF BeginEdit, SaveEdit, CancelEdit, DeleteItem, ReturnItem, EditCommand, Command
  <2>2. CASE SaveEdit(c, i)
    <3>1. Replaces(i, SavedRow(i)) /\ SavedRow(i).no = items[i].no
      BY <1>s, <2>1, <2>2, EditEffect, EditRows
    <3> QED
      BY <1>r, <2>1, <3>1
  <2>3. CASE DeleteItem(c, i) \/ ReturnItem(c, i)
    <3>1. /\ Replaces(i, CancelledRow(i)) /\ CancelledRow(i).no = items[i].no
          /\ CancelledRow(i).state = "cancelled"
      BY <1>s, <2>1, <2>3, EditEffect, CancelRow
    <3> QED
      BY <1>r, <2>1, <3>1
  <2>4. CASE BeginEdit(c, i) \/ CancelEdit(c, i)
    <3>1. UNCHANGED items
      BY <2>4, EditEffect
    <3> QED
      BY <1>k, <2>1, <3>1 DEF SameNumbers, ActiveRun
  <2> QED
    BY <1>e, <2>2, <2>3, <2>4
<1>1. ASSUME NEW c \in Client, Compose(c) PROVE SameNumbers /\ UNCHANGED chat
  BY <1>k, <1>1 DEF Compose, SameNumbers, ActiveRun
<1>2. ASSUME End PROVE SameNumbers /\ UNCHANGED chat
  <2>1. UNCHANGED <<chat, turns, sends>> /\ run' = [run EXCEPT !.status = "ended"]
    BY <1>2 DEF End, Command
  <2>2. /\ DOMAIN items' = DOMAIN items /\ Open' \subseteq Open
        /\ \A i \in DOMAIN items : items'[i].no = items[i].no
    BY <1>s, <1>2, EndEffect, CancelRow
  <2>3. run'.no = run.no /\ ~ActiveRun'
    BY <1>s, <2>1 DEF ActiveRun
  <2> QED
    BY <2>1, <2>2, <2>3 DEF SameNumbers
<1>3. ASSUME StartRun PROVE SameNumbers /\ UNCHANGED chat
  <2>1. /\ UNCHANGED <<items, sends, chat>> /\ run'.no = run.no /\ ActiveRun
        /\ turns' \subseteq turns \cup {run.no}
    BY <1>s, <1>3 DEF StartRun, RunStep, ActiveRun
  <2> QED
    BY <1>k, <2>1 DEF SameNumbers
<1>4. ASSUME StopRun PROVE SameNumbers /\ UNCHANGED chat
  <2>1. UNCHANGED <<items, sends, chat, turns>> /\ run'.no = run.no /\ ActiveRun
    BY <1>s, <1>4 DEF StopRun, RunStep, ActiveRun
  <2> QED
    BY <1>k, <2>1 DEF SameNumbers
<1>5. ASSUME NEW no \in turns, NEW output \in BOOLEAN, Succeed(no, output)
      PROVE  (SameNumbers /\ UNCHANGED chat) \/ Answered
  <2>1. UNCHANGED <<items, sends>> /\ turns' \subseteq turns
    BY <1>5 DEF Succeed, RunStep
  <2>2. CASE run = [no |-> no, status |-> "running"] /\ ~ended
    <3>1. /\ ActiveRun /\ ~ActiveRun' /\ run'.no = run.no /\ run.no = no
      BY <1>s, <1>5, <2>2 DEF Succeed, ActiveRun
    <3>2. chat' = chat \/ chat' = Append(chat, [who |-> "agent", no |-> run.no, text |-> None])
      BY <1>5, <2>2, <3>1 DEF Succeed
    <3> QED
      BY <1>k, <2>1, <3>1, <3>2 DEF SameNumbers, Answered
  <2>3. CASE UNCHANGED <<chat, run>>
    BY <1>k, <2>1, <2>3 DEF SameNumbers, ActiveRun
  <2> QED
    BY <1>5, <2>2, <2>3 DEF Succeed
<1>6. ASSUME ListReady PROVE SameNumbers /\ UNCHANGED chat
  BY <1>k, <1>6 DEF ListReady, DriverStep, SameNumbers, ActiveRun
<1>7. ASSUME Publish
      PROVE  \/ SameNumbers /\ UNCHANGED chat
             \/ /\ Ready(driver.item) /\ driver.item \in DOMAIN items
                /\ Replaces(driver.item, PublishedRow(driver.item))
                /\ Admit(items[driver.item].no, items[driver.item].text)
  <2>1. UNCHANGED <<turns, sends>>
    BY <1>7 DEF Publish, DriverStep
  <2> QED
    BY <1>k, <1>7, <2>1, PublishEffect DEF SameNumbers, ActiveRun
<1>8. ASSUME PublishFails PROVE SameNumbers /\ UNCHANGED chat
  <2>1. UNCHANGED <<chat, run, turns, sends>>
    BY <1>8 DEF PublishFails, DriverStep
  <2>2. driver.item \in DOMAIN items /\ Replaces(driver.item, TriedRow(driver.item))
    BY <1>8, FailureEffect DEF PublishFails
  <2>3. /\ TriedRow(driver.item).no = items[driver.item].no
        /\ TriedRow(driver.item).state = items[driver.item].state
    BY <1>s, <2>2, EditRows
  <2>4. TriedRow(driver.item).state \in {"queued", "needs_repair"} => driver.item \in Open
    BY <2>2, <2>3 DEF Open
  <2> QED
    BY <1>r, <2>1, <2>2, <2>3, <2>4
<1>9. ASSUME RecordFailure PROVE SameNumbers /\ UNCHANGED chat
  <2>1. UNCHANGED <<chat, run, turns, sends>>
    BY <1>9 DEF RecordFailure, DriverStep
  <2>2. CASE UNCHANGED items
    BY <1>k, <2>1, <2>2 DEF SameNumbers, ActiveRun
  <2>3. CASE Replaces(driver.item, RepairRow(driver.item)) /\ items[driver.item].state = "queued"
    <3>1. driver.item \in DOMAIN items /\ driver.item \in Open
      BY <2>3 DEF Replaces, Open
    <3>2. RepairRow(driver.item).no = items[driver.item].no
      BY <1>s, <3>1, EditRows
    <3> QED
      BY <1>r, <2>1, <2>3, <3>1, <3>2
  <2> QED
    BY <1>9, <2>2, <2>3, FailureEffect
<1>10. ASSUME Restart PROVE SameNumbers /\ UNCHANGED chat
  <2>1. UNCHANGED <<items, sends, chat>> /\ turns' = {} /\ run'.no = run.no /\ ~ActiveRun'
    BY <1>s, <1>10 DEF Restart, ActiveRun
  <2> QED
    BY <1>k, <2>1 DEF SameNumbers
<1> HIDE DEF Shape
<1> QED
  BY <1>e, <1>1, <1>2, <1>3, <1>4, <1>5, <1>6, <1>7, <1>8, <1>9, <1>10 DEF Next, Driver

\* A sequence after one more element.
LEMMA Appended ==
  ASSUME NEW S, NEW s \in Seq(S), NEW e \in S
  PROVE  /\ Append(s, e) \in Seq(S) /\ Len(s) \in Nat /\ DOMAIN s = 1 .. Len(s)
         /\ Len(Append(s, e)) = Len(s) + 1 /\ DOMAIN Append(s, e) = 1 .. (Len(s) + 1)
         /\ Append(s, e)[Len(s) + 1] = e /\ Len(s) + 1 \notin DOMAIN s
         /\ \A k \in DOMAIN s : Append(s, e)[k] = s[k]
         /\ \A k \in DOMAIN Append(s, e) : k \in DOMAIN s \/ k = Len(s) + 1
OBVIOUS

\* The conversation after one more entry.
LEMMA AppendedEntry ==
  ASSUME chat \in Seq(ChatRow), NEW row \in ChatRow, chat' = Append(chat, row)
  PROVE  /\ chat' \in Seq(ChatRow) /\ Len(chat) \in Nat /\ DOMAIN chat = 1 .. Len(chat)
         /\ Len(chat') = Len(chat) + 1 /\ DOMAIN chat' = 1 .. (Len(chat) + 1)
         /\ chat'[Len(chat) + 1] = row
         /\ \A k \in DOMAIN chat : chat'[k] = chat[k]
         /\ \A k \in DOMAIN chat : chat[k] \in ChatRow
OBVIOUS

\* An entry keeps the order when an input is newer than what the chat holds, or when it
\* answers the last input.
LEMMA OrderedEntry ==
  ASSUME chat \in Seq(ChatRow), InOrder, NEW row \in ChatRow, chat' = Append(chat, row),
         \/ /\ row.who = "user" /\ \A k \in DOMAIN chat : chat[k].no < row.no
         \/ /\ row.who = "agent" /\ chat # <<>>
            /\ chat[Len(chat)].who = "user" /\ chat[Len(chat)].no = row.no
  PROVE  InOrder'
<1> DEFINE n == Len(chat)
<1>1. /\ n \in Nat /\ Len(chat') = n + 1 /\ chat'[n + 1] = row
      /\ DOMAIN chat = 1 .. n /\ \A k \in DOMAIN chat : chat'[k] = chat[k]
  BY AppendedEntry
<1>2. ASSUME NEW k \in 2 .. n + 1
      PROVE  IF chat'[k].who = "agent"
             THEN chat'[k - 1].who = "user" /\ chat'[k - 1].no = chat'[k].no
             ELSE chat'[k - 1].no < chat'[k].no
  <2>1. CASE k \in 2 .. n
    <3>1. k \in DOMAIN chat /\ k - 1 \in DOMAIN chat
      BY <1>1, <2>1
    <3>2. chat'[k] = chat[k] /\ chat'[k - 1] = chat[k - 1]
      BY <1>1, <3>1
    <3> QED
      BY <2>1, <3>2 DEF InOrder
  <2>2. CASE k = n + 1
    <3>1. n \in DOMAIN chat /\ k - 1 = n
      BY <1>1, <1>2, <2>2
    <3>2. chat'[k] = row /\ chat'[k - 1] = chat[n]
      BY <1>1, <2>2, <3>1
    <3>3. CASE row.who = "user" /\ \A l \in DOMAIN chat : chat[l].no < row.no
      <4>1. chat[n].no < row.no
        BY <3>1, <3>3
      <4> QED
        BY <3>2, <3>3, <4>1
    <3>4. CASE row.who = "agent" /\ chat[n].who = "user" /\ chat[n].no = row.no
      BY <3>2, <3>4
    <3> QED
      BY <3>3, <3>4
  <2> QED
    BY <1>1, <1>2, <2>1, <2>2
<1> QED
  BY <1>1, <1>2 DEF InOrder

\* An admitted input is the newest entry of the chat, and its run the active one.
LEMMA AdmittedEntry ==
  ASSUME Shape, Numbered, InOrder, sends' \in Nat, sends <= sends', turns' = turns,
         NEW no \in 1 .. sends', NEW text \in Text, Admit(no, text),
         \A k \in DOMAIN chat : chat[k].no < no
  PROVE  /\ InOrder'
         /\ \A k \in DOMAIN chat' : chat'[k].no \in 1 .. sends' /\ chat'[k].no <= no
         /\ run'.no \in 0 .. sends' /\ turns' \subseteq 1 .. sends'
         /\ chat' # <<>> /\ chat'[Len(chat')].who = "user" /\ chat'[Len(chat')].no = run'.no
<1> DEFINE row == [who |-> "user", no |-> no, text |-> text]
<1>1. /\ row \in ChatRow /\ row.who = "user" /\ row.no = no
      /\ chat' = Append(chat, row) /\ run'.no = no
  BY DEF Admit, ChatRow
<1>2. chat \in Seq(ChatRow) /\ sends \in Nat
  BY DEF Shape
<1> HIDE DEF row
<1>3. /\ Len(chat) \in Nat /\ DOMAIN chat = 1 .. Len(chat)
      /\ Len(chat') = Len(chat) + 1 /\ DOMAIN chat' = 1 .. (Len(chat) + 1)
      /\ chat'[Len(chat) + 1] = row /\ \A k \in DOMAIN chat : chat'[k] = chat[k]
  BY <1>1, <1>2, AppendedEntry
<1>4. InOrder'
  BY <1>1, <1>2, OrderedEntry
<1>5. \A k \in DOMAIN chat' : chat'[k].no \in 1 .. sends' /\ chat'[k].no <= no
  <2>1. ASSUME NEW k \in DOMAIN chat PROVE chat[k].no \in 1 .. sends' /\ chat[k].no <= no
    BY <1>2, <2>1 DEF Numbered
  <2> QED
    BY <1>1, <1>3, <2>1
<1>6. turns' \subseteq 1 .. sends'
  BY <1>2 DEF Numbered
<1>7. chat' # <<>>
  BY <1>3
<1> QED
  BY <1>1, <1>3, <1>4, <1>5, <1>6, <1>7

\* Every step keeps the numbers of the messages and their order.
LEMMA NumberedStep ==
  Shape /\ Shape' /\ Numbered /\ InOrder /\ [Next]_vars => Numbered' /\ InOrder'
<1> SUFFICES ASSUME Shape, Shape', Numbered, InOrder, [Next]_vars PROVE Numbered' /\ InOrder'
  OBVIOUS
<1>s. /\ items \in Seq(ItemRow) /\ chat \in Seq(ChatRow) /\ sends \in Nat
      /\ items' \in Seq(ItemRow) /\ chat' \in Seq(ChatRow) /\ sends' \in Nat
      /\ run \in [no : Nat, status : {"queued", "running", "ended"}]
      /\ Open \subseteq DOMAIN items /\ DOMAIN items = 1 .. Len(items) /\ Len(items) \in Nat
      /\ \A i \in DOMAIN items : items[i] \in ItemRow
  BY OpenItems DEF Shape
<1>n. /\ \A i \in DOMAIN items : items[i].no \in 1 .. sends
      /\ \A i, j \in DOMAIN items : i < j => items[i].no < items[j].no
      /\ \A k \in DOMAIN chat : chat[k].no \in 1 .. sends
      /\ \A k \in DOMAIN chat, i \in Open : chat[k].no < items[i].no
      /\ run.no \in 0 .. sends /\ turns \subseteq 1 .. sends
      /\ ActiveRun => chat # <<>> /\ chat[Len(chat)].who = "user" /\ chat[Len(chat)].no = run.no
  BY DEF Numbered
<1>m. sends' = sends + 1 =>
        /\ sends' \in 1 .. sends' /\ 0 .. sends \subseteq 0 .. sends' /\ 1 .. sends \subseteq 1 .. sends'
        /\ \A no \in 1 .. sends : no < sends'
  BY <1>s
<1>l. chat # <<>> => Len(chat) \in DOMAIN chat
  BY <1>s
<1>1. ASSUME SameNumbers, UNCHANGED chat PROVE Numbered' /\ InOrder'
  <2>1. /\ \A i \in DOMAIN items' : items'[i].no \in 1 .. sends'
        /\ \A i, j \in DOMAIN items' : i < j => items'[i].no < items'[j].no
    BY <1>n, <1>1 DEF SameNumbers
  <2>2. \A k \in DOMAIN chat', i \in Open' : chat'[k].no < items'[i].no
    BY <1>s, <1>n, <1>1 DEF SameNumbers
  <2>3. turns' \subseteq 1 .. sends'
    <3>1. ActiveRun => run.no \in 1 .. sends
      BY <1>n, <1>l
    <3> QED
      BY <1>n, <1>1, <3>1 DEF SameNumbers
  <2>4. /\ \A k \in DOMAIN chat' : chat'[k].no \in 1 .. sends'
        /\ run'.no \in 0 .. sends'
        /\ ActiveRun' => /\ chat' # <<>> /\ chat'[Len(chat')].who = "user"
                         /\ chat'[Len(chat')].no = run'.no
    BY <1>n, <1>1 DEF SameNumbers
  <2>5. InOrder'
    BY <1>1 DEF InOrder
  <2> QED
    BY <2>1, <2>2, <2>3, <2>4, <2>5 DEF Numbered
<1>2. ASSUME NEW c \in Client, Send(c) PROVE Numbered' /\ InOrder'
  <2>1. sends' = sends + 1 /\ turns' = turns /\ draft[c] \in Text
    BY <1>2 DEF Send, Command, Shape
  <2>2. CASE Busy
    <3> DEFINE row == [no |-> sends', rev |-> 1, state |-> "queued", text |-> draft[c], failed |-> None]
    <3>1. items' = Append(items, row) /\ UNCHANGED <<chat, run>> /\ row.no = sends'
      BY <1>2, <2>2 DEF Send
    <3>2. row \in ItemRow
      BY <1>s, <2>1 DEF ItemRow, ItemState
    <3> HIDE DEF row
    <3>3. /\ DOMAIN items' = 1 .. (Len(items) + 1) /\ items'[Len(items) + 1] = row
          /\ \A i \in DOMAIN items : items'[i] = items[i]
          /\ \A i \in DOMAIN items' : i \in DOMAIN items \/ i = Len(items) + 1
      <4>1. /\ DOMAIN Append(items, row) = 1 .. (Len(items) + 1)
            /\ Append(items, row)[Len(items) + 1] = row
            /\ \A i \in DOMAIN items : Append(items, row)[i] = items[i]
            /\ \A i \in DOMAIN Append(items, row) : i \in DOMAIN items \/ i = Len(items) + 1
        BY <1>s, <3>2, Appended
      <4> QED
        BY <3>1, <4>1
    <3>4. Open' \subseteq Open \cup {Len(items) + 1}
      BY <1>s, <3>3 DEF Open
    <3>5. \A i \in DOMAIN items' : items'[i].no \in 1 .. sends'
      BY <1>n, <1>m, <2>1, <3>1, <3>3
    <3>6. ASSUME NEW i \in DOMAIN items', NEW j \in DOMAIN items', i < j
          PROVE  items'[i].no < items'[j].no
      <4>1. i \in DOMAIN items /\ (j \in DOMAIN items \/ j = Len(items) + 1)
        BY <1>s, <3>3, <3>6
      <4>2. CASE j \in DOMAIN items
        BY <1>n, <3>3, <3>6, <4>1, <4>2
      <4>3. CASE j = Len(items) + 1
        BY <1>n, <1>m, <2>1, <3>1, <3>3, <4>1, <4>3
      <4> QED
        BY <4>1, <4>2, <4>3
    <3>7. ASSUME NEW k \in DOMAIN chat', NEW i \in Open' PROVE chat'[k].no < items'[i].no
      <4>1. CASE i \in Open
        BY <1>s, <1>n, <3>1, <3>3, <3>7, <4>1
      <4>2. CASE i = Len(items) + 1
        BY <1>n, <1>m, <2>1, <3>1, <3>3, <3>7, <4>2
      <4> QED
        BY <3>4, <3>7, <4>1, <4>2
    <3>8. /\ \A k \in DOMAIN chat' : chat'[k].no \in 1 .. sends'
          /\ run'.no \in 0 .. sends' /\ turns' \subseteq 1 .. sends'
      BY <1>n, <1>m, <2>1, <3>1
    <3>9. /\ InOrder'
          /\ ActiveRun' => /\ chat' # <<>> /\ chat'[Len(chat')].who = "user"
                           /\ chat'[Len(chat')].no = run'.no
      BY <1>n, <3>1 DEF InOrder, ActiveRun
    <3> QED
      BY <3>5, <3>6, <3>7, <3>8, <3>9 DEF Numbered
  <2>3. CASE ~Busy
    <3>1. Admit(sends', draft[c]) /\ UNCHANGED items /\ Open = {}
      BY <1>2, <2>3 DEF Send, Busy
    <3>2. \A k \in DOMAIN chat : chat[k].no < sends'
      BY <1>s, <1>n, <2>1
    <3>3. sends' \in 1 .. sends' /\ sends <= sends'
      BY <1>s, <2>1
    <3>4. /\ InOrder'
          /\ \A k \in DOMAIN chat' : chat'[k].no \in 1 .. sends'
          /\ run'.no \in 0 .. sends' /\ turns' \subseteq 1 .. sends'
          /\ chat' # <<>> /\ chat'[Len(chat')].who = "user" /\ chat'[Len(chat')].no = run'.no
      BY <1>s, <2>1, <3>1, <3>2, <3>3, AdmittedEntry
    <3>5. Open' = {}
      BY <3>1 DEF Open
    <3>6. /\ \A i \in DOMAIN items' : items'[i].no \in 1 .. sends'
          /\ \A i, j \in DOMAIN items' : i < j => items'[i].no < items'[j].no
      BY <1>s, <1>n, <2>1, <3>1
    <3> QED
      BY <3>4, <3>5, <3>6 DEF Numbered
  <2> QED
    BY <2>2, <2>3
<1>3. ASSUME Answered PROVE Numbered' /\ InOrder'
  <2> DEFINE row == [who |-> "agent", no |-> run.no, text |-> None]
  <2>1. /\ chat' = Append(chat, row) /\ UNCHANGED <<items, sends>> /\ run'.no = run.no
        /\ turns' \subseteq turns /\ ActiveRun /\ ~ActiveRun'
    BY <1>3 DEF Answered
  <2>2. row \in ChatRow /\ row.who = "agent" /\ row.no = run.no
    BY <1>s DEF ChatRow
  <2> HIDE DEF row
  <2>3. InOrder'
    BY <1>s, <1>n, <2>1, <2>2, OrderedEntry
  <2>4. /\ DOMAIN chat = 1 .. Len(chat) /\ Len(chat) \in Nat
        /\ DOMAIN chat' = 1 .. (Len(chat) + 1) /\ chat'[Len(chat) + 1] = row
        /\ \A k \in DOMAIN chat : chat'[k] = chat[k]
    BY <1>s, <2>1, <2>2, AppendedEntry
  <2>5. Len(chat) \in DOMAIN chat /\ chat[Len(chat)].no = run.no
    BY <1>n, <1>l, <2>1
  <2>6. ASSUME NEW k \in DOMAIN chat' PROVE \E l \in DOMAIN chat : chat'[k].no = chat[l].no
    <3>1. CASE k \in DOMAIN chat
      BY <2>4, <3>1
    <3>2. CASE k = Len(chat) + 1
      BY <2>2, <2>4, <2>5, <3>2
    <3> QED
      BY <2>4, <2>6, <3>1, <3>2
  <2>7. Open' = Open
    BY <2>1 DEF Open
  <2>8. /\ \A k \in DOMAIN chat' : chat'[k].no \in 1 .. sends'
        /\ \A k \in DOMAIN chat', i \in Open' : chat'[k].no < items'[i].no
    BY <1>n, <2>1, <2>6, <2>7
  <2>9. /\ \A i \in DOMAIN items' : items'[i].no \in 1 .. sends'
        /\ \A i, j \in DOMAIN items' : i < j => items'[i].no < items'[j].no
        /\ run'.no \in 0 .. sends' /\ turns' \subseteq 1 .. sends'
    BY <1>n, <2>1
  <2> QED
    BY <2>1, <2>3, <2>8, <2>9 DEF Numbered
<1>4. ASSUME Publish, Ready(driver.item), driver.item \in DOMAIN items,
             Replaces(driver.item, PublishedRow(driver.item)),
             Admit(items[driver.item].no, items[driver.item].text)
      PROVE  Numbered' /\ InOrder'
  <2> DEFINE h == driver.item
  <2>1. /\ h \in Open /\ \A j \in Open : h <= j
        /\ UNCHANGED <<turns, sends>>
    BY <1>4 DEF Ready, HeadItem, IsHead, Publish, DriverStep
  <2>2. /\ PublishedRow(h).no = items[h].no /\ PublishedRow(h).state = "published"
    BY <1>s, <1>4, EditRows
  <2>3. /\ DOMAIN items' = DOMAIN items /\ items'[h] = PublishedRow(h)
        /\ \A j \in DOMAIN items : j # h => items'[j] = items[j]
        /\ Open' = Open \ {h}
    BY <1>s, <1>4, <2>2, ReplacedRow
  <2>4. \A j \in DOMAIN items : items'[j].no = items[j].no
    BY <2>2, <2>3
  <2>5. /\ items[h].no \in 1 .. sends' /\ items[h].text \in Text
        /\ \A k \in DOMAIN chat : chat[k].no < items[h].no
    BY <1>s, <1>n, <2>1 DEF ItemRow
  <2>6. /\ InOrder'
        /\ \A k \in DOMAIN chat' : chat'[k].no \in 1 .. sends' /\ chat'[k].no <= items[h].no
        /\ run'.no \in 0 .. sends' /\ turns' \subseteq 1 .. sends'
        /\ chat' # <<>> /\ chat'[Len(chat')].who = "user" /\ chat'[Len(chat')].no = run'.no
    <3>1. sends' \in Nat /\ sends <= sends' /\ turns' = turns
      BY <1>s, <2>1
    <3> QED
      BY <1>4, <2>5, <3>1, AdmittedEntry
  <2>7. ASSUME NEW k \in DOMAIN chat', NEW j \in Open' PROVE chat'[k].no < items'[j].no
    <3>1. j \in Open /\ j # h /\ h < j /\ j \in DOMAIN items /\ h \in DOMAIN items
      BY <1>s, <2>1, <2>3
    <3>2. items[h].no < items[j].no /\ items'[j].no = items[j].no
      BY <1>n, <2>4, <3>1
    <3>3. items[h].no \in Nat /\ items[j].no \in Nat /\ chat'[k].no \in Nat
      BY SMTT(30), <1>s, <1>n, <2>6, <3>1
    <3> QED
      BY <2>6, <3>2, <3>3
  <2>8. /\ \A i \in DOMAIN items' : items'[i].no \in 1 .. sends'
        /\ \A i, j \in DOMAIN items' : i < j => items'[i].no < items'[j].no
    BY <1>n, <2>1, <2>3, <2>4
  <2> QED
    BY <2>6, <2>7, <2>8 DEF Numbered
<1>5. ASSUME UNCHANGED vars PROVE Numbered' /\ InOrder'
  BY <1>5 DEF Numbered, InOrder, Open, ActiveRun
<1> HIDE DEF Shape, Numbered, InOrder
<1> QED
  BY <1>1, <1>2, <1>3, <1>4, <1>5, NumbersKept

-----------------------------------------------------------------------------
(* The places of the texts. *)

\* A step puts a text, or nothing, in one place and leaves what the others hold, or takes it.
Moves(c, i, k, t) ==
    /\ written <= written' /\ (t # None => t <= written')
    /\ \A d \in Client :
          draft'[d] = None \/ IF d = c THEN draft'[d] = t ELSE draft'[d] = draft[d] /\ draft[d] # t
    /\ \A j \in Open' :
          IF j = i THEN items'[j].text = t
          ELSE j \in Open /\ items'[j].text = items[j].text /\ items[j].text # t
    /\ \A l \in DOMAIN chat' :
          \/ chat'[l].text = None
          \/ IF l = k THEN chat'[l].text = t
             ELSE l \in DOMAIN chat /\ chat'[l].text = chat[l].text /\ chat[l].text # t
    /\ c \in Client => i \notin Open' /\ k \notin DOMAIN chat'
    /\ i \in Open' => k \notin DOMAIN chat'

\* What the places hold.
LEMMA HeldTexts ==
  ASSUME Shape
  PROVE  /\ \A c \in Client : draft[c] \in Text \cup {None}
         /\ \A i \in Open : i \in DOMAIN items /\ items[i].text \in Text
         /\ \A k \in DOMAIN chat : chat[k].text \in Text \cup {None} /\ chat[k].no \in Nat
         /\ written \in Nat /\ Text \subseteq Nat /\ None \notin Text /\ None \notin Client
         /\ 0 \notin Open /\ 0 \notin DOMAIN chat
<1>1. /\ items \in Seq(ItemRow) /\ chat \in Seq(ChatRow) /\ written \in 0 .. MaxTexts
      /\ draft \in [Client -> Text \cup {None}]
  BY DEF Shape
<1>2. \A k \in DOMAIN chat : chat[k] \in ChatRow /\ k # 0
  BY <1>1
<1>3. /\ Open \subseteq DOMAIN items /\ 0 \notin DOMAIN items
      /\ \A i \in DOMAIN items : items[i] \in ItemRow
  BY <1>1, OpenItems
<1>4. \A i \in Open : i \in DOMAIN items /\ items[i].text \in Text
  BY <1>3 DEF ItemRow
<1>5. \A k \in DOMAIN chat : chat[k].text \in Text \cup {None} /\ chat[k].no \in Nat
  BY <1>2 DEF ChatRow
<1>6. written \in Nat /\ Text \subseteq Nat /\ None \notin Text /\ None \notin Client
  BY <1>1, Bounds
<1> QED
  BY <1>1, <1>2, <1>3, <1>4, <1>5, <1>6

\* The rows of a queue, and the entries of a chat, count from one.
LEMMA RowsOf ==
  /\ \A q \in Seq(ItemRow) : 0 \notin DOMAIN q /\ \A i \in DOMAIN q : q[i].text \in Text
  /\ \A q \in Seq(ChatRow) : 0 \notin DOMAIN q
<1>1. ASSUME NEW q \in Seq(ItemRow) PROVE 0 \notin DOMAIN q /\ \A i \in DOMAIN q : q[i] \in ItemRow
  OBVIOUS
<1>2. ASSUME NEW q \in Seq(ChatRow) PROVE 0 \notin DOMAIN q
  OBVIOUS
<1> QED
  BY <1>1, <1>2 DEF ItemRow

\* A text that moves so is still in one place.
LEMMA MovedApart ==
  ASSUME Shape, Shape', Written, Apart, NEW t \in Text \cup {None},
         NEW c \in Client \cup {None}, NEW i \in Nat, NEW k \in Nat, Moves(c, i, k, t)
  PROVE  Written' /\ Apart'
<1>h. /\ \A d \in Client : draft[d] \in Text \cup {None}
      /\ \A j \in Open : items[j].text \in Text
      /\ \A l \in DOMAIN chat : chat[l].text \in Text \cup {None}
      /\ written \in Nat /\ Text \subseteq Nat /\ None \notin Text
  BY HeldTexts
<1>w. written' \in Nat /\ written <= written' /\ (t # None => t <= written')
  BY Bounds DEF Shape, Moves
<1>b. ASSUME NEW held \in Text, held <= written PROVE held <= written'
  BY <1>h, <1>w, <1>b
<1>d. ASSUME NEW d \in Client, draft'[d] # None
      PROVE  IF d = c THEN draft'[d] = t ELSE draft'[d] = draft[d] /\ draft[d] # t
  BY <1>d DEF Moves
<1>i. ASSUME NEW j \in Open'
      PROVE  IF j = i THEN items'[j].text = t
             ELSE j \in Open /\ items'[j].text = items[j].text /\ items[j].text # t
  BY <1>i DEF Moves
<1>k. ASSUME NEW l \in DOMAIN chat', chat'[l].text # None
      PROVE  IF l = k THEN chat'[l].text = t
             ELSE l \in DOMAIN chat /\ chat'[l].text = chat[l].text /\ chat[l].text # t
  BY <1>k DEF Moves
<1>o. /\ c \in Client => i \notin Open' /\ k \notin DOMAIN chat'
      /\ i \in Open' => k \notin DOMAIN chat'
  BY DEF Moves
<1>t. \A j \in Open' : items'[j].text # None
  <2>1. \A j \in Open' : items'[j].text \in Text
    BY RowsOf DEF Shape, Open
  <2> QED
    BY <1>h, <2>1
<1>1. Written'
  <2>1. ASSUME NEW d \in Client, draft'[d] # None PROVE draft'[d] <= written'
    BY <1>h, <1>w, <1>b, <1>d, <2>1 DEF Written
  <2>2. ASSUME NEW j \in Open' PROVE items'[j].text <= written'
    BY <1>h, <1>w, <1>b, <1>i, <1>t, <2>2 DEF Written
  <2>3. ASSUME NEW l \in DOMAIN chat', chat'[l].text # None PROVE chat'[l].text <= written'
    BY <1>h, <1>w, <1>b, <1>k, <2>3 DEF Written
  <2> QED
    BY <2>1, <2>2, <2>3 DEF Written
<1>a. /\ \A d, e \in Client : draft[d] = draft[e] /\ draft[d] # None => d = e
      /\ \A j, l \in Open : items[j].text = items[l].text => j = l
      /\ \A j, l \in DOMAIN chat : chat[j].text = chat[l].text /\ chat[j].text # None => j = l
      /\ \A d \in Client, j \in Open : draft[d] # items[j].text
      /\ \A d \in Client, l \in DOMAIN chat : draft[d] = chat[l].text => draft[d] = None
      /\ \A j \in Open, l \in DOMAIN chat : items[j].text # chat[l].text
  BY DEF Apart
<1>2. ASSUME NEW d \in Client, NEW e \in Client, draft'[d] = draft'[e], draft'[d] # None
      PROVE  d = e
  BY <1>a, <1>d, <1>2
<1>3. ASSUME NEW j \in Open', NEW l \in Open', items'[j].text = items'[l].text PROVE j = l
  BY <1>a, <1>i, <1>3
<1>4. ASSUME NEW j \in DOMAIN chat', NEW l \in DOMAIN chat', chat'[j].text = chat'[l].text,
             chat'[j].text # None
      PROVE  j = l
  BY <1>a, <1>k, <1>4
<1>5. ASSUME NEW d \in Client, NEW j \in Open' PROVE draft'[d] # items'[j].text
  BY <1>a, <1>d, <1>i, <1>o, <1>t, <1>5
<1>6. ASSUME NEW d \in Client, NEW l \in DOMAIN chat', draft'[d] = chat'[l].text
      PROVE  draft'[d] = None
  BY <1>a, <1>d, <1>k, <1>o, <1>6
<1>7. ASSUME NEW j \in Open', NEW l \in DOMAIN chat' PROVE items'[j].text # chat'[l].text
  BY <1>a, <1>i, <1>k, <1>o, <1>t, <1>7
<1>8. Apart'
  BY <1>2, <1>3, <1>4, <1>5, <1>6, <1>7 DEF Apart
<1> QED
  BY <1>1, <1>8

\* No place holds the text that is written next.
LEMMA FreshText ==
  ASSUME Shape, Written, NEW t \in Text, t = written + 1
  PROVE  /\ \A c \in Client : draft[c] # t
         /\ \A i \in Open : items[i].text # t
         /\ \A k \in DOMAIN chat : chat[k].text # t
<1>1. /\ written \in Nat /\ None \notin Text /\ t \in Nat
      /\ \A i \in Open : items[i].text \in Text /\ items[i].text \in Nat
  BY HeldTexts
<1>2. t # None /\ ~(t <= written)
  BY <1>1
<1> QED
  BY <1>1, <1>2 DEF Written

\* Nothing moves, but a composer may be emptied, an item leave the queue and a final
\* output, which is no text of the user, be written.
LEMMA StillPlaces ==
  ASSUME Shape, Shape', Written, Apart, written' = written,
         \A c \in Client : draft'[c] = draft[c] \/ draft'[c] = None, Settles,
         chat' = chat \/ Answered
  PROVE  Written' /\ Apart'
<1>h. /\ \A j \in Open : j \in DOMAIN items /\ items[j].text \in Text
      /\ \A c \in Client : draft[c] \in Text \cup {None}
      /\ written \in Nat /\ None \notin Text /\ None \notin Client
  BY HeldTexts
<1>0. 0 \notin Open' /\ 0 \notin DOMAIN chat'
  BY RowsOf DEF Shape, Open
<1>1. \A l \in DOMAIN chat' : \/ chat'[l].text = None
                              \/ l \in DOMAIN chat /\ chat'[l].text = chat[l].text
  <2>1. CASE chat' = chat
    BY <2>1
  <2>2. CASE Answered
    <3> DEFINE row == [who |-> "agent", no |-> run.no, text |-> None]
    <3>1. chat' = Append(chat, row) /\ row.text = None /\ row \in ChatRow /\ chat \in Seq(ChatRow)
      BY <2>2 DEF Answered, Shape, ChatRow
    <3> HIDE DEF row
    <3>2. /\ \A l \in DOMAIN Append(chat, row) : l \in DOMAIN chat \/ l = Len(chat) + 1
          /\ Append(chat, row)[Len(chat) + 1] = row
          /\ \A l \in DOMAIN chat : Append(chat, row)[l] = chat[l]
      BY <3>1, Appended
    <3>3. ASSUME NEW l \in DOMAIN chat', l \in DOMAIN chat PROVE chat'[l].text = chat[l].text
      BY <3>1, <3>2, <3>3
    <3>4. chat'[Len(chat) + 1].text = None
      BY <3>1, <3>2
    <3>5. \A l \in DOMAIN chat' : l \in DOMAIN chat \/ l = Len(chat) + 1
      BY <3>1, <3>2
    <3>6. ASSUME NEW l \in DOMAIN chat', l \notin DOMAIN chat PROVE chat'[l].text = None
      BY <3>4, <3>5, <3>6
    <3> QED
      BY <3>3, <3>6
  <2> QED
    BY <2>1, <2>2
<1>2. \A d \in Client : draft'[d] = None \/ (draft'[d] = draft[d] /\ draft[d] # None)
  BY <1>h
<1>3. \A j \in Open' : j # 0 /\ j \in Open /\ items'[j].text = items[j].text /\ items[j].text # None
  BY <1>h, <1>0 DEF Settles
<1>4. Moves(None, 0, 0, None)
  BY <1>h, <1>0, <1>1, <1>2, <1>3 DEF Moves
<1> QED
  BY <1>4, MovedApart

\* Every step keeps each text in one place: a draft, an item or the chat.
LEMMA PlacesStep ==
  Shape /\ Shape' /\ Written /\ Apart /\ [Next]_vars => Written' /\ Apart'
<1> SUFFICES ASSUME Shape, Shape', Written, Apart, [Next]_vars PROVE Written' /\ Apart'
  OBVIOUS
<1>s. /\ items \in Seq(ItemRow) /\ chat \in Seq(ChatRow) /\ written \in Nat
      /\ draft \in [Client -> Text \cup {None}]
      /\ run \in [no : Nat, status : {"queued", "running", "ended"}]
      /\ items' \in Seq(ItemRow) /\ chat' \in Seq(ChatRow) /\ written' \in 0 .. MaxTexts
      /\ Open \subseteq DOMAIN items /\ DOMAIN items = 1 .. Len(items) /\ Len(items) \in Nat
  BY OpenItems, Bounds DEF Shape
<1>h. /\ \A c \in Client : draft[c] \in Text \cup {None}
      /\ \A i \in Open : i \in DOMAIN items /\ items[i].text \in Text
      /\ \A k \in DOMAIN chat : chat[k].text \in Text \cup {None}
      /\ Text \subseteq Nat /\ None \notin Text /\ None \notin Client
  BY HeldTexts
<1>o. 0 \notin Open' /\ 0 \notin DOMAIN chat' /\ Len(items) + 1 \in Nat /\ Len(chat) + 1 \in Nat
  BY <1>s, RowsOf DEF Open
<1>k. UNCHANGED items => Settles
  BY DEF Settles, Open
<1>f. ASSUME written' = written + 1, written < MaxTexts
      PROVE  /\ written' \in Text /\ written <= written'
             /\ \A c \in Client : draft[c] # written'
             /\ \A i \in Open : items[i].text # written'
             /\ \A k \in DOMAIN chat : chat[k].text # written'
  <2>1. written + 1 \in Text /\ written <= written + 1
    BY <1>s, <1>f, Bounds DEF Text
  <2> QED
    BY <1>f, <2>1, FreshText
<1>a. ASSUME NEW no, NEW text \in Text, Admit(no, text)
      PROVE  /\ \A l \in DOMAIN chat' : IF l = Len(chat) + 1 THEN chat'[l].text = text
                                        ELSE l \in DOMAIN chat /\ chat'[l].text = chat[l].text
  <2> DEFINE row == [who |-> "user", no |-> no, text |-> text]
  <2>1. chat' = Append(chat, row) /\ row.text = text
    BY <1>a DEF Admit
  <2> HIDE DEF row
  <2>2. /\ \A l \in DOMAIN Append(chat, row) : l \in DOMAIN chat \/ l = Len(chat) + 1
        /\ Append(chat, row)[Len(chat) + 1] = row
        /\ \A l \in DOMAIN chat : Append(chat, row)[l] = chat[l]
        /\ Len(chat) + 1 \notin DOMAIN chat
    <3>1. chat \in Seq({chat[l] : l \in DOMAIN chat} \cup {row})
      BY <1>s
    <3> QED
      BY <3>1, Appended
  <2>3. ASSUME NEW l \in DOMAIN chat', l # Len(chat) + 1 PROVE l \in DOMAIN chat /\ chat'[l].text = chat[l].text
    BY <2>1, <2>2, <2>3
  <2> QED
    BY <2>1, <2>2, <2>3
<1>1. ASSUME NEW c \in Client, Compose(c) PROVE Written' /\ Apart'
  <2>1. /\ written' = written + 1 /\ written < MaxTexts /\ UNCHANGED <<items, chat>>
        /\ draft' = [draft EXCEPT ![c] = written']
    BY <1>1 DEF Compose
  <2>2. \A d \in Client : IF d = c THEN draft'[d] = written' ELSE draft'[d] = draft[d]
    BY <1>s, <2>1
  <2>3. Open' = Open
    BY <2>1 DEF Open
  <2>4. Moves(c, 0, 0, written')
    BY <1>f, <1>o, <2>1, <2>2, <2>3 DEF Moves
  <2> QED
    BY <1>f, <2>1, <2>4, MovedApart
<1>2. ASSUME NEW c \in Client, Send(c) PROVE Written' /\ Apart'
  <2> DEFINE t == draft[c]
  <2>1. UNCHANGED written /\ draft' = [draft EXCEPT ![c] = None] /\ t \in Text
    BY <1>h, <1>2 DEF Send, Command
  <2>2. /\ t <= written
        /\ \A d \in Client : draft'[d] = None \/ (draft'[d] = draft[d] /\ draft[d] # t)
        /\ \A i \in Open : items[i].text # t
        /\ \A k \in DOMAIN chat : chat[k].text # t
    BY <1>s, <1>h, <2>1 DEF Apart, Written
  <2>3. CASE Busy
    <3> DEFINE row == [no |-> sends', rev |-> 1, state |-> "queued", text |-> t, failed |-> None]
               n == Len(items) + 1
    <3>1. items' = Append(items, row) /\ UNCHANGED chat /\ row.text = t
      BY <1>2, <2>3 DEF Send
    <3>a. sends' \in Nat
      BY DEF Shape
    <3> HIDE DEF row
    <3>2. /\ \A i \in DOMAIN Append(items, row) : i \in DOMAIN items \/ i = n
          /\ Append(items, row)[n] = row
          /\ \A i \in DOMAIN items : Append(items, row)[i] = items[i]
      <4>1. row \in ItemRow
        BY <2>1, <3>a DEF row, ItemRow, ItemState
      <4> QED
        BY <1>s, <4>1, Appended
    <3>3. \A i \in Open' : i = n \/ (i \in Open /\ items'[i] = items[i])
      BY <3>1, <3>2 DEF Open
    <3>4. items'[n].text = t
      BY <3>1, <3>2
    <3>5. n \notin DOMAIN items
      BY <1>s
    <3>6. \A k \in DOMAIN chat' : chat'[k].text = chat[k].text /\ k \in DOMAIN chat
      BY <3>1
    <3>7. \A i \in Open' : IF i = n THEN items'[i].text = t
                           ELSE i \in Open /\ items'[i].text = items[i].text /\ items[i].text # t
      BY <2>2, <3>3, <3>4
    <3>8. Moves(None, n, 0, t)
      BY <1>s, <1>h, <1>o, <2>1, <2>2, <3>6, <3>7 DEF Moves
    <3> QED
      BY <1>o, <2>1, <3>8, MovedApart
  <2>4. CASE ~Busy
    <3>1. Admit(sends', t) /\ UNCHANGED items
      BY <1>2, <2>4 DEF Send
    <3>2. Open' = Open /\ Open = {}
      BY <2>4, <3>1 DEF Open, Busy
    <3>3. \A l \in DOMAIN chat' : IF l = Len(chat) + 1 THEN chat'[l].text = t
                                  ELSE l \in DOMAIN chat /\ chat'[l].text = chat[l].text
      BY <1>a, <2>1, <3>1
    <3>4. Moves(None, 0, Len(chat) + 1, t)
      BY <1>s, <1>h, <1>o, <2>1, <2>2, <3>2, <3>3 DEF Moves
    <3> QED
      BY <1>o, <2>1, <3>4, MovedApart
  <2> QED
    BY <2>3, <2>4
<1>3. ASSUME NEW c \in Client, NEW i \in Open, BeginEdit(c, i) \/ CancelEdit(c, i) \/ DeleteItem(c, i)
      PROVE  Written' /\ Apart'
  <2>1. UNCHANGED <<chat, draft, written>>
    BY <1>3 DEF BeginEdit, CancelEdit, DeleteItem, EditCommand, Command
  <2>2. Settles
    <3>1. CASE DeleteItem(c, i)
      <4>1. /\ Replaces(i, CancelledRow(i)) /\ CancelledRow(i).no = items[i].no
            /\ CancelledRow(i).state = "cancelled" /\ CancelledRow(i).text = items[i].text
        BY <1>s, <3>1, EditEffect, CancelRow
      <4> QED
        BY <1>h, <4>1, SettlingRows
    <3> QED
      BY <1>k, <1>3, <3>1, EditEffect
  <2> QED
    BY <2>1, <2>2, StillPlaces
<1>4. ASSUME NEW c \in Client, NEW i \in Open, SaveEdit(c, i) PROVE Written' /\ Apart'
  <2>1. written' = written + 1 /\ written < MaxTexts /\ UNCHANGED <<draft, chat>>
    BY <1>4 DEF SaveEdit, EditCommand, Command
  <2>2. Replaces(i, SavedRow(i)) /\ SavedRow(i).text = written' /\ SavedRow(i).state = "queued"
    BY <1>s, <1>4, EditEffect, EditRows
  <2>3. /\ items'[i].text = written' /\ \A j \in DOMAIN items : j # i => items'[j] = items[j]
        /\ Open' = Open \cup {i}
    BY <1>s, <2>2, ReplacedRow
  <2>4. Moves(None, i, 0, written')
    BY <1>f, <1>h, <1>o, <2>1, <2>3 DEF Moves
  <2> QED
    BY <1>f, <1>h, <1>s, <2>1, <2>4, MovedApart
<1>5. ASSUME NEW c \in Client, NEW i \in Open, ReturnItem(c, i) PROVE Written' /\ Apart'
  <2> DEFINE t == items[i].text
  <2>1. UNCHANGED <<chat, written>> /\ draft' = [draft EXCEPT ![c] = t] /\ t \in Text
    BY <1>h, <1>5 DEF ReturnItem, EditCommand, Command
  <2>2. Replaces(i, CancelledRow(i)) /\ CancelledRow(i).state = "cancelled"
    BY <1>s, <1>5, EditEffect, CancelRow
  <2>3. /\ \A j \in DOMAIN items : j # i => items'[j] = items[j]
        /\ Open' = Open \ {i}
    BY <1>s, <2>2, ReplacedRow
  <2>4. \A d \in Client : IF d = c THEN draft'[d] = t ELSE draft'[d] = draft[d]
    BY <1>s, <2>1
  <2>5. /\ t <= written /\ \A d \in Client : draft[d] # t
        /\ \A k \in DOMAIN chat : chat[k].text # t
        /\ \A j \in Open : j # i => items[j].text # t
    BY DEF Apart, Written
  <2>6. \A j \in Open' : j \in Open /\ items'[j].text = items[j].text /\ items[j].text # t
    BY <1>h, <2>3, <2>5
  <2>7. Moves(c, 0, 0, t)
    BY <1>s, <1>o, <2>1, <2>4, <2>5, <2>6 DEF Moves
  <2> QED
    BY <2>1, <2>7, MovedApart
<1>6. ASSUME End PROVE Written' /\ Apart'
  <2>1. UNCHANGED <<chat, written>> /\ \A c \in Client : draft'[c] = None
    BY <1>6 DEF End
  <2>2. Settles
    BY <1>s, <1>6, EndEffect, CancelRow DEF Settles
  <2> QED
    BY <2>1, <2>2, StillPlaces
<1>7. ASSUME StartRun \/ StopRun \/ ListReady \/ Restart PROVE Written' /\ Apart'
  <2>1. UNCHANGED <<chat, draft, written, items>>
    BY <1>7 DEF StartRun, StopRun, RunStep, ListReady, DriverStep, Restart
  <2> QED
    BY <1>k, <2>1, StillPlaces
<1>8. ASSUME NEW no \in turns, NEW output \in BOOLEAN, Succeed(no, output) PROVE Written' /\ Apart'
  <2>1. UNCHANGED <<draft, written, items, sends>> /\ turns' \subseteq turns
    BY <1>8 DEF Succeed, RunStep
  <2>2. chat' = chat \/ Answered
    <3>1. CASE run = [no |-> no, status |-> "running"] /\ ~ended
      <4>1. ActiveRun /\ ~ActiveRun' /\ run'.no = run.no /\ run.no = no
        BY <1>s, <1>8, <3>1 DEF Succeed, ActiveRun
      <4>2. chat' = chat \/ chat' = Append(chat, [who |-> "agent", no |-> run.no, text |-> None])
        BY <1>8, <3>1, <4>1 DEF Succeed
      <4> QED
        BY <2>1, <4>1, <4>2 DEF Answered
    <3> QED
      BY <1>8, <3>1 DEF Succeed
  <2> QED
    BY <1>k, <2>1, <2>2, StillPlaces
<1>9. ASSUME Publish PROVE Written' /\ Apart'
  <2> DEFINE h == driver.item
             t == items[h].text
  <2>1. UNCHANGED <<draft, written>>
    BY <1>9 DEF Publish, DriverStep
  <2>2. CASE UNCHANGED <<items, chat, run>>
    BY <1>k, <2>1, <2>2, StillPlaces
  <2>3. CASE Ready(h) /\ Replaces(h, PublishedRow(h)) /\ Admit(items[h].no, t)
    <3>1. h \in Open /\ h \in DOMAIN items /\ t \in Text
      BY <1>h, <2>3 DEF Ready
    <3>2. PublishedRow(h).state = "published"
      BY <1>s, <3>1, EditRows
    <3>3. /\ \A j \in DOMAIN items : j # h => items'[j] = items[j]
          /\ Open' = Open \ {h}
      BY <1>s, <2>3, <3>2, ReplacedRow
    <3>4. \A l \in DOMAIN chat' : IF l = Len(chat) + 1 THEN chat'[l].text = t
                                  ELSE l \in DOMAIN chat /\ chat'[l].text = chat[l].text
      BY <1>a, <2>3, <3>1
    <3>5. /\ t <= written /\ \A d \in Client : draft[d] # t
          /\ \A k \in DOMAIN chat : chat[k].text # t
          /\ \A j \in Open : j # h => items[j].text # t
      BY <3>1 DEF Apart, Written
    <3>6. \A j \in Open' : j \in Open /\ items'[j].text = items[j].text /\ items[j].text # t
      BY <1>h, <3>3, <3>5
    <3>7. Moves(None, 0, Len(chat) + 1, t)
      BY <1>s, <1>h, <1>o, <2>1, <3>4, <3>5, <3>6 DEF Moves
    <3> QED
      BY <1>o, <3>1, <3>7, MovedApart
  <2> QED
    BY <1>9, <2>2, <2>3, PublishEffect
<1>10. ASSUME PublishFails PROVE Written' /\ Apart'
  <2>1. UNCHANGED <<draft, written, chat>>
    BY <1>10 DEF PublishFails, DriverStep
  <2>2. driver.item \in DOMAIN items /\ Replaces(driver.item, TriedRow(driver.item))
    BY <1>10, FailureEffect DEF PublishFails
  <2>3. /\ TriedRow(driver.item).no = items[driver.item].no
        /\ TriedRow(driver.item).text = items[driver.item].text
        /\ TriedRow(driver.item).state = items[driver.item].state
    BY <1>s, <2>2, EditRows
  <2>4. TriedRow(driver.item).state \in {"queued", "needs_repair"} => driver.item \in Open
    BY <2>2, <2>3 DEF Open
  <2>5. Settles
    BY <2>2, <2>3, <2>4, SettlingRows
  <2> QED
    BY <2>1, <2>5, StillPlaces
<1>11. ASSUME RecordFailure PROVE Written' /\ Apart'
  <2>1. UNCHANGED <<draft, written, chat>>
    BY <1>11 DEF RecordFailure, DriverStep
  <2>2. CASE Replaces(driver.item, RepairRow(driver.item)) /\ items[driver.item].state = "queued"
    <3>1. driver.item \in DOMAIN items /\ driver.item \in Open
      BY <2>2 DEF Replaces, Open
    <3>2. RepairRow(driver.item).no = items[driver.item].no /\ RepairRow(driver.item).text = items[driver.item].text
      BY <1>s, <3>1, EditRows
    <3>3. Settles
      BY <2>2, <3>1, <3>2, SettlingRows
    <3> QED
      BY <2>1, <3>3, StillPlaces
  <2> QED
    BY <1>k, <1>11, <2>1, <2>2, FailureEffect, StillPlaces
<1>12. ASSUME UNCHANGED vars PROVE Written' /\ Apart'
  BY <1>k, <1>12, StillPlaces
<1> HIDE DEF Shape, Written, Apart
<1> QED
  BY <1>1, <1>2, <1>3, <1>4, <1>5, <1>6, <1>7, <1>8, <1>9, <1>10, <1>11, <1>12 DEF Next, Driver

-----------------------------------------------------------------------------
(* The edit session and the driver. *)

\* Begin takes an item that waits, and a step that changes that item or its revision, or
\* ends the chat, takes the session away with it.
LEMMA SessionStep ==
  Shape /\ Shape' /\ SessionOwnable /\ [Next]_vars => SessionOwnable'
<1> SUFFICES ASSUME Shape, Shape', SessionOwnable, [Next]_vars PROVE SessionOwnable'
  OBVIOUS
<1>s. /\ items \in Seq(ItemRow) /\ Open \subseteq DOMAIN items
      /\ \A i \in DOMAIN items : items[i] \in ItemRow
      /\ session \in [item : Nat, base : Nat, client : Client \cup {None}, recover : BOOLEAN]
  BY OpenItems DEF Shape
<1>n. NoSession.item = 0
  BY DEF NoSession
<1>k. ASSUME session' = session, ended' = ended, UNCHANGED items PROVE SessionOwnable'
  BY <1>k DEF SessionOwnable, Open
<1>r. ASSUME NEW i \in DOMAIN items, NEW row, Replaces(i, row), ended' = ended, session' = session,
             session.item = i => /\ row.state \in {"queued", "needs_repair"}
                                 /\ row.rev = items[i].rev
      PROVE  SessionOwnable'
  <2>1. /\ items'[i] = row /\ \A j \in DOMAIN items : j # i => items'[j] = items[j]
        /\ Open' = IF row.state \in {"queued", "needs_repair"} THEN Open \cup {i} ELSE Open \ {i}
    BY <1>s, <1>r, ReplacedRow
  <2> QED
    BY <1>s, <1>r, <2>1 DEF SessionOwnable
<1>1. ASSUME NEW c \in Client, Compose(c) PROVE SessionOwnable'
  BY <1>k, <1>1 DEF Compose
<1>2. ASSUME NEW c \in Client, Send(c) PROVE SessionOwnable'
  <2>1. ended' = ended /\ session' = session
    BY <1>2 DEF Send, Command
  <2>2. CASE UNCHANGED items
    BY <1>k, <2>1, <2>2
  <2>3. CASE Busy
    <3>1. PICK row : items' = Append(items, row)
      BY <1>2, <2>3 DEF Send
    <3>2. ASSUME NEW j \in DOMAIN items PROVE j \in DOMAIN items' /\ items'[j] = items[j]
      BY <1>s, <3>1, <3>2
    <3> QED
      BY <1>s, <2>1, <3>2 DEF SessionOwnable, Open
  <2> QED
    BY <1>2, <2>2, <2>3 DEF Send
<1>3. ASSUME NEW c \in Client, NEW i \in Open, BeginEdit(c, i) PROVE SessionOwnable'
  <2>1. /\ session' = [item |-> i, base |-> items[i].rev, client |-> c, recover |-> FALSE]
        /\ UNCHANGED <<items, ended>> /\ ~ended
    BY <1>3 DEF BeginEdit, EditCommand, Command
  <2> QED
    BY <2>1 DEF SessionOwnable, Open
<1>4. ASSUME NEW c \in Client, NEW i \in Open, SaveEdit(c, i) \/ CancelEdit(c, i) PROVE SessionOwnable'
  BY <1>n, <1>4 DEF SaveEdit, CancelEdit, SessionOwnable
<1>5. ASSUME NEW c \in Client, NEW i \in Open, DeleteItem(c, i) \/ ReturnItem(c, i) PROVE SessionOwnable'
  <2>1. ended' = ended /\ session' = Released(i)
    BY <1>5 DEF DeleteItem, ReturnItem, EditCommand, Command
  <2>2. CASE session.item = i
    BY <1>n, <2>1, <2>2 DEF Released, SessionOwnable
  <2>3. CASE session.item # i
    BY <1>s, <1>r, <1>5, <2>1, <2>3, EditEffect DEF Released
  <2> QED
    BY <2>2, <2>3
<1>6. ASSUME End PROVE SessionOwnable'
  BY <1>n, <1>6 DEF End, SessionOwnable
<1>7. ASSUME StartRun \/ StopRun \/ ListReady PROVE SessionOwnable'
  BY <1>k, <1>7 DEF StartRun, StopRun, RunStep, ListReady, DriverStep
<1>8. ASSUME NEW no \in turns, NEW output \in BOOLEAN, Succeed(no, output) PROVE SessionOwnable'
  BY <1>k, <1>8 DEF Succeed, RunStep
<1>9. ASSUME Publish PROVE SessionOwnable'
  <2>1. ended' = ended /\ session' = session
    BY <1>9 DEF Publish, DriverStep
  <2>2. Ready(driver.item) => session.item # driver.item
    BY DEF Ready
  <2> QED
    BY <1>k, <1>r, <1>9, <2>1, <2>2, PublishEffect
<1>10. ASSUME PublishFails PROVE SessionOwnable'
  <2>1. ended' = ended /\ session' = session
    BY <1>10 DEF PublishFails, DriverStep
  <2>2. driver.item \in DOMAIN items /\ Replaces(driver.item, TriedRow(driver.item))
    BY <1>10, FailureEffect DEF PublishFails
  <2>3. /\ TriedRow(driver.item).rev = items[driver.item].rev
        /\ TriedRow(driver.item).state = items[driver.item].state
    BY <1>s, <2>2, EditRows
  <2>4. session.item = driver.item => items[driver.item].state \in {"queued", "needs_repair"}
    <3>1. driver.item # 0
      BY <1>s, <2>2, RowsOf
    <3> QED
      BY <3>1 DEF SessionOwnable, Open
  <2> QED
    BY <1>r, <2>1, <2>2, <2>3, <2>4
<1>11. ASSUME RecordFailure PROVE SessionOwnable'
  <2>1. ended' = ended /\ session' = session
    BY <1>11 DEF RecordFailure, DriverStep
  <2>2. driver.item \in DOMAIN items
    BY <1>11, FailureEffect DEF RecordFailure
  <2>3. /\ RepairRow(driver.item).rev = items[driver.item].rev
        /\ RepairRow(driver.item).state = "needs_repair"
    BY <1>s, <2>2, EditRows
  <2> QED
    BY <1>k, <1>r, <1>11, <2>1, <2>2, <2>3, FailureEffect
<1>12. ASSUME Restart PROVE SessionOwnable'
  <2>1. /\ UNCHANGED <<items, ended>>
        /\ session'.item = session.item /\ session'.base = session.base
    BY <1>s, <1>12 DEF Restart
  <2> QED
    BY <2>1 DEF SessionOwnable, Open
<1>13. ASSUME UNCHANGED vars PROVE SessionOwnable'
  BY <1>k, <1>13
<1> HIDE DEF Shape, SessionOwnable
<1> QED
  BY <1>1, <1>2, <1>3, <1>4, <1>5, <1>6, <1>7, <1>8, <1>9, <1>10, <1>11, <1>12, <1>13
     DEF Next, Driver

\* What one replaced row means to the driver and to the repairs.
LEMMA RowRepair ==
  ASSUME Shape, DriverKnows, RepairIsOfAttempt, NEW i \in DOMAIN items, NEW row, Replaces(i, row),
         items[i].rev <= row.rev,
         row.state = "needs_repair" => row.failed = row.text,
         \/ driver' = Idle
         \/ /\ driver' = driver
            /\ row.rev = items[i].rev => row.failed = items[i].failed /\ row.text = items[i].text
  PROVE  DriverKnows' /\ RepairIsOfAttempt'
<1>1. /\ DOMAIN items' = DOMAIN items /\ items'[i] = row
      /\ \A j \in DOMAIN items : j # i => items'[j] = items[j]
  BY ReplacedRow DEF Shape
<1>2. RepairIsOfAttempt'
  BY <1>1 DEF RepairIsOfAttempt
<1>3. DriverKnows'
  <2>1. CASE driver' = Idle
    BY <2>1 DEF DriverKnows, Idle
  <2>2. CASE driver' = driver /\ driver.at # "wait"
    <3>1. /\ driver.item \in DOMAIN items /\ driver.rev \in Nat
          /\ \A j \in DOMAIN items : items[j].rev \in Nat
      BY <2>2, OpenItems DEF Shape, ItemRow
    <3>2. row.rev \in Nat
      BY DEF Replaces, ItemRow
    <3>3. /\ driver.rev <= items[driver.item].rev
          /\ driver.at = "record" /\ driver.rev = items[driver.item].rev =>
                 items[driver.item].failed = items[driver.item].text
      BY <2>2 DEF DriverKnows
    <3>4. CASE driver.item # i
      BY <1>1, <2>2, <3>1, <3>3, <3>4 DEF DriverKnows
    <3>5. CASE driver.item = i
      <4>1. driver.rev <= row.rev /\ (driver.rev = row.rev => row.rev = items[i].rev)
        BY <3>1, <3>2, <3>3, <3>5
      <4>2. row.rev = items[i].rev => row.failed = items[i].failed /\ row.text = items[i].text
        BY <2>2 DEF Idle
      <4> QED
        BY <1>1, <2>2, <3>3, <3>5, <4>1, <4>2 DEF DriverKnows
    <3> QED
      BY <3>4, <3>5
  <2>3. CASE driver' = driver /\ driver.at = "wait"
    BY <2>3 DEF DriverKnows
  <2> QED
    BY <2>1, <2>2, <2>3
<1> QED
  BY <1>2, <1>3

\* A failure is recorded for the revision that was tried.
LEMMA DriverStepKept ==
  Shape /\ Shape' /\ DriverKnows /\ RepairIsOfAttempt /\ [Next]_vars => DriverKnows' /\ RepairIsOfAttempt'
<1> SUFFICES ASSUME Shape, Shape', DriverKnows, RepairIsOfAttempt, [Next]_vars
             PROVE  DriverKnows' /\ RepairIsOfAttempt'
  OBVIOUS
<1>s. /\ items \in Seq(ItemRow) /\ Open \subseteq DOMAIN items
      /\ \A i \in DOMAIN items : /\ items[i].rev \in Nat /\ items[i].rev <= items[i].rev
                                 /\ items[i].rev <= items[i].rev + 1
                                 /\ items[i].rev + 1 # items[i].rev
      /\ driver \in [at : {"wait", "publish", "record"}, item : Nat, rev : Nat]
  <2>1. /\ items \in Seq(ItemRow) /\ Open \subseteq DOMAIN items
        /\ \A i \in DOMAIN items : items[i].rev \in Nat
        /\ driver \in [at : {"wait", "publish", "record"}, item : Nat, rev : Nat]
    BY OpenItems DEF Shape, ItemRow
  <2> QED
    BY <2>1
<1>k. ASSUME UNCHANGED items, driver' = driver \/ driver' = Idle PROVE DriverKnows' /\ RepairIsOfAttempt'
  BY <1>k DEF DriverKnows, RepairIsOfAttempt, Idle
<1>1. ASSUME NEW c \in Client, Compose(c) PROVE DriverKnows' /\ RepairIsOfAttempt'
  BY <1>k, <1>1 DEF Compose
<1>2. ASSUME NEW c \in Client, Send(c) PROVE DriverKnows' /\ RepairIsOfAttempt'
  <2>1. driver' = driver
    BY <1>2 DEF Send, Command
  <2>2. CASE Busy
    <3> DEFINE row == [no |-> sends', rev |-> 1, state |-> "queued", text |-> draft[c], failed |-> None]
    <3>1. items' = Append(items, row) /\ row.state = "queued"
      BY <1>2, <2>2 DEF Send
    <3>2. row \in ItemRow
      BY <1>2 DEF Send, Shape, ItemRow, ItemState
    <3> HIDE DEF row
    <3>3. /\ \A i \in DOMAIN Append(items, row) : i \in DOMAIN items \/ i = Len(items) + 1
          /\ Append(items, row)[Len(items) + 1] = row
          /\ \A i \in DOMAIN items : Append(items, row)[i] = items[i]
      BY <1>s, <3>2, Appended
    <3>4. RepairIsOfAttempt'
      BY <3>1, <3>3 DEF RepairIsOfAttempt
    <3>5. driver.at # "wait" => items'[driver.item] = items[driver.item]
      BY <3>1, <3>3 DEF Shape
    <3>6. DriverKnows'
      BY <2>1, <3>5 DEF DriverKnows
    <3> QED
      BY <3>4, <3>6
  <2> QED
    BY <1>k, <1>2, <2>1, <2>2 DEF Send
<1>3. ASSUME NEW c \in Client, NEW i \in Open, BeginEdit(c, i) \/ CancelEdit(c, i)
      PROVE  DriverKnows' /\ RepairIsOfAttempt'
  BY <1>k, <1>3 DEF BeginEdit, CancelEdit, EditCommand, Command
<1>4. ASSUME NEW c \in Client, NEW i \in Open, SaveEdit(c, i)
      PROVE  DriverKnows' /\ RepairIsOfAttempt'
  <2>1. /\ driver' = driver /\ i \in DOMAIN items /\ Replaces(i, SavedRow(i))
        /\ SavedRow(i).rev = items[i].rev + 1 /\ SavedRow(i).state = "queued"
    BY <1>s, <1>4, EditEffect, EditRows DEF SaveEdit, EditCommand, Command
  <2> QED
    BY <1>s, <2>1, RowRepair
<1>5. ASSUME NEW c \in Client, NEW i \in Open, DeleteItem(c, i) \/ ReturnItem(c, i)
      PROVE  DriverKnows' /\ RepairIsOfAttempt'
  <2>1. /\ driver' = driver /\ i \in DOMAIN items /\ Replaces(i, CancelledRow(i))
        /\ CancelledRow(i).state = "cancelled"
    BY <1>s, <1>5, EditEffect, CancelRow DEF DeleteItem, ReturnItem, EditCommand, Command
  <2>2. CancelledRow(i).rev = items[i].rev + 1
    BY <1>s, <2>1, CancelRev
  <2> QED
    BY <1>s, <2>1, <2>2, RowRepair
<1>6. ASSUME End PROVE DriverKnows' /\ RepairIsOfAttempt'
  <2>1. /\ driver' = driver /\ DOMAIN items' = DOMAIN items
        /\ \A i \in DOMAIN items : \/ items'[i] = items[i]
                                   \/ /\ items'[i].state = "cancelled"
                                      /\ items'[i].rev = items[i].rev + 1
    BY <1>s, <1>6, EndEffect, CancelRow, CancelRev DEF End, Command
  <2>2. RepairIsOfAttempt'
    BY <2>1 DEF RepairIsOfAttempt
  <2>3. ASSUME driver.at # "wait"
        PROVE  /\ driver.rev <= items'[driver.item].rev
               /\ driver.at = "record" /\ driver.rev = items'[driver.item].rev =>
                      items'[driver.item].failed = items'[driver.item].text
    <3>1. /\ driver.item \in DOMAIN items /\ driver.rev \in Nat /\ items[driver.item].rev \in Nat
          /\ driver.rev <= items[driver.item].rev
      BY <1>s, <2>3 DEF Shape, DriverKnows
    <3>2. CASE items'[driver.item] = items[driver.item]
      BY <2>3, <3>2 DEF DriverKnows
    <3>3. CASE items'[driver.item].rev = items[driver.item].rev + 1
      BY <3>1, <3>3
    <3> QED
      BY <2>1, <3>1, <3>2, <3>3
  <2> QED
    BY <2>1, <2>2, <2>3 DEF DriverKnows
<1>7. ASSUME StartRun \/ StopRun PROVE DriverKnows' /\ RepairIsOfAttempt'
  BY <1>k, <1>7 DEF StartRun, StopRun, RunStep
<1>8. ASSUME NEW no \in turns, NEW output \in BOOLEAN, Succeed(no, output)
      PROVE  DriverKnows' /\ RepairIsOfAttempt'
  BY <1>k, <1>8 DEF Succeed, RunStep
<1>9. ASSUME ListReady PROVE DriverKnows' /\ RepairIsOfAttempt'
  <2>1. UNCHANGED items
    BY <1>9 DEF ListReady
  <2>2. CASE \E i \in Open : Ready(i)
    <3>1. PICK i \in Open : driver' = [at |-> "publish", item |-> i, rev |-> items[i].rev]
      BY <1>9, <2>2 DEF ListReady
    <3>2. items[i].rev <= items[i].rev
      BY <1>s
    <3> QED
      BY <2>1, <3>1, <3>2 DEF DriverKnows, RepairIsOfAttempt
  <2> QED
    BY <1>k, <1>9, <2>1, <2>2 DEF ListReady
<1>10. ASSUME Publish PROVE DriverKnows' /\ RepairIsOfAttempt'
  <2> DEFINE h == driver.item
  <2>1. driver' = Idle
    BY <1>10 DEF Publish
  <2>2. CASE h \in DOMAIN items /\ Replaces(h, PublishedRow(h))
    <3>1. PublishedRow(h).rev = items[h].rev /\ PublishedRow(h).state = "published"
      BY <1>s, <2>2, EditRows
    <3> QED
      BY <1>s, <2>1, <2>2, <3>1, RowRepair
  <2> QED
    BY <1>k, <1>10, <2>1, <2>2, PublishEffect
<1>11. ASSUME PublishFails PROVE DriverKnows' /\ RepairIsOfAttempt'
  <2> DEFINE h == driver.item
  <2>1. /\ h \in DOMAIN items /\ Replaces(h, TriedRow(h))
        /\ driver' = [driver EXCEPT !.at = "record"] /\ driver.at = "publish"
    BY <1>11, FailureEffect DEF PublishFails
  <2>2. TriedRow(h).rev = items[h].rev /\ TriedRow(h).text = items[h].text /\ TriedRow(h).failed = items[h].text
    BY <1>s, <2>1, EditRows
  <2>3. /\ DOMAIN items' = DOMAIN items /\ items'[h] = TriedRow(h)
        /\ \A j \in DOMAIN items : j # h => items'[j] = items[j]
    BY <1>s, <2>1, ReplacedRow
  <2>4. driver'.item = h /\ driver'.rev = driver.rev
    BY <1>s, <2>1
  <2>5. driver.rev <= items[h].rev
    BY <2>1 DEF DriverKnows
  <2> QED
    BY <2>2, <2>3, <2>4, <2>5 DEF DriverKnows, RepairIsOfAttempt
<1>12. ASSUME RecordFailure PROVE DriverKnows' /\ RepairIsOfAttempt'
  <2> DEFINE h == driver.item
  <2>1. driver' = Idle /\ driver.at = "record" /\ h \in DOMAIN items
    BY <1>12, FailureEffect DEF RecordFailure
  <2>2. CASE Replaces(h, RepairRow(h)) /\ items[h].rev = driver.rev
    <3>1. /\ RepairRow(h).rev = items[h].rev /\ RepairRow(h).text = items[h].text
          /\ RepairRow(h).failed = items[h].failed
      BY <1>s, <2>1, EditRows
    <3>2. items[h].failed = items[h].text
      BY <2>1, <2>2 DEF DriverKnows
    <3> QED
      BY <1>s, <2>1, <2>2, <3>1, <3>2, RowRepair
  <2> QED
    BY <1>k, <1>12, <2>1, <2>2, FailureEffect
<1>13. ASSUME Restart PROVE DriverKnows' /\ RepairIsOfAttempt'
  BY <1>k, <1>13 DEF Restart
<1>14. ASSUME UNCHANGED vars PROVE DriverKnows' /\ RepairIsOfAttempt'
  BY <1>k, <1>14
<1> HIDE DEF Shape, DriverKnows, RepairIsOfAttempt
<1> QED
  BY <1>1, <1>2, <1>3, <1>4, <1>5, <1>6, <1>7, <1>8, <1>9, <1>10, <1>11, <1>12, <1>13, <1>14
     DEF Next, Driver

\* After the end nothing is sent, published or run.
LEMMA EndedStep ==
  Shape /\ Shape' /\ EndedQuiet /\ [Next]_vars =>
      EndedQuiet' /\ (ended => ended' /\ chat' = chat)
<1> SUFFICES ASSUME Shape, Shape', EndedQuiet, [Next]_vars
             PROVE  EndedQuiet' /\ (ended => ended' /\ chat' = chat)
  OBVIOUS
<1>1. ASSUME End PROVE ended' /\ EndedQuiet' /\ chat' = chat
  <2>1. Open' = {} /\ run' = [run EXCEPT !.status = "ended"]
    BY <1>1, EndEffect DEF End
  <2>2. ~ActiveRun'
    BY <2>1 DEF ActiveRun, Shape
  <2> QED
    BY <1>1, <2>1, <2>2 DEF End, EndedQuiet
<1>2. ASSUME ~End PROVE ended' = ended
  BY <1>2 DEF Next, Driver, Compose, Send, BeginEdit, SaveEdit, CancelEdit, DeleteItem, ReturnItem,
      EditCommand, Command, StartRun, StopRun, Succeed, RunStep, ListReady, Publish, PublishFails,
      RecordFailure, DriverStep, Restart
<1>3. ASSUME ~End, ended PROVE ended' /\ EndedQuiet' /\ chat' = chat
  <2>1. Open = {} /\ ~ActiveRun /\ \A i \in Open : FALSE
    BY <1>3 DEF EndedQuiet
  <2>2. /\ \A c \in Client : ~Compose(c) /\ ~Send(c)
        /\ ~StartRun /\ ~StopRun
    BY <1>3, <2>1 DEF Compose, Send, Command, StartRun, StopRun, ActiveRun
  <2>3. CASE Publish
    <3>1. ~Ready(driver.item)
      BY <1>3 DEF Ready
    <3> QED
      BY <1>2, <1>3, <2>1, <2>3, <3>1 DEF Publish, EndedQuiet, Open, ActiveRun
  <2>4. CASE PublishFails
    <3>1. UNCHANGED <<chat, run>>
      BY <2>4 DEF PublishFails
    <3>2. driver.item \in DOMAIN items /\ Replaces(driver.item, TriedRow(driver.item))
      BY <2>4, FailureEffect DEF PublishFails
    <3>3. TriedRow(driver.item).state = items[driver.item].state
      BY <3>2, EditRows DEF Shape
    <3>4. Open' \subseteq Open
      <4>1. TriedRow(driver.item).state \in {"queued", "needs_repair"} => driver.item \in Open
        BY <3>2, <3>3 DEF Open
      <4> QED
        BY <3>2, <4>1, ReplacedRow DEF Shape
    <3> QED
      BY <1>2, <1>3, <2>1, <3>1, <3>4 DEF EndedQuiet, ActiveRun
  <2>5. CASE RecordFailure
    <3>1. UNCHANGED <<chat, run>>
      BY <2>5 DEF RecordFailure
    <3>2. UNCHANGED items
      BY <2>1, <2>5, FailureEffect DEF Replaces, Open
    <3> QED
      BY <1>2, <1>3, <2>1, <3>1, <3>2 DEF EndedQuiet, Open, ActiveRun
  <2>6. CASE \E no \in turns, output \in BOOLEAN : Succeed(no, output)
    BY <1>2, <1>3, <2>1, <2>6 DEF Succeed, RunStep, EndedQuiet, Open, ActiveRun
  <2>7. CASE ListReady \/ UNCHANGED vars
    BY <1>2, <1>3, <2>1, <2>7 DEF ListReady, EndedQuiet, Open, ActiveRun
  <2>8. CASE Restart
    <3>1. UNCHANGED <<items, chat>> /\ run' = [run EXCEPT !.status = "ended"]
      BY <2>8 DEF Restart
    <3>2. ~ActiveRun'
      BY <3>1 DEF ActiveRun, Shape
    <3> QED
      BY <1>2, <1>3, <2>1, <3>1, <3>2 DEF EndedQuiet, Open
  <2> QED
    BY <1>3, <2>1, <2>2, <2>3, <2>4, <2>5, <2>6, <2>7, <2>8 DEF Next, Driver
<1>4. ASSUME ~ended, ~End PROVE EndedQuiet'
  BY <1>2, <1>4 DEF EndedQuiet
<1> QED
  BY <1>1, <1>3, <1>4

-----------------------------------------------------------------------------
(* The results. *)

\* The initial states satisfy the invariant.
LEMMA InitChat == Init => ChatInv
<1> SUFFICES ASSUME Init PROVE ChatInv
  OBVIOUS
<1>1. Shape
  BY InitShape
<1>2. /\ ended = FALSE /\ items = <<>> /\ chat = <<>> /\ sends = 0 /\ turns = {}
      /\ run.no = 0 /\ run.status = "ended" /\ session.item = 0 /\ driver.at = "wait"
      /\ \A c \in Client : draft[c] = None
  BY DEF Init, NoSession, Idle
<1>3. DOMAIN items = {} /\ DOMAIN chat = {} /\ Open = {} /\ Len(chat) = 0 /\ ~ActiveRun
  BY <1>2 DEF Open, ActiveRun
<1>4. Numbered /\ InOrder
  BY <1>2, <1>3 DEF Numbered, InOrder
<1>5. Written /\ Apart
  BY <1>2, <1>3 DEF Written, Apart
<1>6. SessionOwnable /\ DriverKnows /\ RepairIsOfAttempt /\ EndedQuiet
  BY <1>2, <1>3 DEF SessionOwnable, DriverKnows, RepairIsOfAttempt, EndedQuiet
<1> QED
  BY <1>1, <1>4, <1>5, <1>6 DEF ChatInv

\* The invariant holds of every state: each part follows from its own step.
LEMMA ChatInvHolds == Spec => []ChatInv
<1>1. ChatInv /\ [Next]_vars => ChatInv'
  <2> SUFFICES ASSUME ChatInv, [Next]_vars PROVE ChatInv'
    OBVIOUS
  <2>1. /\ Shape /\ Numbered /\ InOrder /\ Written /\ Apart /\ SessionOwnable
        /\ DriverKnows /\ RepairIsOfAttempt /\ EndedQuiet
    BY DEF ChatInv
  <2>2. Shape'
    BY <2>1, ShapeStep
  <2>3. Numbered' /\ InOrder'
    BY <2>1, <2>2, NumberedStep
  <2>4. Written' /\ Apart'
    BY <2>1, <2>2, PlacesStep
  <2>5. SessionOwnable'
    BY <2>1, <2>2, SessionStep
  <2>6. DriverKnows' /\ RepairIsOfAttempt'
    BY <2>1, <2>2, DriverStepKept
  <2>7. EndedQuiet'
    BY <2>1, <2>2, EndedStep
  <2> QED
    BY <2>2, <2>3, <2>4, <2>5, <2>6, <2>7 DEF ChatInv
<1> QED
  BY <1>1, InitChat, PTL DEF Spec

\* Places that hold different texts hold one text at most once.
LEMMA PlacesApart == Shape /\ Apart => OnePlace
<1> SUFFICES ASSUME Shape, Apart, NEW t \in Text
             PROVE  Cardinality({<<"draft", c>> : c \in {d \in Client : draft[d] = t}}
                                  \cup {<<"item", i>> : i \in {j \in Open : items[j].text = t}}
                                  \cup {<<"chat", k>> : k \in {l \in DOMAIN chat : chat[l].text = t}}) <= 1
  BY DEF OnePlace
<1> DEFINE D == {d \in Client : draft[d] = t}
           I == {j \in Open : items[j].text = t}
           K == {l \in DOMAIN chat : chat[l].text = t}
           P == {<<"draft", c>> : c \in D} \cup {<<"item", i>> : i \in I} \cup {<<"chat", k>> : k \in K}
<1>1. t # None
  BY Bounds
<1>2. /\ \A c, d \in D : c = d
      /\ \A i, j \in I : i = j
      /\ \A k, l \in K : k = l
      /\ (D = {} \/ I = {}) /\ (D = {} \/ K = {}) /\ (I = {} \/ K = {})
  <2>1. \A c, d \in D : c = d
    BY <1>1 DEF Apart
  <2>2. \A i, j \in I : i = j
    BY DEF Apart
  <2>3. \A k, l \in K : k = l
    BY <1>1 DEF Apart
  <2>4. (D = {} \/ I = {}) /\ (D = {} \/ K = {}) /\ (I = {} \/ K = {})
    BY <1>1 DEF Apart
  <2> QED
    BY <2>1, <2>2, <2>3, <2>4
<1> HIDE DEF D, I, K
<1>3. \A p, q \in P : p = q
  BY <1>2
<1>4. P = {} \/ \E p : P = {p}
  BY <1>3
<1> HIDE DEF P
<1>5. Cardinality(P) <= 1
  <2>1. Cardinality({}) = 0 /\ \A p : Cardinality({p}) = 1
    BY FS_EmptySet, FS_Singleton
  <2>2. Cardinality(P) = 0 \/ Cardinality(P) = 1
    BY <1>4, <2>1
  <2> QED
    BY <2>2
<1> QED
  BY <1>5 DEF P, D, I, K

\* The queue and the conversation agree: the order of the inputs through edits, repairs and
\* direct sends (single_chat.rs: admit_single_chat_message, publish_pending_input), each
\* text in one place, an edit session that its client can always finish, and a repair mark
\* only on what was tried (record_pending_publish_failure).
THEOREM QueueAgreesHolds == Spec => []QueueAgrees
<1>1. ChatInv => TypeOK
  <2> SUFFICES ASSUME ChatInv PROVE TypeOK
    OBVIOUS
  <2>1. Shape /\ Numbered
    BY DEF ChatInv
  <2>2. /\ items \in Seq(ItemRow) /\ chat \in Seq(ChatRow)
        /\ \A i \in DOMAIN items : items[i] \in ItemRow
    BY <2>1, OpenItems DEF Shape
  <2>3. \A k \in DOMAIN chat : chat[k] \in ChatRow
    BY <2>2
  <2>4. /\ \A i \in DOMAIN items :
              /\ items[i].no \in 1 .. sends /\ items[i].text \in Text
              /\ items[i].failed \in Text \cup {None}
              /\ items[i].state \in {"queued", "needs_repair", "published", "cancelled"}
        /\ \A k \in DOMAIN chat : chat[k].who \in {"user", "agent"} /\ chat[k].no \in 1 .. sends
    BY <2>1, <2>2, <2>3 DEF Numbered, ItemRow, ItemState, ChatRow
  <2>5. /\ {ended, wake, session.recover} \subseteq BOOLEAN
        /\ draft \in [Client -> Text \cup {None}] /\ written \in 0 .. MaxTexts
        /\ run.no \in 0 .. sends /\ run.status \in {"queued", "running", "ended"}
        /\ turns \subseteq 1 .. sends /\ driver.at \in {"wait", "publish", "record"}
    BY <2>1 DEF Shape, Numbered
  <2> QED
    BY <2>4, <2>5 DEF TypeOK
<1>2. ChatInv => QueueAgrees
  BY <1>1, PlacesApart DEF ChatInv, QueueAgrees
<1> QED
  BY <1>2, ChatInvHolds, PTL

\* Once the chat has ended nothing is written, waits or runs: neither an item the driver had
\* listed nor the late answer of a turn (persist_single_chat_success) comes after the end.
THEOREM EndIsFinalHolds == Spec => EndIsFinal
<1>1. ChatInv /\ ChatInv' /\ [Next]_vars =>
        [ended => ended' /\ chat' = chat /\ Open' = {} /\ ~ActiveRun']_vars
  <2> SUFFICES ASSUME ChatInv, ChatInv', [Next]_vars, ended
               PROVE  ended' /\ chat' = chat /\ Open' = {} /\ ~ActiveRun'
    OBVIOUS
  <2>1. Shape /\ Shape' /\ EndedQuiet /\ EndedQuiet'
    BY DEF ChatInv
  <2>2. ended' /\ chat' = chat
    BY <2>1, EndedStep
  <2> QED
    BY <2>1, <2>2 DEF EndedQuiet
<1> QED
  BY <1>1, ChatInvHolds, PTL DEF Spec, EndIsFinal
=============================================================================
