----------------------- MODULE NetworkRecovery_proofs -----------------------
(***************************************************************************)
(* Proofs about NetworkRecovery, for any runs, epochs and restarts.        *)
(***************************************************************************)
EXTENDS NetworkRecovery, TLAPS

-----------------------------------------------------------------------------
(* The rows, the queue and what a step does to them. *)

USE DEF store, core, queue, life, history, vars

RunRow == [Run -> RunState]
QueueRow == [Run -> Entry \cup {NoEntry}]

\* The bounds, as the proofs read them.
LEMMA Bounds ==
  /\ MaxEpoch \in Nat /\ 1 \in Epoch /\ Epoch \subseteq Nat /\ 0 \notin Epoch
  /\ \A n \in {0} \cup Epoch : n \in Nat
  /\ \A n \in Epoch : n < MaxEpoch => n + 1 \in Epoch
BY BoundsAssumption DEF Epoch

\* The rows that replace the row of a run.
Ended(row) == [row EXCEPT !.status = "ended", !.wait = "none", !.marked = FALSE, !.shown = FALSE]
Claimed(row, n) == [row EXCEPT !.status = "running", !.wait = "none", !.epoch = n, !.input = "none"]
Parked(row) == [row EXCEPT !.status = "waiting", !.wait = "network_recovery", !.marked = TRUE, !.shown = TRUE]
BoundRow(row) == [row EXCEPT !.bound = TRUE]

\* The rows of a run that the actions write, field by field.
LEMMA Rows ==
  ASSUME NEW row \in RunState
  PROVE  /\ Ended(row) \in RunState /\ Ended(row).status = "ended" /\ Ended(row).wait = "none"
         /\ Ended(row).epoch = row.epoch /\ Ended(row).input = row.input
         /\ ~Ended(row).marked /\ Ended(row).cancelled = row.cancelled
         /\ \A n \in Epoch :
               /\ Claimed(row, n) \in RunState /\ Claimed(row, n).status = "running"
               /\ Claimed(row, n).wait = "none" /\ Claimed(row, n).epoch = n
               /\ Claimed(row, n).input = "none" /\ Claimed(row, n).marked = row.marked
               /\ Claimed(row, n).cancelled = row.cancelled
         /\ Parked(row) \in RunState /\ Parked(row).status = "waiting"
         /\ Parked(row).wait = "network_recovery" /\ Parked(row).marked
         /\ Parked(row).epoch = row.epoch /\ Parked(row).input = row.input
         /\ Parked(row).cancelled = row.cancelled
<1>1. /\ Ended(row) \in RunState /\ Ended(row).status = "ended" /\ Ended(row).wait = "none"
      /\ Ended(row).epoch = row.epoch /\ Ended(row).input = row.input
      /\ ~Ended(row).marked /\ Ended(row).cancelled = row.cancelled
  BY DEF Ended, RunState, Wait
<1>2. ASSUME NEW n \in Epoch
      PROVE  /\ Claimed(row, n) \in RunState /\ Claimed(row, n).status = "running"
             /\ Claimed(row, n).wait = "none" /\ Claimed(row, n).epoch = n
             /\ Claimed(row, n).input = "none" /\ Claimed(row, n).marked = row.marked
             /\ Claimed(row, n).cancelled = row.cancelled
  BY DEF Claimed, RunState, Wait
<1>3. /\ Parked(row) \in RunState /\ Parked(row).status = "waiting"
      /\ Parked(row).wait = "network_recovery" /\ Parked(row).marked
      /\ Parked(row).epoch = row.epoch /\ Parked(row).input = row.input
      /\ Parked(row).cancelled = row.cancelled
  BY DEF Parked, RunState, Wait
<1> QED
  BY <1>1, <1>2, <1>3

\* A terminal state of a row.
LEMMA EndedEffect ==
  ASSUME run \in RunRow, NEW r \in Run
  PROVE  /\ EndedRow(r) \in RunRow
         /\ \A q \in Run : q # r => EndedRow(r)[q] = run[q]
         /\ EndedRow(r)[r].status = "ended" /\ EndedRow(r)[r].wait = "none"
         /\ EndedRow(r)[r].epoch = run[r].epoch /\ EndedRow(r)[r].input = run[r].input
         /\ ~EndedRow(r)[r].marked /\ EndedRow(r)[r].cancelled = run[r].cancelled
<1>1. run[r] \in RunState
  BY DEF RunRow
<1>2. EndedRow(r) = [run EXCEPT ![r] = Ended(run[r])]
  BY <1>1 DEF EndedRow, Ended, RunRow, RunState
<1> QED
  BY <1>1, <1>2, Rows DEF RunRow

\* A terminal is taken by a running row only.
LEMMA TerminalEffect ==
  ASSUME run \in RunRow, NEW r \in Run, NEW e
  PROVE  /\ Terminal(r, e) \in RunRow
         /\ \A q \in Run : q # r => Terminal(r, e)[q] = run[q]
         /\ \/ Terminal(r, e) = run /\ ~(run[r].epoch = e /\ run[r].status = "running")
            \/ Terminal(r, e) = EndedRow(r) /\ run[r].epoch = e /\ run[r].status = "running"
BY EndedEffect DEF Terminal, Loads

\* The user stops a run.
LEMMA CancelEffect ==
  ASSUME run \in RunRow, NEW r \in Run, Cancel(r)
  PROVE  /\ run' \in RunRow /\ \A q \in Run : q # r => run'[q] = run[q]
         /\ run'[r].status = "ended" /\ run'[r].wait = "none" /\ run'[r].epoch = run[r].epoch
         /\ run'[r].input = run[r].input /\ ~run'[r].marked /\ run'[r].cancelled
<1>1. /\ EndedRow(r) \in RunRow /\ \A q \in Run : q # r => EndedRow(r)[q] = run[q]
      /\ EndedRow(r)[r].status = "ended" /\ EndedRow(r)[r].wait = "none"
      /\ EndedRow(r)[r].epoch = run[r].epoch /\ EndedRow(r)[r].input = run[r].input
      /\ ~EndedRow(r)[r].marked
  BY EndedEffect
<1>2. ASSUME NEW rows \in RunRow
      PROVE  LET ended == [rows EXCEPT ![r].cancelled = TRUE]
             IN  /\ ended \in RunRow /\ \A q \in Run : q # r => ended[q] = rows[q]
                 /\ ended[r].cancelled = TRUE /\ ended[r].status = rows[r].status
                 /\ ended[r].wait = rows[r].wait /\ ended[r].epoch = rows[r].epoch
                 /\ ended[r].input = rows[r].input /\ ended[r].marked = rows[r].marked
  BY DEF RunRow, RunState
<1>3. run' = [EndedRow(r) EXCEPT ![r].cancelled = TRUE]
  BY DEF Cancel
<1> HIDE DEF RunRow
<1> QED
  BY <1>1, <1>2, <1>3

\* The row of an armed run.
LEMMA ArmedEffect ==
  ASSUME run \in RunRow, NEW r \in Run, NEW e
  PROVE  /\ Armed(r, e) \in RunRow
         /\ \A q \in Run : q # r => Armed(r, e)[q] = run[q]
         /\ Armed(r, e)[r].wait \in {"runtime_recovery", "network_recovery_blocked"}
         /\ Armed(r, e)[r].status = run[r].status /\ Armed(r, e)[r].epoch = run[r].epoch
         /\ Armed(r, e)[r].input = run[r].input /\ Armed(r, e)[r].marked = run[r].marked
         /\ Armed(r, e)[r].cancelled = run[r].cancelled
BY DEF Armed, RunRow, RunState, Wait

\* A claim begins the next epoch.
LEMMA ClaimEffect ==
  ASSUME run \in RunRow, NEW r \in Run, Claimable(r), ClaimRun(r)
  PROVE  /\ run' \in RunRow /\ \A q \in Run : q # r => run'[q] = run[q]
         /\ run'[r].status = "running" /\ run'[r].wait = "none"
         /\ run'[r].epoch = run[r].epoch + 1 /\ run[r].epoch + 1 \in Epoch
         /\ run'[r].input = "none" /\ run'[r].marked = run[r].marked
         /\ run'[r].cancelled = run[r].cancelled
<1>1. run[r].epoch \in Epoch /\ run[r].epoch + 1 \in Epoch
  BY Bounds DEF Claimable, RunRow, RunState
<1>2. run' = [run EXCEPT ![r].status = "running", ![r].wait = "none",
                          ![r].epoch = @ + 1, ![r].input = "none"]
  BY DEF ClaimRun
<1>3. run[r] \in RunState
  BY DEF RunRow
<1>4. run' = [run EXCEPT ![r] = Claimed(run[r], run[r].epoch + 1)]
  BY <1>2, <1>3 DEF Claimed, RunRow, RunState
<1> QED
  BY <1>1, <1>3, <1>4, Rows DEF RunRow

\* The input of the epoch changes.
LEMMA InputEffect ==
  ASSUME run \in RunRow, NEW r \in Run, NEW i \in {"dispatched", "unknown", "not_accepted", "accepted"},
         run' = [run EXCEPT ![r].input = i]
  PROVE  /\ run' \in RunRow /\ \A q \in Run : q # r => run'[q] = run[q]
         /\ run'[r].input = i /\ run'[r].status = run[r].status /\ run'[r].wait = run[r].wait
         /\ run'[r].epoch = run[r].epoch /\ run'[r].marked = run[r].marked
         /\ run'[r].cancelled = run[r].cancelled
BY DEF RunRow, RunState

\* An accepted input clears the failure.
LEMMA ProgressEffect ==
  ASSUME run \in RunRow, NEW r \in Run
  PROVE  /\ Progressed(r) \in RunRow /\ \A q \in Run : q # r => Progressed(r)[q] = run[q]
         /\ ~Progressed(r)[r].marked
         /\ Progressed(r)[r].status = run[r].status /\ Progressed(r)[r].wait = run[r].wait
         /\ Progressed(r)[r].epoch = run[r].epoch /\ Progressed(r)[r].input = run[r].input
         /\ Progressed(r)[r].cancelled = run[r].cancelled
BY ZenonT(40) DEF Progressed, RunRow, RunState

\* A network failure parks the run.
LEMMA MarkEffect ==
  ASSUME run \in RunRow, NEW r \in Run,
         run' = [run EXCEPT ![r].status = "waiting", ![r].wait = "network_recovery",
                            ![r].marked = TRUE, ![r].shown = TRUE]
  PROVE  /\ run' \in RunRow /\ \A q \in Run : q # r => run'[q] = run[q]
         /\ run'[r].status = "waiting" /\ run'[r].wait = "network_recovery" /\ run'[r].marked
         /\ run'[r].epoch = run[r].epoch /\ run'[r].input = run[r].input
         /\ run'[r].cancelled = run[r].cancelled
<1>1. run[r] \in RunState
  BY DEF RunRow
<1>2. run' = [run EXCEPT ![r] = Parked(run[r])]
  BY <1>1 DEF Parked, RunRow, RunState
<1>3. /\ Parked(run[r]) \in RunState /\ Parked(run[r]).status = "waiting"
      /\ Parked(run[r]).wait = "network_recovery" /\ Parked(run[r]).marked
      /\ Parked(run[r]).epoch = run[r].epoch /\ Parked(run[r]).input = run[r].input
      /\ Parked(run[r]).cancelled = run[r].cancelled
  BY <1>1, Rows
<1>4. /\ run' \in RunRow /\ \A q \in Run : q # r => run'[q] = run[q]
      /\ run'[r] = Parked(run[r])
  BY ZenonT(40), <1>2, <1>3 DEF RunRow
<1> QED
  BY <1>3, <1>4

\* What a start makes of a row.
LEMMA RecoveredEffect ==
  ASSUME run \in RunRow, NEW r \in Run
  PROVE  /\ Recovered(r) \in RunState
         /\ Recovered(r).epoch = run[r].epoch /\ Recovered(r).cancelled = run[r].cancelled
         /\ \/ Recovered(r).status = "ended" /\ run[r].status = "ended" /\ Recovered(r) = run[r]
            \/ /\ Recovered(r).status = "ended" /\ Recovered(r).wait = "none"
               /\ ~Recovered(r).marked
            \/ /\ Recovered(r).status = "waiting" /\ Recovered(r).wait = "runtime_recovery"
               /\ ~Recovered(r).marked /\ run[r].status # "ended"
            \/ /\ Recovered(r) = run[r] /\ run[r].status = "waiting"
               /\ run[r].wait # "network_recovery"
<1>1. run[r] \in RunState
  BY DEF RunRow
<1>2. EndedRow(r)[r] \in RunState
  BY EndedEffect DEF RunRow
<1>3. CASE run[r].status = "ended" \/ ~InputSafe(r)
  BY <1>1, <1>2, <1>3, EndedEffect DEF Recovered
<1>4. CASE run[r].status # "ended" /\ InputSafe(r) /\ (run[r].status = "running" \/ run[r].wait = "network_recovery")
  BY <1>1, <1>4 DEF Recovered, RunState, Wait
<1>5. CASE run[r].status # "ended" /\ InputSafe(r) /\ ~(run[r].status = "running" \/ run[r].wait = "network_recovery")
  BY <1>1, <1>5 DEF Recovered, RunState
<1> QED
  BY <1>3, <1>4, <1>5

\* A retry that is present has an epoch; nothing else has.
LEMMA EntryShape ==
  ASSUME entry \in QueueRow, NEW r \in Run
  PROVE  /\ entry[r].epoch \in Nat /\ entry[r].attempt \in Nat
         /\ entry[r].inFlight \in BOOLEAN /\ entry[r].woken \in BOOLEAN /\ entry[r].due \in BOOLEAN
         /\ entry[r] = NoEntry <=> entry[r].epoch = 0
         /\ entry[r] # NoEntry => entry[r] \in Entry
         /\ NoEntry.epoch = 0 /\ NoEntry.attempt = 0 /\ ~NoEntry.inFlight /\ ~NoEntry.woken
<1>1. entry[r] \in Entry \/ entry[r] = NoEntry
  BY DEF QueueRow
<1>2. /\ NoEntry.epoch = 0 /\ NoEntry.attempt = 0 /\ NoEntry.inFlight = FALSE
      /\ NoEntry.woken = FALSE /\ NoEntry.due = FALSE
  BY DEF NoEntry
<1>3. entry[r] \in Entry => /\ entry[r].epoch \in Nat \ {0} /\ entry[r].attempt \in Nat
                            /\ entry[r].inFlight \in BOOLEAN /\ entry[r].woken \in BOOLEAN
                            /\ entry[r].due \in BOOLEAN
  BY Bounds DEF Entry
<1>4. CASE entry[r] \in Entry
  <2>1. entry[r].epoch # 0 /\ entry[r] # NoEntry
    BY <1>2, <1>3, <1>4
  <2> QED
    BY <1>2, <1>3, <1>4, <2>1
<1>5. CASE entry[r] = NoEntry
  <2>1. /\ NoEntry.epoch \in Nat /\ NoEntry.attempt \in Nat /\ ~NoEntry.inFlight /\ ~NoEntry.woken
        /\ NoEntry.inFlight \in BOOLEAN /\ NoEntry.woken \in BOOLEAN /\ NoEntry.due \in BOOLEAN
    BY DEF NoEntry
  <2>2. entry[r] # NoEntry => entry[r] \in Entry
    BY <1>5
  <2> QED
    BY <1>2, <1>5, <2>1, <2>2
<1> QED
  BY <1>1, <1>4, <1>5

\* complete and complete_after_terminal take the retry out, or leave the queue alone.
LEMMA CompletedEffect ==
  ASSUME entry \in QueueRow, NEW r \in Run, NEW e
  PROVE  /\ Completed(r, e) \in QueueRow /\ CompletedAfterTerminal(r, e) \in QueueRow
         /\ \A q \in Run : q # r => /\ Completed(r, e)[q] = entry[q]
                                    /\ CompletedAfterTerminal(r, e)[q] = entry[q]
         /\ Completed(r, e)[r] = IF Contains(r, e) THEN NoEntry ELSE entry[r]
         /\ CompletedAfterTerminal(r, e)[r] \in {entry[r], NoEntry}
BY DEF Completed, CompletedAfterTerminal, QueueRow

\* defer_check leaves the retry for later.
LEMMA DeferredEffect ==
  ASSUME entry \in QueueRow, NEW r \in Run, NEW e
  PROVE  /\ Deferred(r, e) \in QueueRow
         /\ \A q \in Run : q # r => Deferred(r, e)[q] = entry[q]
         /\ Deferred(r, e)[r].epoch = entry[r].epoch
         /\ Deferred(r, e)[r].attempt = entry[r].attempt
         /\ Deferred(r, e)[r].woken = entry[r].woken
         /\ entry[r] = NoEntry => Deferred(r, e)[r] = NoEntry
         /\ ~(entry[r].epoch = e /\ entry[r].inFlight) => Deferred(r, e) = entry
         /\ entry[r].epoch = e => ~Deferred(r, e)[r].inFlight
<1>1. CASE entry[r].epoch = e /\ entry[r].inFlight
  <2>1. entry[r] # NoEntry /\ entry[r] \in Entry
    BY <1>1, EntryShape
  <2>2. Deferred(r, e) = [entry EXCEPT ![r].inFlight = FALSE, ![r].due = FALSE]
    BY <1>1 DEF Deferred
  <2>3. Deferred(r, e) = [entry EXCEPT ![r] = [entry[r] EXCEPT !.inFlight = FALSE, !.due = FALSE]]
    BY <2>1, <2>2 DEF QueueRow, Entry
  <2> DEFINE later == [entry[r] EXCEPT !.inFlight = FALSE, !.due = FALSE]
  <2>4. /\ later \in Entry /\ later.epoch = entry[r].epoch /\ later.attempt = entry[r].attempt
        /\ later.woken = entry[r].woken /\ ~later.inFlight
    BY <2>1 DEF Entry
  <2>5. Deferred(r, e) = [entry EXCEPT ![r] = later]
    BY <2>3
  <2> HIDE DEF later
  <2>6. /\ Deferred(r, e) \in QueueRow /\ Deferred(r, e)[r] = later
        /\ \A q \in Run : q # r => Deferred(r, e)[q] = entry[q]
    BY <2>4, <2>5 DEF QueueRow
  <2> QED
    BY <1>1, <2>1, <2>4, <2>6
<1>2. CASE ~(entry[r].epoch = e /\ entry[r].inFlight)
  <2>1. Deferred(r, e) = entry
    BY <1>2 DEF Deferred
  <2> QED
    BY <1>2, <2>1
<1> QED
  BY <1>1, <1>2

\* register begins the next attempt of a newer epoch.
LEMMA RegisteredEffect ==
  ASSUME entry \in QueueRow, NEW r \in Run, NEW e \in Epoch, entry[r].attempt <= entry[r].epoch
  PROVE  /\ Registered(r, e) \in QueueRow
         /\ \A q \in Run : q # r => Registered(r, e)[q] = entry[q]
         /\ entry[r].epoch >= e => Registered(r, e) = entry
         /\ ~(entry[r].epoch >= e) =>
              /\ Registered(r, e)[r].epoch = e
              /\ Registered(r, e)[r].attempt = entry[r].attempt + 1
              /\ Registered(r, e)[r].woken = entry[r].woken
              /\ ~Registered(r, e)[r].inFlight
              /\ Registered(r, e)[r].attempt <= e
<1>1. CASE ~(entry[r].epoch >= e)
  <2> DEFINE row == [epoch |-> e, attempt |-> entry[r].attempt + 1, due |-> FALSE,
                     inFlight |-> FALSE, woken |-> entry[r].woken]
  <2>1. entry[r].attempt \in Nat /\ entry[r].epoch \in Nat /\ e \in Nat /\ entry[r].woken \in BOOLEAN
    BY EntryShape, Bounds
  <2>2. entry[r].attempt + 1 <= e /\ entry[r].attempt + 1 \in Epoch
    BY <1>1, <2>1, Bounds DEF Epoch
  <2>3. row \in Entry
    BY <2>1, <2>2 DEF Entry
  <2>4. Registered(r, e) = [entry EXCEPT ![r] = row]
    BY <1>1 DEF Registered
  <2>5. Registered(r, e) \in QueueRow /\ \A q \in Run : q # r => Registered(r, e)[q] = entry[q]
    BY <2>3, <2>4 DEF QueueRow
  <2>6. Registered(r, e)[r] = row
    BY <2>4 DEF QueueRow
  <2> QED
    BY <1>1, <2>2, <2>5, <2>6
<1>2. CASE entry[r].epoch >= e
  BY <1>2 DEF Registered
<1> QED
  BY <1>1, <1>2

\* A delay, a hint and a check change neither the epoch nor the attempt.
LEMMA DueEffect ==
  ASSUME entry \in QueueRow, NEW r \in Run, Present(r), entry' = [entry EXCEPT ![r].due = TRUE]
  PROVE  /\ entry' \in QueueRow /\ \A q \in Run : q # r => entry'[q] = entry[q]
         /\ entry'[r].epoch = entry[r].epoch /\ entry'[r].attempt = entry[r].attempt
         /\ entry'[r].woken = entry[r].woken /\ entry'[r].inFlight = entry[r].inFlight
<1>1. entry[r] \in Entry
  BY DEF Present, QueueRow
<1> QED
  BY <1>1 DEF QueueRow, Entry

\* A wake-up hint is given to entries that have none yet; nothing else of an entry changes.
LEMMA WakeEffect ==
  ASSUME entry \in QueueRow, Wake
  PROVE  /\ entry' \in QueueRow
         /\ \A q \in Run :
              /\ entry'[q].epoch = entry[q].epoch /\ entry'[q].attempt = entry[q].attempt
              /\ entry'[q].inFlight = entry[q].inFlight
              /\ entry[q] = NoEntry => entry'[q] = NoEntry
              /\ \/ entry'[q].woken = entry[q].woken /\ hints'[q] = hints[q]
                 \/ ~entry[q].woken /\ entry'[q].woken /\ hints'[q] = hints[q] + 1
<1>1. ASSUME NEW q \in Wakeable
      PROVE  /\ entry'[q] \in Entry /\ entry'[q].epoch = entry[q].epoch
             /\ entry'[q].attempt = entry[q].attempt /\ entry'[q].inFlight = entry[q].inFlight
             /\ ~entry[q].woken /\ entry'[q].woken /\ entry[q] # NoEntry
  <2>1. q \in Run /\ entry[q] \in Entry /\ ~entry[q].woken /\ entry[q] # NoEntry
    BY DEF Wakeable, Present, QueueRow
  <2>2. entry'[q] = [entry[q] EXCEPT !.due = TRUE, !.woken = TRUE]
    BY <2>1 DEF Wake
  <2> QED
    BY <2>1, <2>2 DEF Entry
<1>2. ASSUME NEW q \in Run, q \notin Wakeable PROVE entry'[q] = entry[q]
  BY <1>2 DEF Wake
<1>3. \A q \in Run : hints'[q] = IF q \in Wakeable THEN hints[q] + 1 ELSE hints[q]
  BY DEF Wake
<1>4. entry' = [q \in Run |-> entry'[q]]
  BY DEF Wake
<1>5. \A q \in Run : entry'[q] \in Entry \cup {NoEntry}
  BY <1>1, <1>2 DEF QueueRow
<1>6. entry' \in QueueRow
  BY <1>4, <1>5 DEF QueueRow
<1> QED
  BY <1>1, <1>2, <1>3, <1>6

\* Entries that are due go to a worker each, which begins with the epoch of its entry.
LEMMA TakeDueEffect ==
  ASSUME entry \in QueueRow, TakeDue
  PROVE  /\ entry' \in QueueRow
         /\ \A q \in Run :
              /\ entry'[q].epoch = entry[q].epoch /\ entry'[q].attempt = entry[q].attempt
              /\ entry'[q].woken = entry[q].woken
              /\ entry[q] = NoEntry => entry'[q] = NoEntry
              /\ \/ worker'[q] = Idle /\ entry'[q] = entry[q]
                 \/ /\ worker'[q] = [at |-> "begin", epoch |-> entry[q].epoch]
                    /\ entry[q] # NoEntry
<1>1. ASSUME NEW q \in TakenDue
      PROVE  /\ entry'[q] \in Entry /\ entry'[q].epoch = entry[q].epoch
             /\ entry'[q].attempt = entry[q].attempt /\ entry'[q].woken = entry[q].woken
             /\ entry[q] # NoEntry
             /\ worker'[q] = [at |-> "begin", epoch |-> entry[q].epoch]
  <2>1. q \in Run /\ entry[q] \in Entry /\ entry[q] # NoEntry
    BY DEF TakenDue, Present, QueueRow
  <2>2. /\ entry'[q] = [entry[q] EXCEPT !.inFlight = TRUE]
        /\ worker'[q] = [at |-> "begin", epoch |-> entry[q].epoch]
    BY <2>1 DEF TakeDue
  <2> QED
    BY <2>1, <2>2 DEF Entry
<1>2. ASSUME NEW q \in Run, q \notin TakenDue PROVE entry'[q] = entry[q] /\ worker'[q] = Idle
  BY <1>2 DEF TakeDue
<1>3. entry' = [q \in Run |-> entry'[q]]
  BY DEF TakeDue
<1>4. \A q \in Run : entry'[q] \in Entry \cup {NoEntry}
  BY <1>1, <1>2 DEF QueueRow
<1>5. entry' \in QueueRow
  BY <1>3, <1>4 DEF QueueRow
<1> QED
  BY <1>1, <1>2, <1>5

-----------------------------------------------------------------------------
(* The epochs: whatever still refers to a run refers to its epoch or to an *)
(* older one, and what may move the run refers to its epoch.               *)

Under(r) == acp # NoEvent /\ acp.run = r

\* Nothing is ahead of the row; what is checked while the run is running is older than the
\* row; an epoch that is being launched is the last one, and so is one whose prompt is open.
EpochsKnown(r) ==
    /\ \A e \in Epoch : /\ task[r][e] # "none" => e <= run[r].epoch
                        /\ task[r][e] \in {"starting", "unsent"} =>
                              e = run[r].epoch /\ run[r].status # "waiting"
    /\ active[r].epoch <= run[r].epoch /\ host[r] <= run[r].epoch
    /\ entry[r].epoch <= run[r].epoch /\ worker[r].epoch <= run[r].epoch
    /\ entry[r].attempt <= entry[r].epoch
    /\ run[r].status = "running" => entry[r].epoch < run[r].epoch /\ worker[r].epoch < run[r].epoch
    /\ host[r] # 0 => task[r][host[r]] \notin {"none", "starting"}
    /\ prompt[r] \in {"unsent", "open"} => host[r] = run[r].epoch /\ run[r].status # "waiting"
    /\ prompt[r] = "open" => task[r][host[r]] # "unsent"

\* A run waits for something exactly while it is waiting, and an ended one shows no failure.
RowKnown(r) ==
    /\ run[r].wait # "none" <=> run[r].status = "waiting"
    /\ run[r].cancelled => run[r].status = "ended"
    /\ run[r].status = "ended" => ~run[r].marked

\* The event the loop is in the middle of is of the epoch of its run; only a failure that is
\* about to be registered leaves the run waiting, and the check is still that of an older epoch.
EventKnown(r) ==
    Under(r) =>
        /\ acp.epoch = run[r].epoch /\ task[r][acp.epoch] \notin {"none", "starting"}
        /\ acp.at # "lost" => task[r][acp.epoch] # "unsent"
        /\ acp.at \notin {"acked", "stopAccepted"} => prompt[r] \notin {"unsent", "open"}
        /\ acp.at \in {"acked", "stopAccepted"} =>
              run[r].status = "ended" \/ (run[r].status = "running" /\ run[r].input = "accepted")
        /\ acp.at \in {"release", "register"} =>
              /\ entry[r].epoch < run[r].epoch /\ worker[r].epoch < run[r].epoch
              /\ \/ run[r].status = "ended"
                 \/ run[r].status = "waiting" /\ run[r].wait = "network_recovery" /\ run[r].marked
        /\ acp.at \notin {"release", "register"} => run[r].status # "waiting"

\* A worker is not ahead of the check, and a run that may be dispatched again is the one of
\* the check and of the worker.
WorkerKnown(r) ==
    /\ worker[r] = Idle \/ entry[r] = NoEntry \/ worker[r].epoch <= entry[r].epoch
    /\ run[r].wait = "runtime_recovery" =>
          /\ entry[r] = NoEntry \/ entry[r].epoch = run[r].epoch
          /\ worker[r] = Idle \/ worker[r].epoch = run[r].epoch

RunKnown(r) == EpochsKnown(r) /\ RowKnown(r) /\ EventKnown(r) /\ WorkerKnown(r)

EpochInv ==
    /\ TypeOK /\ (coordinator = "stopped" => shutdown)
    /\ \A r \in Run : RunKnown(r)

\* The loop is in the middle of nothing, or of an event.
LEMMA Events ==
  /\ NoEvent.at = "idle" /\ NoEvent \notin Event
  /\ \A v \in Event : v # NoEvent /\ v.run \in Run /\ v.epoch \in Epoch /\ v.epoch \in Nat
<1>1. NoEvent.at = "idle"
  BY DEF NoEvent
<1>2. \A v \in Event : v.at # "idle" /\ v.run \in Run /\ v.epoch \in Epoch
  BY DEF Event
<1> QED
  BY <1>1, <1>2, Bounds

\* What TypeOK says of one run.
LEMMA Typed ==
  ASSUME TypeOK, NEW r \in Run
  PROVE  /\ run[r] \in RunState /\ run[r].epoch \in Epoch /\ run[r].epoch \in Nat
         /\ run[r].status \in {"running", "waiting", "ended"}
         /\ run[r].marked \in BOOLEAN /\ run[r].cancelled \in BOOLEAN
         /\ active[r].epoch \in Nat /\ host[r] \in {0} \cup Epoch /\ host[r] \in Nat
         /\ prompt[r] \in {"none", "unsent", "open", "closed", "dead"}
         /\ \A e \in Epoch : task[r][e] \in {"none", "starting", "unsent", "sent", "failing", "done"} /\ e \in Nat
         /\ worker[r].epoch \in Nat
         /\ worker[r].at \in {"none", "begin", "rejected", "admitted", "dispatched"}
         /\ worker[r].at = "none" <=> worker[r] = Idle
         /\ worker[r] # Idle => worker[r].epoch \in Epoch /\ worker[r] \in Worker
         /\ Idle.at = "none" /\ Idle.epoch = 0
         /\ failures[r] \in Nat /\ hints[r] \in Nat
         /\ overtaken[r] \in {0} \cup Epoch /\ deadRoute[r] \in {0} \cup Epoch
         /\ run \in RunRow /\ entry \in QueueRow
<1>1. /\ run \in RunRow /\ entry \in QueueRow /\ failures[r] \in Nat /\ hints[r] \in Nat
      /\ overtaken[r] \in {0} \cup Epoch /\ deadRoute[r] \in {0} \cup Epoch
      /\ host[r] \in {0} \cup Epoch /\ prompt[r] \in {"none", "unsent", "open", "closed", "dead"}
      /\ \A e \in Epoch : task[r][e] \in {"none", "starting", "unsent", "sent", "failing", "done"} /\ e \in Nat
  BY Bounds DEF TypeOK, RunRow, QueueRow
<1>2. run[r] \in RunState
  BY <1>1 DEF RunRow
<1>3. /\ run[r].epoch \in Epoch /\ run[r].epoch \in Nat
      /\ run[r].status \in {"running", "waiting", "ended"}
      /\ run[r].marked \in BOOLEAN /\ run[r].cancelled \in BOOLEAN
  BY <1>2, Bounds DEF RunState
<1>4. host[r] \in Nat
  BY <1>1, Bounds
<1>5. active[r].epoch \in Nat
  <2>1. active[r] \in [epoch : Epoch, bound : BOOLEAN] \/ active[r] = NotActive
    BY DEF TypeOK
  <2>2. NotActive.epoch \in Nat
    BY DEF NotActive
  <2> QED
    BY <2>1, <2>2, Bounds
<1>6. Idle.at = "none" /\ Idle.epoch = 0
  BY DEF Idle
<1>7. /\ worker[r].epoch \in Nat
      /\ worker[r].at \in {"none", "begin", "rejected", "admitted", "dispatched"}
      /\ worker[r].at = "none" <=> worker[r] = Idle
      /\ worker[r] # Idle => worker[r].epoch \in Epoch /\ worker[r] \in Worker
  <2>1. worker[r] \in Worker \/ worker[r] = Idle
    BY DEF TypeOK
  <2>2. worker[r] \in Worker =>
          /\ worker[r].epoch \in Epoch /\ worker[r].epoch \in Nat
          /\ worker[r].at \in {"begin", "rejected", "admitted", "dispatched"}
    BY Bounds DEF Worker
  <2> QED
    BY <1>6, <2>1, <2>2
<1> QED
  BY <1>1, <1>2, <1>3, <1>4, <1>5, <1>6, <1>7

\* The loop goes on with the event it handles.
LEMMA ContinuesEffect ==
  ASSUME acp \in Event,
         NEW stage \in {"stopAccepted", "release", "register", "stopTerminal", "settle"},
         Continues(stage)
  PROVE  /\ acp' \in Event /\ acp' # NoEvent /\ acp'.at = stage
         /\ acp'.run = acp.run /\ acp'.epoch = acp.epoch
BY Events DEF Continues, Event

\* The loop takes an event of a Host: it is of the epoch of the run.
LEMMA GoesEffect ==
  ASSUME TypeOK, NEW r \in Run, EpochsKnown(r), acp = NoEvent, prompt[r] \in {"unsent", "open"},
         NEW stage \in {"acked", "mark", "stopTerminal", "lost"}, Goes(r, stage)
  PROVE  /\ acp' \in Event /\ acp' # NoEvent /\ acp'.at = stage
         /\ acp'.run = r /\ acp'.epoch = run[r].epoch /\ host[r] = run[r].epoch
<1>1. host[r] = run[r].epoch /\ run[r].epoch \in Epoch /\ acp = NoEvent
  BY Typed DEF EpochsKnown
<1>2. acp' = [at |-> stage, run |-> r, epoch |-> run[r].epoch]
  BY <1>1 DEF Goes
<1>3. acp' \in Event
  BY <1>1, <1>2 DEF Event
<1> QED
  BY <1>1, <1>2, <1>3, Events

\* The execution of a run is bound to a newer epoch, or released.
LEMMA ReleasedEffect ==
  ASSUME TypeOK, NEW r \in Run, NEW e
  PROVE  /\ Released(r, e) \in [Run -> [epoch : Epoch, bound : BOOLEAN] \cup {NotActive}]
         /\ \A q \in Run : q # r => Released(r, e)[q] = active[q]
         /\ Released(r, e)[r].epoch \in {0, active[r].epoch}
         /\ ~run[r].cancelled /\ active[r].epoch = e => Released(r, e)[r].epoch = 0
         /\ run[r].cancelled \/ active[r].epoch # e => Released(r, e) = active
BY DEF Released, TypeOK, NotActive

\* A released worker, and one that moves on.
LEMMA WorkerEffect ==
  ASSUME TypeOK, NEW r \in Run, worker[r].at # "none"
  PROVE  /\ [worker EXCEPT ![r] = Idle] \in [Run -> Worker \cup {Idle}]
         /\ \A at \in {"begin", "rejected", "admitted", "dispatched"} :
               /\ [worker EXCEPT ![r].at = at] \in [Run -> Worker \cup {Idle}]
               /\ [worker EXCEPT ![r].at = at][r].epoch = worker[r].epoch
               /\ [worker EXCEPT ![r].at = at][r].at = at
<1>1. worker[r] \in Worker /\ worker \in [Run -> Worker \cup {Idle}]
  BY Typed DEF TypeOK
<1>2. ASSUME NEW at \in {"begin", "rejected", "admitted", "dispatched"}
      PROVE  /\ [worker EXCEPT ![r].at = at] \in [Run -> Worker \cup {Idle}]
             /\ [worker EXCEPT ![r].at = at][r].epoch = worker[r].epoch
             /\ [worker EXCEPT ![r].at = at][r].at = at
  BY <1>1, <1>2 DEF Worker
<1> QED
  BY <1>1, <1>2

\* The rows, the tasks and the queue stay in their types.
LEMMA TypeStep ==
  ASSUME TypeOK, \A r \in Run : RunKnown(r), [Next]_vars
  PROVE  TypeOK'
<1> USE DEF RunRow, QueueRow
<1>a. \A r \in Run : EpochsKnown(r) /\ EventKnown(r)
  BY DEF RunKnown
<1>b. run \in RunRow /\ entry \in QueueRow
  BY DEF TypeOK
<1>c. acp # NoEvent => acp \in Event /\ acp.run \in Run /\ acp.epoch \in Epoch
  BY Events DEF TypeOK
<1>d. NoEvent.at = "idle"
  BY Events
<1>0. CASE UNCHANGED vars
  BY <1>0 DEF TypeOK
<1>1. CASE Wake
  <2>a. hints \in [Run -> Nat]
    BY DEF TypeOK
  <2>b. hints' = [q \in Run |-> IF q \in Wakeable THEN hints[q] + 1 ELSE hints[q]]
    BY <1>1 DEF Wake
  <2>c. \A q \in Run : hints[q] \in Nat /\ hints[q] + 1 \in Nat
    BY <2>a
  <2>1. hints' \in [Run -> Nat]
    BY <2>b, <2>c
  <2> QED
    BY <1>1, <2>1, <1>b, WakeEffect DEF Wake, TypeOK
<1>2. CASE TakeDue
  <2>1. worker' \in [Run -> Worker \cup {Idle}]
    <3>1. \A q \in TakenDue : entry[q].epoch \in Epoch
      BY <1>b DEF TakenDue, Present, Entry
    <3>2. \A q \in TakenDue : [at |-> "begin", epoch |-> entry[q].epoch] \in Worker
      BY <3>1 DEF Worker
    <3> QED
      BY <1>2, <3>2 DEF TakeDue
  <2> QED
    BY <1>2, <2>1, <1>b, TakeDueEffect DEF TakeDue, TypeOK
<1>3. CASE CompleteAccepted
  <2>1. acp \in Event /\ acp.run \in Run
    BY <1>3, <1>c, <1>d DEF CompleteAccepted
  <2>2. run' \in RunRow
    BY <1>3, <1>b, <2>1, ProgressEffect DEF CompleteAccepted
  <2>3. acp' \in Event \cup {NoEvent}
    BY <1>3, <2>1, ContinuesEffect DEF CompleteAccepted
  <2>4. failures' \in [Run -> Nat] /\ hints' \in [Run -> Nat]
    BY <1>3, <2>1 DEF CompleteAccepted, TypeOK
  <2>5. overtaken' \in [Run -> {0} \cup Epoch]
    BY <1>3, <2>1 DEF CompleteAccepted, TypeOK
  <2> QED
    BY <1>3, <2>2, <2>3, <2>4, <2>5 DEF CompleteAccepted, TypeOK
<1>4. CASE StopAccepted
  <2>1. acp.run \in Run
    BY <1>4, <1>c, <1>d DEF StopAccepted
  <2> QED
    BY <1>4, <2>1, <1>b, CompletedEffect DEF StopAccepted, TypeOK
<1>5. CASE MarkForRecovery
  <2>1. acp \in Event /\ acp.run \in Run
    BY <1>5, <1>c, <1>d DEF MarkForRecovery
  <2>2. run' \in RunRow
    BY <1>5, <1>b, <2>1, MarkEffect DEF MarkForRecovery
  <2>3. acp' \in Event
    BY <1>5, <2>1, ContinuesEffect DEF MarkForRecovery
  <2>4. failures' \in [Run -> Nat]
    BY <1>5, <2>1 DEF MarkForRecovery, TypeOK
  <2> QED
    BY <1>5, <2>2, <2>3, <2>4 DEF MarkForRecovery, TypeOK
<1>6. CASE ReleaseMarked
  <2>1. acp \in Event /\ acp.run \in Run
    BY <1>6, <1>c, <1>d DEF ReleaseMarked
  <2>2. acp' \in Event
    BY <1>6, <2>1, ContinuesEffect DEF ReleaseMarked
  <2> QED
    BY <1>6, <2>1, <2>2, ReleasedEffect DEF ReleaseMarked, TypeOK
<1>7. CASE RegisterMarked
  <2>1. acp \in Event /\ acp.run \in Run /\ acp.epoch \in Epoch
    BY <1>7, <1>c, <1>d DEF RegisterMarked
  <2>2. entry[acp.run].attempt <= entry[acp.run].epoch
    BY <2>1, <1>a DEF EpochsKnown
  <2> QED
    BY <1>7, <1>b, <2>1, <2>2, RegisteredEffect DEF RegisterMarked, TypeOK
<1>8. CASE StopTerminal
  <2>1. acp \in Event /\ acp.run \in Run
    BY <1>8, <1>c, <1>d DEF StopTerminal
  <2>2. acp' \in Event
    BY <1>8, <2>1, ContinuesEffect DEF StopTerminal
  <2> QED
    BY <1>8, <2>1, <2>2, <1>b, CompletedEffect DEF StopTerminal, TypeOK
<1>9. CASE SettleTerminal \/ ReconcileLoss
  <2>1. acp.run \in Run
    BY <1>9, <1>c, <1>d DEF SettleTerminal, ReconcileLoss
  <2> QED
    BY <1>9, <1>b, <2>1, TerminalEffect, ReleasedEffect
    DEF SettleTerminal, ReconcileLoss, Settles, TypeOK
<1>10. CASE StartShutdown
  BY <1>10 DEF StartShutdown, TypeOK
<1>11. CASE StopCoordinator
  BY <1>11 DEF StopCoordinator, TypeOK
<1>12. CASE Restart
  <2>1. run' \in RunRow
    BY <1>12, <1>b, RecoveredEffect DEF Restart
  <2>2. task' \in [Run -> [Epoch -> {"none", "starting", "unsent", "sent", "failing", "done"}]]
    BY <1>12 DEF Restart
  <2>3. restarts' \in 0 .. MaxRestart
    BY <1>12, BoundsAssumption DEF Restart, TypeOK
  <2>4. /\ active' \in [Run -> [epoch : Epoch, bound : BOOLEAN] \cup {NotActive}]
        /\ host' \in [Run -> {0} \cup Epoch]
        /\ prompt' \in [Run -> {"none", "unsent", "open", "closed", "dead"}]
        /\ acp' = NoEvent /\ entry' \in QueueRow /\ worker' \in [Run -> Worker \cup {Idle}]
        /\ coordinator' = "running" /\ shutdown' = FALSE /\ allowed' = allowed
        /\ failures' \in [Run -> Nat] /\ hints' \in [Run -> Nat]
        /\ overtaken' \in [Run -> {0} \cup Epoch] /\ deadRoute' \in [Run -> {0} \cup Epoch]
    BY <1>12 DEF Restart
  <2> QED
    BY <2>1, <2>2, <2>3, <2>4 DEF TypeOK
<1>20. ASSUME NEW r \in Run PROVE DelayPasses(r) => TypeOK'
  BY <1>b, DueEffect DEF DelayPasses, TypeOK
<1>21. ASSUME NEW r \in Run PROVE BeginAttempt(r) => TypeOK'
  <2> SUFFICES ASSUME BeginAttempt(r) PROVE TypeOK'
    OBVIOUS
  <2>1. run' \in RunRow
    BY <1>b, ArmedEffect DEF BeginAttempt
  <2>2. worker' \in [Run -> Worker \cup {Idle}]
    BY WorkerEffect DEF BeginAttempt
  <2> QED
    BY <2>1, <2>2 DEF BeginAttempt, TypeOK
<1>22. ASSUME NEW r \in Run PROVE CheckFails(r) => TypeOK'
  <2> SUFFICES ASSUME CheckFails(r) PROVE TypeOK'
    OBVIOUS
  <2>1. entry' \in QueueRow
    BY <1>b, DeferredEffect DEF CheckFails
  <2>2. worker' \in [Run -> Worker \cup {Idle}]
    BY WorkerEffect DEF CheckFails
  <2> QED
    BY <2>1, <2>2 DEF CheckFails, TypeOK
<1>23. ASSUME NEW r \in Run, Claimable(r), ClaimRun(r)
       PROVE  /\ run' \in RunRow
              /\ active' \in [Run -> [epoch : Epoch, bound : BOOLEAN] \cup {NotActive}]
              /\ task' \in [Run -> [Epoch -> {"none", "starting", "unsent", "sent", "failing", "done"}]]
  <2>1. run' \in RunRow /\ run[r].epoch + 1 \in Epoch
    BY <1>b, <1>23, ClaimEffect
  <2>2. active' \in [Run -> [epoch : Epoch, bound : BOOLEAN] \cup {NotActive}]
    BY <1>23, <2>1 DEF ClaimRun, TypeOK
  <2>3. task' \in [Run -> [Epoch -> {"none", "starting", "unsent", "sent", "failing", "done"}]]
    BY <1>23, <2>1 DEF ClaimRun, TypeOK
  <2> QED
    BY <2>1, <2>2, <2>3
<1>24. ASSUME NEW r \in Run PROVE DispatchClaims(r) => TypeOK'
  <2> SUFFICES ASSUME DispatchClaims(r) PROVE TypeOK'
    OBVIOUS
  <2>1. worker' \in [Run -> Worker \cup {Idle}]
    BY WorkerEffect DEF DispatchClaims, DispatchTurn
  <2> QED
    BY <1>23, <2>1 DEF DispatchClaims, TypeOK
<1>25. ASSUME NEW r \in Run PROVE DispatchRejects(r) => TypeOK'
  <2> SUFFICES ASSUME DispatchRejects(r) PROVE TypeOK'
    OBVIOUS
  <2>1. worker' \in [Run -> Worker \cup {Idle}]
    BY WorkerEffect DEF DispatchRejects, DispatchTurn
  <2> QED
    BY <1>b, <2>1, EndedEffect DEF DispatchRejects, TypeOK
<1>26. ASSUME NEW r \in Run PROVE DispatchDefers(r) => TypeOK'
  <2> SUFFICES ASSUME DispatchDefers(r) PROVE TypeOK'
    OBVIOUS
  <2>1. worker' \in [Run -> Worker \cup {Idle}]
    BY WorkerEffect DEF DispatchDefers, DispatchTurn
  <2> QED
    BY <2>1 DEF DispatchDefers, TypeOK
<1>27. ASSUME NEW r \in Run PROVE SchedulerClaims(r) => TypeOK'
  BY <1>23 DEF SchedulerClaims, TypeOK
<1>28. ASSUME NEW r \in Run PROVE FinishDispatch(r) \/ FinishUnread(r) => TypeOK'
  <2> SUFFICES ASSUME FinishDispatch(r) \/ FinishUnread(r) PROVE TypeOK'
    OBVIOUS
  <2>1. entry' \in QueueRow
    BY <1>b, DeferredEffect, CompletedEffect DEF FinishDispatch, FinishUnread, FinishedDispatch
  <2>2. FinishTurn(r)
    BY DEF FinishDispatch, FinishUnread
  <2>3. worker' \in [Run -> Worker \cup {Idle}]
    BY <2>2, WorkerEffect DEF FinishTurn
  <2> QED
    BY <2>1, <2>2, <2>3 DEF FinishTurn, TypeOK
<1>29. ASSUME NEW r \in Run PROVE InputAccepted(r) => TypeOK'
  <2> SUFFICES ASSUME InputAccepted(r) PROVE TypeOK'
    OBVIOUS
  <2>1. run' \in RunRow
    BY <1>b, InputEffect DEF InputAccepted
  <2>2. acp' \in Event
    BY <1>a, GoesEffect DEF InputAccepted, Answers
  <2> QED
    BY <2>1, <2>2 DEF InputAccepted, TypeOK
<1>30. ASSUME NEW r \in Run, PromptEnds(r)
       PROVE  /\ prompt' \in [Run -> {"none", "unsent", "open", "closed", "dead"}] /\ host' \in [Run -> {0} \cup Epoch]
              /\ UNCHANGED <<allowed, active, task, queue, life, history>>
  BY <1>30 DEF PromptEnds, TypeOK
<1>31. ASSUME NEW r \in Run PROVE NetworkTerminal(r) => TypeOK'
  <2> SUFFICES ASSUME NetworkTerminal(r) PROVE TypeOK'
    OBVIOUS
  <2>1. run' \in RunRow
    BY <1>b, InputEffect DEF NetworkTerminal
  <2>2. acp' \in Event
    BY <1>a, GoesEffect DEF NetworkTerminal, Answers
  <2> QED
    BY <1>30, <2>1, <2>2 DEF NetworkTerminal, TypeOK
<1>32. ASSUME NEW r \in Run PROVE OtherTerminal(r) => TypeOK'
  <2> SUFFICES ASSUME OtherTerminal(r) PROVE TypeOK'
    OBVIOUS
  <2>1. acp' \in Event
    BY <1>a, GoesEffect DEF OtherTerminal, Answers
  <2> QED
    BY <1>30, <2>1 DEF OtherTerminal, TypeOK
<1>33. ASSUME NEW r \in Run PROVE HostExits(r) => TypeOK'
  <2> SUFFICES ASSUME HostExits(r) PROVE TypeOK'
    OBVIOUS
  <2>1. acp' \in Event \cup {NoEvent}
    BY <1>a, GoesEffect DEF HostExits, TypeOK
  <2>2. entry' \in QueueRow
    BY <1>b, CompletedEffect DEF HostExits
  <2>3. prompt' \in [Run -> {"none", "unsent", "open", "closed", "dead"}] /\ host' \in [Run -> {0} \cup Epoch]
    BY DEF HostExits, TypeOK
  <2> QED
    BY <2>1, <2>2, <2>3 DEF HostExits, TypeOK
<1>34. ASSUME NEW r \in Run PROVE Cancel(r) => TypeOK'
  BY <1>b, CancelEffect DEF Cancel, TypeOK
<1>35. ASSUME NEW r \in Run PROVE CleanupStop(r) => TypeOK'
  <2> SUFFICES ASSUME CleanupStop(r) PROVE TypeOK'
    OBVIOUS
  <2>1. entry' \in QueueRow
    BY <1>b, CompletedEffect DEF CleanupStop
  <2>2. /\ prompt' \in [Run -> {"none", "unsent", "open", "closed", "dead"}]
        /\ host' \in [Run -> {0} \cup Epoch]
        /\ active' \in [Run -> [epoch : Epoch, bound : BOOLEAN] \cup {NotActive}]
    BY DEF CleanupStop, TypeOK
  <2> QED
    BY <2>1, <2>2 DEF CleanupStop, TypeOK
<1>36. ASSUME NEW r \in Run PROVE Revoke(r) => TypeOK'
  BY DEF Revoke, TypeOK
<1>40. ASSUME NEW r \in Run, NEW e \in Epoch, FailClaimed(r, e)
       PROVE  /\ entry' \in QueueRow /\ UNCHANGED <<run, active>>
              /\ task' \in [Run -> [Epoch -> {"none", "starting", "unsent", "sent", "failing", "done"}]]
  BY <1>40, <1>b, CompletedEffect DEF FailClaimed, TypeOK
<1>41. ASSUME NEW r \in Run, NEW e \in Epoch PROVE LaunchFails(r, e) => TypeOK'
  BY <1>40 DEF LaunchFails, TypeOK
<1>42. ASSUME NEW r \in Run, NEW e \in Epoch PROVE PersistFailure(r, e) => TypeOK'
  BY <1>b, TerminalEffect, ReleasedEffect DEF PersistFailure, TypeOK
<1>43. ASSUME NEW r \in Run, NEW e \in Epoch PROVE SendPrompt(r, e) \/ PromptUnsent(r, e) => TypeOK'
  <2> SUFFICES ASSUME NEW i \in {"dispatched", "unknown"}, NEW o \in {"open", "unsent"},
                      NEW t \in {"sent", "unsent"}, Prompted(r, e, i, o, t)
               PROVE  TypeOK'
    BY DEF SendPrompt, PromptUnsent
  <2>1. run' \in RunRow
    BY <1>b, InputEffect DEF Prompted
  <2>2. /\ prompt' \in [Run -> {"none", "unsent", "open", "closed", "dead"}]
        /\ host' \in [Run -> {0} \cup Epoch]
        /\ task' \in [Run -> [Epoch -> {"none", "starting", "unsent", "sent", "failing", "done"}]]
    BY DEF Prompted, TypeOK
  <2> QED
    BY <2>1, <2>2 DEF Prompted, TypeOK
<1>44. ASSUME NEW r \in Run, NEW e \in Epoch PROVE Handoff(r, e) => TypeOK'
  <2> SUFFICES ASSUME Handoff(r, e) PROVE TypeOK'
    OBVIOUS
  <2>1. CASE active[r].epoch = e
    <3>1. active[r] \in [epoch : Epoch, bound : BOOLEAN]
      BY <2>1, Bounds DEF TypeOK, NotActive
    <3>2. BoundRow(active[r]) \in [epoch : Epoch, bound : BOOLEAN]
      BY <3>1 DEF BoundRow
    <3>3. active \in [Run -> [epoch : Epoch, bound : BOOLEAN] \cup {NotActive}]
      BY DEF TypeOK
    <3>4. active' = [active EXCEPT ![r] = BoundRow(active[r])]
      BY <2>1, <3>1 DEF Handoff, BoundRow
    <3>5. active' \in [Run -> [epoch : Epoch, bound : BOOLEAN] \cup {NotActive}]
      BY <3>2, <3>3, <3>4
    <3>a. task' = [task EXCEPT ![r][e] = "done"]
      BY <2>1 DEF Handoff
    <3>b. task \in [Run -> [Epoch -> {"none", "starting", "unsent", "sent", "failing", "done"}]]
      BY DEF TypeOK
    <3>6. task' \in [Run -> [Epoch -> {"none", "starting", "unsent", "sent", "failing", "done"}]]
      BY <3>a, <3>b
    <3>7. deadRoute' \in [Run -> {0} \cup Epoch] /\ overtaken' = overtaken
      <4>1. PICK n \in {0} \cup Epoch : deadRoute' = [deadRoute EXCEPT ![r] = n]
        BY <2>1 DEF Handoff, TypeOK
      <4> QED
        BY <2>1, <4>1 DEF Handoff, TypeOK
    <3> QED
      BY <2>1, <3>5, <3>6, <3>7 DEF Handoff, TypeOK
  <2>2. CASE active[r].epoch # e
    <3>1. overtaken' \in [Run -> {0} \cup Epoch] /\ deadRoute' = deadRoute
      BY <2>2 DEF Handoff, TypeOK
    <3> QED
      BY <1>40, <2>2, <3>1 DEF Handoff, TypeOK
  <2> QED
    BY <2>1, <2>2
<1>45. ASSUME NEW r \in Run, NEW e \in Epoch PROVE LaunchCancelled(r, e) => TypeOK'
  BY DEF LaunchCancelled, TypeOK
<1> QED
  BY <1>0, <1>1, <1>2, <1>3, <1>4, <1>5, <1>6, <1>7, <1>8, <1>9, <1>10, <1>11, <1>12,
     <1>20, <1>21, <1>22, <1>24, <1>25, <1>26, <1>27, <1>28, <1>29, <1>31, <1>32, <1>33,
     <1>34, <1>35, <1>36, <1>41, <1>42, <1>43, <1>44, <1>45 DEF Next

-----------------------------------------------------------------------------
(* A step is about one run, except a hint, a round of the coordinator, its *)
(* stop and a restart.                                                     *)

\* Nothing that is known of a run is changed by the step.
Same(q) ==
    /\ run'[q] = run[q] /\ active'[q] = active[q] /\ task'[q] = task[q]
    /\ host'[q] = host[q] /\ prompt'[q] = prompt[q]
    /\ entry'[q] = entry[q] /\ worker'[q] = worker[q]
    /\ failures'[q] = failures[q] /\ hints'[q] = hints[q]
    /\ overtaken'[q] = overtaken[q] /\ deadRoute'[q] = deadRoute[q]
    /\ acp' = acp \/ (~Under(q) /\ ~Under(q)')
    /\ coordinator' = coordinator /\ (shutdown => shutdown') /\ restarts' = restarts

LoopStep ==
    \/ CompleteAccepted \/ StopAccepted \/ MarkForRecovery \/ ReleaseMarked \/ RegisterMarked
    \/ StopTerminal \/ SettleTerminal \/ ReconcileLoss

LaunchStep(q, e) ==
    \/ LaunchFails(q, e) \/ PersistFailure(q, e) \/ SendPrompt(q, e) \/ PromptUnsent(q, e)
    \/ Handoff(q, e) \/ LaunchCancelled(q, e)

RunStep(q) ==
    \/ DelayPasses(q) \/ BeginAttempt(q) \/ CheckFails(q) \/ DispatchClaims(q)
    \/ DispatchRejects(q) \/ DispatchDefers(q) \/ SchedulerClaims(q) \/ FinishDispatch(q)
    \/ FinishUnread(q) \/ InputAccepted(q) \/ NetworkTerminal(q) \/ OtherTerminal(q) \/ HostExits(q)
    \/ Cancel(q) \/ CleanupStop(q) \/ \E e \in Epoch : LaunchStep(q, e)

\* What a step is for one run: nothing at all, a step of the event loop or of the run itself, or a
\* step that is taken for all runs at once.
LEMMA Focus ==
  ASSUME TypeOK, \A r \in Run : RunKnown(r), NEW q \in Run, [Next]_vars
  PROVE  \/ Same(q) \/ (LoopStep /\ acp.run = q) \/ RunStep(q)
         \/ Wake \/ TakeDue \/ StopCoordinator \/ Restart
<1>b. run \in RunRow /\ entry \in QueueRow
  BY DEF TypeOK, RunRow, QueueRow
<1>c. acp # NoEvent => acp \in Event /\ acp.run \in Run /\ acp.epoch \in Epoch
  BY Events DEF TypeOK
<1>d. NoEvent.at = "idle"
  BY Events
<1>e. /\ worker \in [Run -> Worker \cup {Idle}] /\ DOMAIN worker = Run /\ DOMAIN active = Run
      /\ DOMAIN task = Run /\ DOMAIN host = Run /\ DOMAIN prompt = Run /\ DOMAIN entry = Run
      /\ DOMAIN failures = Run /\ DOMAIN hints = Run /\ DOMAIN run = Run
      /\ DOMAIN overtaken = Run /\ DOMAIN deadRoute = Run
  BY DEF TypeOK
<1>0. CASE UNCHANGED vars
  BY <1>0 DEF Same
<1>1. CASE LoopStep /\ acp.run # q
  <2>1. acp # NoEvent /\ acp \in Event /\ acp.run \in Run /\ acp.epoch \in Epoch
    BY <1>1, <1>c, <1>d DEF LoopStep, CompleteAccepted, StopAccepted, MarkForRecovery,
       ReleaseMarked, RegisterMarked, StopTerminal, SettleTerminal, ReconcileLoss
  <2>2. ~Under(q)
    BY <1>1 DEF Under
  <2>3. \A stage \in {"stopAccepted", "release", "register", "stopTerminal", "settle"} :
            Continues(stage) => ~Under(q)'
    BY <1>1, <2>1, ContinuesEffect DEF Under
  <2>4. acp' = NoEvent => ~Under(q)'
    BY DEF Under
  <2>5. entry[acp.run].attempt <= entry[acp.run].epoch
    BY <2>1 DEF RunKnown, EpochsKnown
  <2>6. CASE CompleteAccepted
    <3>1. run'[q] = run[q]
      BY <1>1, <1>b, <2>1, <2>6, ProgressEffect DEF CompleteAccepted
    <3>2. failures'[q] = failures[q] /\ hints'[q] = hints[q] /\ overtaken'[q] = overtaken[q]
      BY <1>1, <1>e, <2>6 DEF CompleteAccepted
    <3> QED
      BY <2>2, <2>3, <2>4, <2>6, <3>1, <3>2 DEF CompleteAccepted, Same
  <2>7. CASE StopAccepted
    BY <1>1, <1>b, <2>1, <2>2, <2>4, <2>7, CompletedEffect DEF StopAccepted, Same
  <2>8. CASE MarkForRecovery
    <3>1. run'[q] = run[q]
      BY <1>1, <1>b, <2>1, <2>8, MarkEffect DEF MarkForRecovery
    <3>2. failures'[q] = failures[q]
      BY <1>1, <1>e, <2>8 DEF MarkForRecovery
    <3> QED
      BY <2>2, <2>3, <2>8, <3>1, <3>2 DEF MarkForRecovery, Same
  <2>9. CASE ReleaseMarked
    BY <1>1, <2>1, <2>2, <2>3, <2>9, ReleasedEffect DEF ReleaseMarked, Same
  <2>10. CASE RegisterMarked
    BY <1>1, <1>b, <2>1, <2>2, <2>4, <2>5, <2>10, RegisteredEffect DEF RegisterMarked, Same
  <2>11. CASE StopTerminal
    BY <1>1, <1>b, <2>1, <2>2, <2>3, <2>11, CompletedEffect DEF StopTerminal, Same
  <2>12. CASE SettleTerminal \/ ReconcileLoss
    BY <1>1, <1>b, <2>1, <2>2, <2>4, <2>12, TerminalEffect, ReleasedEffect
    DEF SettleTerminal, ReconcileLoss, Settles, Same
  <2> QED
    BY <1>1, <2>6, <2>7, <2>8, <2>9, <2>10, <2>11, <2>12 DEF LoopStep
<1>2. CASE StartShutdown
  BY <1>2 DEF StartShutdown, Same
<1>3. ASSUME NEW r \in Run, r # q, RunStep(r) \/ Revoke(r)
      PROVE  Same(q)
  <2>1. EpochsKnown(r)
    BY DEF RunKnown
  <2>2. \A stage \in {"acked", "mark", "stopTerminal", "lost"} :
            acp = NoEvent /\ prompt[r] \in {"unsent", "open"} /\ Goes(r, stage)
              => ~Under(q) /\ ~Under(q)'
    BY <1>3, <2>1, GoesEffect DEF Under
  <2>3. CASE DelayPasses(r)
    BY <1>3, <1>b, <2>3, DueEffect DEF DelayPasses, Same
  <2>4. CASE BeginAttempt(r)
    BY <1>3, <1>b, <1>e, <2>4, ArmedEffect DEF BeginAttempt, Same
  <2>5. CASE CheckFails(r)
    BY <1>3, <1>b, <1>e, <2>5, DeferredEffect DEF CheckFails, Same
  <2>6. ASSUME Claimable(r), ClaimRun(r)
        PROVE  run'[q] = run[q] /\ active'[q] = active[q] /\ task'[q] = task[q]
    BY <1>3, <1>b, <1>e, <2>6, ClaimEffect DEF ClaimRun
  <2>7. CASE DispatchClaims(r)
    BY <1>3, <1>e, <2>6, <2>7 DEF DispatchClaims, Same
  <2>8. CASE DispatchRejects(r)
    BY <1>3, <1>b, <1>e, <2>8, EndedEffect DEF DispatchRejects, Same
  <2>9. CASE DispatchDefers(r)
    BY <1>3, <1>e, <2>9 DEF DispatchDefers, Same
  <2>10. CASE SchedulerClaims(r)
    BY <2>6, <2>10 DEF SchedulerClaims, Same
  <2>11. CASE FinishDispatch(r) \/ FinishUnread(r)
    <3>1. entry'[q] = entry[q]
      BY <1>3, <1>b, <2>11, DeferredEffect, CompletedEffect
      DEF FinishDispatch, FinishUnread, FinishedDispatch
    <3>2. FinishTurn(r)
      BY <2>11 DEF FinishDispatch, FinishUnread
    <3> QED
      BY <1>3, <1>e, <3>1, <3>2 DEF FinishTurn, Same
  <2>12. CASE InputAccepted(r)
    BY <1>3, <1>b, <2>2, <2>12, InputEffect DEF InputAccepted, Answers, Same
  <2>13. ASSUME PromptEnds(r)
         PROVE  /\ prompt'[q] = prompt[q] /\ host'[q] = host[q]
                /\ UNCHANGED <<allowed, active, task, queue, life, history>>
    BY <1>3, <1>e, <2>13 DEF PromptEnds
  <2>14. CASE NetworkTerminal(r)
    BY <1>3, <1>b, <2>2, <2>13, <2>14, InputEffect DEF NetworkTerminal, Answers, Same
  <2>15. CASE OtherTerminal(r)
    BY <1>3, <2>2, <2>13, <2>15 DEF OtherTerminal, Answers, Same
  <2>16. CASE HostExits(r)
    <3>1. prompt'[q] = prompt[q] /\ host'[q] = host[q]
      BY <1>3, <1>e, <2>16 DEF HostExits
    <3>2. entry'[q] = entry[q]
      BY <1>3, <1>b, <2>16, CompletedEffect DEF HostExits
    <3>3. acp' = acp \/ (~Under(q) /\ ~Under(q)')
      BY <2>2, <2>16 DEF HostExits
    <3> QED
      BY <2>16, <3>1, <3>2, <3>3 DEF HostExits, Same
  <2>17. CASE Cancel(r)
    BY <1>3, <1>b, <2>17, CancelEffect DEF Cancel, Same
  <2>18. CASE CleanupStop(r)
    BY <1>3, <1>b, <1>e, <2>18, CompletedEffect DEF CleanupStop, Same
  <2>19. CASE Revoke(r)
    BY <2>19 DEF Revoke, Same
  <2>20. ASSUME NEW e \in Epoch, LaunchStep(r, e)
         PROVE  Same(q)
    <3>1. ASSUME FailClaimed(r, e)
          PROVE  entry'[q] = entry[q] /\ task'[q] = task[q] /\ UNCHANGED <<run, active>>
      BY <1>3, <1>b, <1>e, <3>1, CompletedEffect DEF FailClaimed
    <3>2. CASE LaunchFails(r, e)
      BY <3>1, <3>2 DEF LaunchFails, Same
    <3>3. CASE PersistFailure(r, e)
      BY <1>3, <1>b, <1>e, <3>3, TerminalEffect, ReleasedEffect DEF PersistFailure, Same
    <3>4. CASE SendPrompt(r, e) \/ PromptUnsent(r, e)
      BY <1>3, <1>b, <1>e, <3>4, InputEffect DEF SendPrompt, PromptUnsent, Prompted, Same
    <3>5. CASE Handoff(r, e)
      <4>1. CASE active[r].epoch = e
        <5>1. active'[q] = active[q]
          BY <1>3, <1>e, <3>5, <4>1 DEF Handoff
        <5>2. task'[q] = task[q]
          BY <1>3, <1>e, <3>5, <4>1 DEF Handoff
        <5>3. deadRoute'[q] = deadRoute[q]
          BY <1>3, <1>e, <3>5, <4>1 DEF Handoff
        <5> QED
          BY <3>5, <4>1, <5>1, <5>2, <5>3 DEF Handoff, Same
      <4>2. CASE active[r].epoch # e
        <5>1. overtaken'[q] = overtaken[q]
          BY <1>3, <1>e, <3>5, <4>2 DEF Handoff
        <5> QED
          BY <3>1, <3>5, <4>2, <5>1 DEF Handoff, Same
      <4> QED
        BY <4>1, <4>2
    <3>6. CASE LaunchCancelled(r, e)
      BY <1>3, <1>e, <3>6 DEF LaunchCancelled, Same
    <3> QED
      BY <2>20, <3>2, <3>3, <3>4, <3>5, <3>6 DEF LaunchStep
  <2> QED
    BY <1>3, <2>3, <2>4, <2>5, <2>7, <2>8, <2>9, <2>10, <2>11, <2>12, <2>14, <2>15, <2>16,
       <2>17, <2>18, <2>19, <2>20 DEF RunStep
<1>4. ASSUME Revoke(q) PROVE Same(q)
  BY <1>4 DEF Revoke, Same
<1> QED
  BY <1>0, <1>1, <1>2, <1>3, <1>4 DEF Next, LoopStep, RunStep, LaunchStep

\* What is known of a run is kept by the steps of its own, ...
LEMMA RunStepKnown ==
  ASSUME TypeOK, NEW q \in Run, RunKnown(q),
         RunStep(q), \A e \in Epoch : ~LaunchStep(q, e)
  PROVE  RunKnown(q)'
<1>a. /\ run \in RunRow /\ entry \in QueueRow /\ DOMAIN worker = Run /\ DOMAIN active = Run
      /\ DOMAIN host = Run /\ DOMAIN prompt = Run
      /\ task \in [Run -> [Epoch -> {"none", "starting", "unsent", "sent", "failing", "done"}]]
      /\ EpochsKnown(q) /\ (worker[q].at = "none" <=> worker[q] = Idle)
      /\ worker[q].at \in {"none", "begin", "rejected", "admitted", "dispatched"}
  BY Typed DEF TypeOK, RunRow, QueueRow, RunKnown
<1>b. /\ EpochsKnown(q) /\ RowKnown(q) /\ EventKnown(q) /\ WorkerKnown(q)
      /\ NoEntry.epoch = 0 /\ NoEntry.attempt = 0 /\ Idle.epoch = 0 /\ NoEvent.at = "idle"
      /\ run[q].epoch \in Epoch /\ run[q].epoch \in Nat /\ \A n \in Epoch : n \in Nat /\ n # 0
      /\ active[q].epoch \in Nat /\ host[q] \in {0} \cup Epoch /\ host[q] \in Nat
      /\ entry[q].epoch \in Nat /\ entry[q].attempt \in Nat /\ worker[q].epoch \in Nat
      /\ run[q].status \in {"running", "waiting", "ended"}
      /\ entry[q] = NoEntry <=> entry[q].epoch = 0
  BY Typed, EntryShape, Bounds, Events DEF RunKnown
<1> SUFFICES EpochsKnown(q)' /\ RowKnown(q)' /\ EventKnown(q)' /\ WorkerKnown(q)'
  BY DEF RunKnown
<1>1. CASE DelayPasses(q)
  <2>0. /\ entry'[q].epoch = entry[q].epoch /\ entry'[q].attempt = entry[q].attempt
        /\ entry[q] # NoEntry
        /\ UNCHANGED <<run, active, task, host, prompt, acp, worker>>
    <3>1. Present(q) /\ entry' = [entry EXCEPT ![q].due = TRUE]
          /\ UNCHANGED <<run, active, task, host, prompt, acp, worker>>
      BY <1>1 DEF DelayPasses
    <3> QED
      BY <3>1, <1>a, DueEffect DEF Present
  <2> QED
    BY <2>0, <1>a, <1>b DEF EpochsKnown, RowKnown, EventKnown, WorkerKnown, Under
<1>2. CASE BeginAttempt(q)
  <2>0. /\ \/ Armable(q, worker[q].epoch) /\ run'[q].status = run[q].status
              /\ run'[q].wait \in {"runtime_recovery", "network_recovery_blocked"}
           \/ ~Armable(q, worker[q].epoch) /\ run' = run
        /\ run'[q].epoch = run[q].epoch /\ run'[q].marked = run[q].marked
        /\ run'[q].cancelled = run[q].cancelled
        /\ worker[q] # Idle /\ worker'[q].epoch = worker[q].epoch
        /\ UNCHANGED <<active, task, host, prompt, acp, entry>>
    BY <1>2, <1>a, ArmedEffect, WorkerEffect DEF BeginAttempt
  <2>1. EpochsKnown(q)'
    BY <2>0, <1>b DEF EpochsKnown, Armable, Loads
  <2>2. RowKnown(q)'
    BY <2>0, <1>b DEF RowKnown, Armable, Loads
  <2>3. EventKnown(q)'
    BY <2>0, <1>b DEF EventKnown, Under, Armable, Loads
  <2>4. WorkerKnown(q)'
    BY <2>0, <1>b DEF WorkerKnown, EpochsKnown, Armable, Loads
  <2> QED
    BY <2>1, <2>2, <2>3, <2>4
<1>3. CASE CheckFails(q)
  <2>0. /\ entry'[q].epoch = entry[q].epoch /\ entry'[q].attempt = entry[q].attempt
        /\ entry[q] = NoEntry => entry'[q] = NoEntry
        /\ worker'[q] = Idle
        /\ UNCHANGED <<run, active, task, host, prompt, acp>>
    BY <1>3, <1>a, DeferredEffect DEF CheckFails
  <2> QED
    BY <2>0, <1>a, <1>b DEF EpochsKnown, RowKnown, EventKnown, WorkerKnown, Under
<1>4. CASE DispatchClaims(q)
  <2>0. /\ run'[q].status = "running" /\ run'[q].wait = "none" /\ run'[q].epoch = run[q].epoch + 1
        /\ run[q].epoch + 1 \in Epoch /\ run'[q].marked = run[q].marked
        /\ run'[q].cancelled = run[q].cancelled
        /\ run[q].status = "waiting" /\ run[q].wait = "runtime_recovery"
        /\ active'[q].epoch = run[q].epoch + 1
        /\ \A e \in Epoch : task'[q][e] = IF e = run[q].epoch + 1 THEN "starting" ELSE task[q][e]
        /\ worker'[q].epoch = worker[q].epoch /\ worker[q] # Idle
        /\ UNCHANGED <<host, prompt, acp, entry>>
    <3>1. Claimable(q) /\ ClaimRun(q) /\ worker[q].at = "admitted"
          /\ worker' = [worker EXCEPT ![q].at = "dispatched"] /\ UNCHANGED <<host, prompt, acp,
                                                                             entry>>
      BY <1>4 DEF DispatchClaims, DispatchTurn
    <3>2. worker'[q].epoch = worker[q].epoch /\ worker[q] # Idle
      BY <3>1, <1>a, WorkerEffect
    <3>3. /\ run'[q].status = "running" /\ run'[q].wait = "none" /\ run'[q].epoch = run[q].epoch + 1
          /\ run[q].epoch + 1 \in Epoch /\ run'[q].marked = run[q].marked
          /\ run'[q].cancelled = run[q].cancelled
      BY <3>1, <1>a, ClaimEffect
    <3> QED
      BY <3>1, <3>2, <3>3, <1>a DEF Claimable, ClaimRun
  <2> QED
    BY <2>0, <1>a, <1>b DEF EpochsKnown, RowKnown, EventKnown, WorkerKnown, Under
<1>5. CASE DispatchRejects(q)
  <2>0. /\ run'[q].status = "ended" /\ run'[q].wait = "none" /\ run'[q].epoch = run[q].epoch
        /\ ~run'[q].marked
        /\ run'[q].cancelled = run[q].cancelled /\ run[q].wait = "runtime_recovery"
        /\ worker'[q].epoch = worker[q].epoch /\ worker[q] # Idle
        /\ UNCHANGED <<active, task, host, prompt, acp, entry>>
    BY <1>5, <1>a, EndedEffect, WorkerEffect DEF DispatchRejects, DispatchTurn
  <2> QED
    BY <2>0, <1>a, <1>b DEF EpochsKnown, RowKnown, EventKnown, WorkerKnown, Under
<1>6. CASE DispatchDefers(q)
  <2>0. /\ worker'[q].epoch = worker[q].epoch /\ worker[q] # Idle
        /\ UNCHANGED <<run, active, task, host, prompt, acp, entry>>
    BY <1>6, <1>a, WorkerEffect DEF DispatchDefers, DispatchTurn
  <2> QED
    BY <2>0, <1>a, <1>b DEF EpochsKnown, RowKnown, EventKnown, WorkerKnown, Under
<1>7. CASE SchedulerClaims(q)
  <2>0. /\ run'[q].status = "running" /\ run'[q].wait = "none" /\ run'[q].epoch = run[q].epoch + 1
        /\ run[q].epoch + 1 \in Epoch /\ run'[q].marked = run[q].marked
        /\ run'[q].cancelled = run[q].cancelled
        /\ run[q].status = "waiting" /\ run[q].wait = "runtime_recovery"
        /\ active'[q].epoch = run[q].epoch + 1
        /\ \A e \in Epoch : task'[q][e] = IF e = run[q].epoch + 1 THEN "starting" ELSE task[q][e]
        /\ UNCHANGED <<host, prompt, acp, entry, worker>>
    BY ZenonT(40), <1>7, <1>a, ClaimEffect DEF SchedulerClaims, Claimable, ClaimRun
  <2> QED
    BY <2>0, <1>a, <1>b DEF EpochsKnown, RowKnown, EventKnown, WorkerKnown, Under
<1>8. CASE FinishDispatch(q) \/ FinishUnread(q)
  <2>0. /\ \/ entry'[q].epoch = entry[q].epoch /\ entry'[q].attempt = entry[q].attempt
           \/ entry'[q] = NoEntry
        /\ entry[q] = NoEntry => entry'[q] = NoEntry
        /\ worker'[q] = Idle
        /\ UNCHANGED <<run, active, task, host, prompt, acp>>
    BY <1>8, <1>a, DeferredEffect, CompletedEffect
    DEF FinishDispatch, FinishUnread, FinishTurn, FinishedDispatch
  <2> QED
    BY <2>0, <1>a, <1>b DEF EpochsKnown, RowKnown, EventKnown, WorkerKnown, Under
<1>9. CASE InputAccepted(q)
  <2>0. /\ run'[q].status = run[q].status /\ run'[q].wait = run[q].wait
        /\ run'[q].epoch = run[q].epoch
        /\ run'[q].marked = run[q].marked /\ run'[q].cancelled = run[q].cancelled
        /\ run'[q].input = "accepted"
        /\ acp = NoEvent /\ acp' # NoEvent /\ acp'.at = "acked" /\ acp'.run = q
        /\ acp'.epoch = run[q].epoch
        /\ prompt[q] = "open" /\ host[q] = run[q].epoch
        /\ UNCHANGED <<active, task, host, prompt, entry, worker>>
    BY <1>9, <1>a, InputEffect, GoesEffect DEF InputAccepted, Answers
  <2> QED
    BY <2>0, <1>a, <1>b DEF EpochsKnown, RowKnown, EventKnown, WorkerKnown, Under
<1>10. CASE NetworkTerminal(q)
  <2>0. /\ run'[q].status = run[q].status /\ run'[q].wait = run[q].wait
        /\ run'[q].epoch = run[q].epoch
        /\ run'[q].marked = run[q].marked /\ run'[q].cancelled = run[q].cancelled
        /\ acp = NoEvent /\ acp' # NoEvent /\ acp'.at = "mark" /\ acp'.run = q
        /\ acp'.epoch = run[q].epoch
        /\ prompt[q] = "open" /\ host[q] = run[q].epoch
        /\ prompt'[q] = "closed" /\ host'[q] \in {0, host[q]}
        /\ UNCHANGED <<active, task, entry, worker>>
    BY <1>10, <1>a, InputEffect, GoesEffect DEF NetworkTerminal, PromptEnds, Answers
  <2> QED
    BY <2>0, <1>a, <1>b DEF EpochsKnown, RowKnown, EventKnown, WorkerKnown, Under
<1>11. CASE OtherTerminal(q)
  <2>0. /\ acp = NoEvent /\ acp' # NoEvent /\ acp'.at = "stopTerminal" /\ acp'.run = q
        /\ acp'.epoch = run[q].epoch
        /\ prompt[q] = "open" /\ host[q] = run[q].epoch
        /\ prompt'[q] = "closed" /\ host'[q] \in {0, host[q]}
        /\ UNCHANGED <<run, active, task, entry, worker>>
    BY <1>11, <1>a, GoesEffect DEF OtherTerminal, PromptEnds, Answers
  <2> QED
    BY <2>0, <1>a, <1>b DEF EpochsKnown, RowKnown, EventKnown, WorkerKnown, Under
<1>12. CASE HostExits(q)
  <2>0. /\ \/ acp' = acp
           \/ acp = NoEvent /\ acp' # NoEvent /\ acp'.at = "lost" /\ acp'.run = q
              /\ acp'.epoch = run[q].epoch
        /\ acp = NoEvent /\ prompt[q] \in {"unsent", "open"} /\ host[q] = run[q].epoch
        /\ prompt'[q] = "dead" /\ host'[q] \in {0, host[q]}
        /\ entry'[q] \in {entry[q], NoEntry}
        /\ UNCHANGED <<run, active, task, worker>>
    <3>1. acp = NoEvent /\ prompt[q] \in {"unsent", "open"} /\ host[q] = run[q].epoch
      BY <1>12, <1>b DEF HostExits, EpochsKnown
    <3>2. acp' = acp \/ Goes(q, "lost")
      BY <1>12 DEF HostExits
    <3>3. entry'[q] \in {entry[q], NoEntry}
      BY <1>12, <1>a, CompletedEffect DEF HostExits
    <3>4. prompt'[q] = "dead" /\ host'[q] \in {0, host[q]} /\ UNCHANGED <<run, active, task,
                                                                          worker>>
      BY <1>12, <1>a DEF HostExits
    <3> QED
      BY <3>1, <3>2, <3>3, <3>4, <1>a, GoesEffect
  <2> QED
    BY <2>0, <1>a, <1>b DEF EpochsKnown, RowKnown, EventKnown, WorkerKnown, Under
<1>13. CASE Cancel(q)
  <2>0. /\ run'[q].status = "ended" /\ run'[q].wait = "none" /\ run'[q].epoch = run[q].epoch
        /\ ~run'[q].marked
        /\ UNCHANGED <<active, task, host, prompt, acp, entry, worker>>
    BY <1>13, <1>a, CancelEffect DEF Cancel
  <2> QED
    BY <2>0, <1>a, <1>b DEF EpochsKnown, RowKnown, EventKnown, WorkerKnown, Under
<1>14. CASE CleanupStop(q)
  <2>0. /\ entry'[q] \in {entry[q], NoEntry}
        /\ active'[q].epoch = 0 /\ host'[q] = 0 /\ prompt'[q] \notin {"unsent", "open"}
        /\ UNCHANGED <<run, task, acp, worker>>
    BY <1>14, <1>a, CompletedEffect DEF CleanupStop, NotActive
  <2> QED
    BY <2>0, <1>a, <1>b DEF EpochsKnown, RowKnown, EventKnown, WorkerKnown, Under
<1> QED
  BY <1>1, <1>2, <1>3, <1>4, <1>5, <1>6, <1>7, <1>8, <1>9, <1>10, <1>11, <1>12, <1>13, <1>14
  DEF RunStep

\* ... by those of its launch tasks, ...
LEMMA LaunchStepKnown ==
  ASSUME TypeOK, NEW q \in Run, RunKnown(q), NEW e \in Epoch, LaunchStep(q, e)
  PROVE  RunKnown(q)'
<1>a. /\ run \in RunRow /\ entry \in QueueRow /\ DOMAIN worker = Run /\ DOMAIN active = Run
      /\ DOMAIN host = Run /\ DOMAIN prompt = Run
      /\ task \in [Run -> [Epoch -> {"none", "starting", "unsent", "sent", "failing", "done"}]]
      /\ EpochsKnown(q) /\ (worker[q].at = "none" <=> worker[q] = Idle)
      /\ worker[q].at \in {"none", "begin", "rejected", "admitted", "dispatched"}
  BY Typed DEF TypeOK, RunRow, QueueRow, RunKnown
<1>b. /\ EpochsKnown(q) /\ RowKnown(q) /\ EventKnown(q) /\ WorkerKnown(q)
      /\ NoEntry.epoch = 0 /\ NoEntry.attempt = 0 /\ Idle.epoch = 0 /\ NoEvent.at = "idle"
      /\ run[q].epoch \in Epoch /\ run[q].epoch \in Nat /\ \A n \in Epoch : n \in Nat /\ n # 0
      /\ active[q].epoch \in Nat /\ host[q] \in {0} \cup Epoch /\ host[q] \in Nat
      /\ entry[q].epoch \in Nat /\ entry[q].attempt \in Nat /\ worker[q].epoch \in Nat
      /\ run[q].status \in {"running", "waiting", "ended"}
      /\ entry[q] = NoEntry <=> entry[q].epoch = 0
  BY Typed, EntryShape, Bounds, Events DEF RunKnown
<1> SUFFICES EpochsKnown(q)' /\ RowKnown(q)' /\ EventKnown(q)' /\ WorkerKnown(q)'
  BY DEF RunKnown
<1>1. CASE LaunchFails(q, e)
  <2>0. /\ task[q][e] \in {"starting", "unsent"}
        /\ entry'[q] \in {entry[q], NoEntry}
        /\ \A n \in Epoch : task'[q][n] = IF n = e THEN "failing" ELSE task[q][n]
        /\ UNCHANGED <<run, active, host, prompt, acp, worker>>
    BY <1>1, <1>a, CompletedEffect DEF LaunchFails, FailClaimed
  <2> QED
    BY <2>0, <1>a, <1>b DEF EpochsKnown, RowKnown, EventKnown, WorkerKnown, Under
<1>2. CASE PersistFailure(q, e)
  <2>0. /\ task[q][e] = "failing"
        /\ \/ run'[q] = run[q]
           \/ run'[q].status = "ended" /\ run'[q].wait = "none" /\ run'[q].epoch = run[q].epoch
              /\ ~run'[q].marked /\ run'[q].cancelled = run[q].cancelled
        /\ active'[q].epoch \in {0, active[q].epoch}
        /\ \A n \in Epoch : task'[q][n] = IF n = e THEN "done" ELSE task[q][n]
        /\ UNCHANGED <<host, prompt, acp, entry, worker>>
    BY <1>2, <1>a, TerminalEffect, EndedEffect, ReleasedEffect DEF PersistFailure
  <2> QED
    BY <2>0, <1>a, <1>b DEF EpochsKnown, RowKnown, EventKnown, WorkerKnown, Under
<1>3. CASE SendPrompt(q, e) \/ PromptUnsent(q, e)
  <2>0. /\ task[q][e] = "starting" /\ Loads(q, e)
        /\ run'[q].status = run[q].status /\ run'[q].wait = run[q].wait
        /\ run'[q].epoch = run[q].epoch
        /\ run'[q].marked = run[q].marked /\ run'[q].cancelled = run[q].cancelled
        /\ host'[q] = e
        /\ \/ /\ prompt'[q] = "open"
              /\ \A n \in Epoch : task'[q][n] = IF n = e THEN "sent" ELSE task[q][n]
           \/ /\ prompt'[q] = "unsent"
              /\ \A n \in Epoch : task'[q][n] = IF n = e THEN "unsent" ELSE task[q][n]
        /\ UNCHANGED <<active, acp, entry, worker>>
    BY <1>3, <1>a, InputEffect DEF SendPrompt, PromptUnsent, Prompted
  <2> QED
    BY <2>0, <1>a, <1>b DEF EpochsKnown, RowKnown, EventKnown, WorkerKnown, Under, Loads
<1>4. CASE Handoff(q, e)
  <2>0. /\ task[q][e] = "sent"
        /\ entry'[q] \in {entry[q], NoEntry}
        /\ active'[q].epoch = active[q].epoch
        /\ \/ \A n \in Epoch : task'[q][n] = IF n = e THEN "done" ELSE task[q][n]
           \/ \A n \in Epoch : task'[q][n] = IF n = e THEN "failing" ELSE task[q][n]
        /\ UNCHANGED <<run, host, prompt, acp, worker>>
    <3>1. task[q][e] = "sent" /\ UNCHANGED <<host, prompt, acp, worker>>
      BY <1>4 DEF Handoff
    <3>2. CASE active[q].epoch = e
      <4>1. active' = [active EXCEPT ![q].bound = TRUE] /\ task' = [task EXCEPT ![q][e] = "done"]
            /\ UNCHANGED <<run, entry>>
        BY <1>4, <3>2 DEF Handoff
      <4>2. active'[q].epoch = active[q].epoch
        BY <1>a, <4>1
      <4>3. \A n \in Epoch : task'[q][n] = IF n = e THEN "done" ELSE task[q][n]
        BY <1>a, <4>1
      <4> QED
        BY <3>1, <4>1, <4>2, <4>3
    <3>3. CASE active[q].epoch # e
      <4>1. FailClaimed(q, e)
        BY <1>4, <3>3 DEF Handoff
      <4> QED
        BY <1>a, <3>1, <4>1, CompletedEffect DEF FailClaimed
    <3> QED
      BY <3>2, <3>3
  <2> QED
    BY <2>0, <1>a, <1>b DEF EpochsKnown, RowKnown, EventKnown, WorkerKnown, Under
<1>5. CASE LaunchCancelled(q, e)
  <2>0. /\ task[q][e] \in {"starting", "unsent", "sent"}
        /\ \A n \in Epoch : task'[q][n] = IF n = e THEN "done" ELSE task[q][n]
        /\ UNCHANGED <<run, active, host, prompt, acp, entry, worker>>
    BY <1>5, <1>a DEF LaunchCancelled
  <2> QED
    BY SMTT(30), <2>0, <1>a, <1>b DEF EpochsKnown, RowKnown, EventKnown, WorkerKnown, Under
<1> QED
  BY <1>1, <1>2, <1>3, <1>4, <1>5 DEF LaunchStep

\* ... by those of the loop, ...
LEMMA LoopStepKnown ==
  ASSUME TypeOK, NEW q \in Run, RunKnown(q), LoopStep, acp.run = q
  PROVE  RunKnown(q)'
<1>a. /\ run \in RunRow /\ entry \in QueueRow /\ DOMAIN worker = Run /\ DOMAIN active = Run
      /\ DOMAIN host = Run /\ DOMAIN prompt = Run
      /\ task \in [Run -> [Epoch -> {"none", "starting", "unsent", "sent", "failing", "done"}]]
      /\ EpochsKnown(q) /\ (worker[q].at = "none" <=> worker[q] = Idle)
      /\ worker[q].at \in {"none", "begin", "rejected", "admitted", "dispatched"}
  BY Typed DEF TypeOK, RunRow, QueueRow, RunKnown
<1>b. /\ EpochsKnown(q) /\ RowKnown(q) /\ EventKnown(q) /\ WorkerKnown(q)
      /\ NoEntry.epoch = 0 /\ NoEntry.attempt = 0 /\ Idle.epoch = 0 /\ NoEvent.at = "idle"
      /\ run[q].epoch \in Epoch /\ run[q].epoch \in Nat /\ \A n \in Epoch : n \in Nat /\ n # 0
      /\ active[q].epoch \in Nat /\ host[q] \in {0} \cup Epoch /\ host[q] \in Nat
      /\ entry[q].epoch \in Nat /\ entry[q].attempt \in Nat /\ worker[q].epoch \in Nat
      /\ run[q].status \in {"running", "waiting", "ended"}
      /\ entry[q] = NoEntry <=> entry[q].epoch = 0
  BY Typed, EntryShape, Bounds, Events DEF RunKnown
<1>c. acp \in Event /\ acp # NoEvent /\ acp.epoch \in Epoch /\ entry[q].attempt <= entry[q].epoch
  BY <1>b, Events
  DEF TypeOK, LoopStep, CompleteAccepted, StopAccepted, MarkForRecovery, ReleaseMarked,
     RegisterMarked, StopTerminal, SettleTerminal, ReconcileLoss, EpochsKnown
<1> SUFFICES EpochsKnown(q)' /\ RowKnown(q)' /\ EventKnown(q)' /\ WorkerKnown(q)'
  BY DEF RunKnown
<1>1. CASE CompleteAccepted
  <2>0. /\ run'[q].status = run[q].status /\ run'[q].wait = run[q].wait
        /\ run'[q].epoch = run[q].epoch
        /\ run'[q].cancelled = run[q].cancelled /\ run'[q].input = run[q].input
        /\ (run[q].status = "ended" => run'[q].marked = run[q].marked)
        /\ \/ acp' = NoEvent
           \/ acp' # NoEvent /\ acp'.at = "stopAccepted" /\ acp'.run = acp.run
              /\ acp'.epoch = acp.epoch
        /\ acp.at = "acked"
        /\ UNCHANGED <<active, task, host, prompt, entry, worker>>
    BY <1>1, <1>a, <1>c, ProgressEffect, ContinuesEffect DEF CompleteAccepted, Loads
  <2> QED
    BY <2>0, <1>a, <1>b, <1>c DEF EpochsKnown, RowKnown, EventKnown, WorkerKnown, Under
<1>2. CASE StopAccepted
  <2>0. /\ entry'[q] \in {entry[q], NoEntry}
        /\ acp' = NoEvent
        /\ UNCHANGED <<run, active, task, host, prompt, worker>>
    BY <1>2, <1>a, <1>c, CompletedEffect DEF StopAccepted
  <2> QED
    BY <2>0, <1>a, <1>b, <1>c DEF EpochsKnown, RowKnown, EventKnown, WorkerKnown, Under
<1>3. CASE MarkForRecovery
  <2>0. /\ \/ acp' # NoEvent /\ acp'.at = "release" /\ acp'.run = acp.run /\ acp'.epoch = acp.epoch
              /\ run[q].status = "running" /\ run'[q].status = "waiting"
              /\ run'[q].wait = "network_recovery"
              /\ run'[q].marked /\ run'[q].epoch = run[q].epoch
              /\ run'[q].cancelled = run[q].cancelled
           \/ run' = run /\ acp' # NoEvent /\ acp'.at = "stopTerminal" /\ acp'.run = acp.run
              /\ acp'.epoch = acp.epoch
        /\ acp.at = "mark"
        /\ UNCHANGED <<active, task, host, prompt, entry, worker>>
    BY <1>3, <1>a, <1>c, MarkEffect, ContinuesEffect DEF MarkForRecovery, Markable
  <2> QED
    BY <2>0, <1>a, <1>b, <1>c DEF EpochsKnown, RowKnown, EventKnown, WorkerKnown, Under
<1>4. CASE ReleaseMarked
  <2>0. /\ acp' # NoEvent /\ acp'.at = "register" /\ acp'.run = acp.run /\ acp'.epoch = acp.epoch
        /\ acp.at = "release"
        /\ active'[q].epoch \in {0, active[q].epoch}
        /\ UNCHANGED <<run, task, host, prompt, entry, worker>>
    BY <1>4, <1>a, <1>c, ReleasedEffect, ContinuesEffect DEF ReleaseMarked
  <2> QED
    BY <2>0, <1>a, <1>b, <1>c DEF EpochsKnown, RowKnown, EventKnown, WorkerKnown, Under
<1>5. CASE RegisterMarked
  <2>0. /\ \/ entry'[q] = entry[q]
           \/ entry'[q].epoch = acp.epoch /\ entry'[q].attempt <= acp.epoch
        /\ acp' = NoEvent /\ acp.at = "register"
        /\ UNCHANGED <<run, active, task, host, prompt, worker>>
    BY <1>5, <1>a, <1>c, RegisteredEffect DEF RegisterMarked
  <2> QED
    BY <2>0, <1>a, <1>b, <1>c DEF EpochsKnown, RowKnown, EventKnown, WorkerKnown, Under
<1>6. CASE StopTerminal
  <2>0. /\ entry'[q] \in {entry[q], NoEntry}
        /\ acp' # NoEvent /\ acp'.at = "settle" /\ acp'.run = acp.run /\ acp'.epoch = acp.epoch
        /\ acp.at = "stopTerminal"
        /\ UNCHANGED <<run, active, task, host, prompt, worker>>
    BY <1>6, <1>a, <1>c, CompletedEffect, ContinuesEffect DEF StopTerminal
  <2> QED
    BY <2>0, <1>a, <1>b, <1>c DEF EpochsKnown, RowKnown, EventKnown, WorkerKnown, Under
<1>7. CASE SettleTerminal \/ ReconcileLoss
  <2>0. /\ \/ run'[q] = run[q]
           \/ run'[q].status = "ended" /\ run'[q].wait = "none" /\ run'[q].epoch = run[q].epoch
              /\ ~run'[q].marked /\ run'[q].cancelled = run[q].cancelled
        /\ active'[q].epoch \in {0, active[q].epoch}
        /\ acp' = NoEvent
        /\ UNCHANGED <<task, host, prompt, entry, worker>>
    BY <1>7, <1>a, <1>c, TerminalEffect, EndedEffect, ReleasedEffect
    DEF SettleTerminal, ReconcileLoss, Settles
  <2> QED
    BY <2>0, <1>a, <1>b, <1>c DEF EpochsKnown, RowKnown, EventKnown, WorkerKnown, Under
<1> QED
  BY <1>1, <1>2, <1>3, <1>4, <1>5, <1>6, <1>7 DEF LoopStep

\* ... by the steps of other runs, and by those that are about every run.
LEMMA SameKnown ==
  ASSUME NEW q \in Run, RunKnown(q), Same(q)
  PROVE  RunKnown(q)'
<1>1. EpochsKnown(q)' /\ RowKnown(q)' /\ WorkerKnown(q)'
  BY DEF RunKnown, EpochsKnown, RowKnown, WorkerKnown, Same
<1>2. EventKnown(q)'
  BY DEF RunKnown, EventKnown, Same, Under
<1> QED
  BY <1>1, <1>2 DEF RunKnown

\* A step that is taken for all runs keeps what is known of the epochs of each.
LEMMA AllStepKnown ==
  ASSUME TypeOK, NEW q \in Run, RunKnown(q), Wake \/ TakeDue \/ StopCoordinator \/ Restart
  PROVE  RunKnown(q)'
<1>a. /\ run \in RunRow /\ entry \in QueueRow
      /\ task \in [Run -> [Epoch -> {"none", "starting", "unsent", "sent", "failing", "done"}]]
  BY Typed DEF TypeOK
<1>b. /\ EpochsKnown(q) /\ RowKnown(q) /\ EventKnown(q) /\ WorkerKnown(q)
      /\ NoEntry.epoch = 0 /\ NoEntry.attempt = 0 /\ Idle.epoch = 0 /\ NotActive.epoch = 0
      /\ run[q].epoch \in Epoch /\ run[q].epoch \in Nat /\ \A n \in Epoch : n \in Nat /\ n # 0
      /\ entry[q].epoch \in Nat /\ entry[q].attempt \in Nat /\ worker[q].epoch \in Nat
      /\ entry[q] = NoEntry <=> entry[q].epoch = 0
  BY Typed, EntryShape, Bounds DEF RunKnown, NotActive
<1> SUFFICES EpochsKnown(q)' /\ RowKnown(q)' /\ EventKnown(q)' /\ WorkerKnown(q)'
  BY DEF RunKnown
<1>1. CASE Wake
  <2>0. /\ entry'[q].epoch = entry[q].epoch /\ entry'[q].attempt = entry[q].attempt
        /\ entry[q] = NoEntry => entry'[q] = NoEntry
        /\ UNCHANGED <<run, active, task, host, prompt, acp, worker>>
    BY <1>1, <1>a, WakeEffect DEF Wake
  <2> QED
    BY <2>0, <1>b DEF EpochsKnown, RowKnown, EventKnown, WorkerKnown, Under
<1>2. CASE TakeDue
  <2>0. /\ entry'[q].epoch = entry[q].epoch /\ entry'[q].attempt = entry[q].attempt
        /\ entry[q] = NoEntry => entry'[q] = NoEntry
        /\ worker'[q] = Idle \/ (worker'[q].epoch = entry[q].epoch /\ entry[q] # NoEntry)
        /\ UNCHANGED <<run, active, task, host, prompt, acp>>
    BY <1>2, <1>a, TakeDueEffect DEF TakeDue
  <2> QED
    BY <2>0, <1>b DEF EpochsKnown, RowKnown, EventKnown, WorkerKnown, Under
<1>3. CASE StopCoordinator
  <2>0. entry'[q] = NoEntry /\ worker'[q] = Idle /\ UNCHANGED <<run, active, task, host, prompt,
                                                                acp>>
    BY <1>3 DEF StopCoordinator
  <2> QED
    BY <2>0, <1>b DEF EpochsKnown, RowKnown, EventKnown, WorkerKnown, Under
<1>4. CASE Restart
  <2>1. run'[q] = Recovered(q) /\ active'[q] = NotActive /\ host'[q] = 0 /\ prompt'[q] = "none"
        /\ acp' = NoEvent /\ entry'[q] = NoEntry /\ worker'[q] = Idle
    BY <1>4 DEF Restart
  <2>2. \A e \in Epoch : task'[q][e] = IF task[q][e] = "none" THEN "none" ELSE "done"
    BY <1>4, <1>a DEF Restart
  <2>3. EpochsKnown(q)'
    BY <2>1, <2>2, <1>a, <1>b, RecoveredEffect DEF EpochsKnown
  <2>4. RowKnown(q)'
    BY <2>1, <1>a, <1>b, RecoveredEffect DEF RowKnown
  <2>5. EventKnown(q)' /\ WorkerKnown(q)'
    BY <2>1 DEF EventKnown, WorkerKnown, Under
  <2> QED
    BY <2>3, <2>4, <2>5
<1> QED
  BY <1>1, <1>2, <1>3, <1>4

\* Nothing is known of a run that the initial state does not satisfy.
LEMMA InitKnown ==
  ASSUME Init
  PROVE  EpochInv
<1>1. TypeOK
  <2>1. run \in [Run -> RunState] /\ allowed \in [Run -> BOOLEAN]
    BY Bounds DEF Init, RunState, Wait
  <2>2. active \in [Run -> [epoch : Epoch, bound : BOOLEAN] \cup {NotActive}]
    BY Bounds DEF Init
  <2>3. task \in [Run -> [Epoch -> {"none", "starting", "unsent", "sent", "failing", "done"}]]
    BY DEF Init
  <2>4. /\ host \in [Run -> {0} \cup Epoch]
        /\ prompt \in [Run -> {"none", "unsent", "open", "closed", "dead"}]
        /\ acp \in Event \cup {NoEvent} /\ entry \in [Run -> Entry \cup {NoEntry}]
        /\ worker \in [Run -> Worker \cup {Idle}]
        /\ coordinator \in {"running", "stopped"} /\ shutdown \in BOOLEAN
        /\ failures \in [Run -> Nat] /\ hints \in [Run -> Nat]
        /\ overtaken \in [Run -> {0} \cup Epoch] /\ deadRoute \in [Run -> {0} \cup Epoch]
    BY DEF Init
  <2>5. restarts \in 0 .. MaxRestart
    BY BoundsAssumption DEF Init
  <2> QED
    BY <2>1, <2>2, <2>3, <2>4, <2>5 DEF TypeOK
<1>2. ASSUME NEW r \in Run
      PROVE  RunKnown(r)
  <2>1. /\ run[r] = [status |-> "running", wait |-> "none", epoch |-> 1, input |-> "none",
                     marked |-> FALSE, shown |-> FALSE, cancelled |-> FALSE]
        /\ active[r].epoch = 1 /\ host[r] = 0 /\ prompt[r] = "none" /\ acp = NoEvent
        /\ entry[r] = NoEntry /\ worker[r] = Idle
        /\ \A e \in Epoch : task[r][e] = IF e = 1 THEN "starting" ELSE "none"
    BY DEF Init
  <2>2. NoEntry.epoch = 0 /\ NoEntry.attempt = 0 /\ Idle.epoch = 0
    BY DEF NoEntry, Idle
  <2> QED
    BY <2>1, <2>2 DEF RunKnown, EpochsKnown, RowKnown, EventKnown, WorkerKnown, Under
<1> QED
  BY <1>1, <1>2 DEF EpochInv, Init

\* Every step keeps it.
LEMMA StepKnown ==
  ASSUME EpochInv, [Next]_vars
  PROVE  EpochInv'
<1>1. TypeOK /\ \A r \in Run : RunKnown(r)
  BY DEF EpochInv
<1>2. TypeOK'
  BY <1>1, TypeStep
<1>3. ASSUME NEW q \in Run
      PROVE  RunKnown(q)'
  BY <1>1, <1>3, Focus, SameKnown, LoopStepKnown, RunStepKnown, LaunchStepKnown, AllStepKnown
<1>4. (coordinator = "stopped" => shutdown)'
  <2>1. \/ UNCHANGED <<coordinator, shutdown>> \/ shutdown' \/ coordinator' = "running"
    <3>1. LoopStep \/ Wake \/ TakeDue \/ UNCHANGED vars => UNCHANGED <<coordinator, shutdown>>
      BY DEF LoopStep, Wake, TakeDue, CompleteAccepted, StopAccepted, MarkForRecovery,
         ReleaseMarked, RegisterMarked, StopTerminal, SettleTerminal, ReconcileLoss, Settles
    <3>2. StartShutdown \/ StopCoordinator => shutdown'
      BY DEF StartShutdown, StopCoordinator
    <3>3. Restart => coordinator' = "running"
      BY DEF Restart
    <3>4. ASSUME NEW r \in Run, NEW e \in Epoch
          PROVE  LaunchStep(r, e) \/ Revoke(r) => UNCHANGED <<coordinator, shutdown>>
      BY DEF LaunchStep, LaunchFails, PersistFailure, SendPrompt, PromptUnsent, Prompted,
         Handoff, LaunchCancelled, Revoke
    <3>5. ASSUME NEW r \in Run, RunStep(r), \A e \in Epoch : ~LaunchStep(r, e)
          PROVE  UNCHANGED <<coordinator, shutdown>>
      BY <3>5 DEF RunStep, DelayPasses, BeginAttempt, CheckFails, DispatchClaims, DispatchRejects,
         DispatchDefers, SchedulerClaims, FinishDispatch, FinishUnread, FinishTurn, InputAccepted,
         NetworkTerminal, OtherTerminal, PromptEnds, HostExits, Cancel, CleanupStop
    <3>6. ASSUME NEW r \in Run, RunStep(r) \/ Revoke(r)
          PROVE  UNCHANGED <<coordinator, shutdown>>
      BY <3>4, <3>5, <3>6, Bounds DEF RunStep
    <3>7. [Next]_vars => \/ LoopStep \/ Wake \/ TakeDue \/ UNCHANGED vars
                        \/ StartShutdown \/ StopCoordinator \/ Restart
                        \/ \E r \in Run : RunStep(r) \/ Revoke(r)
      BY DEF Next, LoopStep, RunStep, LaunchStep
    <3> QED
      BY <3>1, <3>2, <3>3, <3>6, <3>7
  <2> QED
    BY <2>1 DEF EpochInv
<1> QED
  BY <1>2, <1>3, <1>4 DEF EpochInv

\* The epochs of the rows, the queue, the workers and the events agree in every behaviour.
LEMMA EpochsHold == Spec => []EpochInv
<1>1. Init => EpochInv
  BY InitKnown
<1>2. EpochInv /\ [Next]_vars => EpochInv'
  BY StepKnown
<1> QED
  BY <1>1, <1>2, PTL DEF Spec

\* Type correctness: the rows, the tasks, the queue and the loop stay in their types, whatever
\* the runs, the epochs and the restarts; an attempt never exceeds the epoch it is made in.
THEOREM TypeCorrect == Spec => []TypeOK
<1>1. EpochInv => TypeOK
  BY DEF EpochInv
<1> QED
  BY <1>1, EpochsHold, PTL

\* A worker that answers for an epoch the run has left behind changes neither the check nor the
\* row of the newer epoch: begin_network_recovery_attempt, defer_check and
\* finish_network_recovery_dispatch all compare the epoch they were started with.
THEOREM OlderWorkerInertHolds == Spec => OlderWorkerInert
<1>1. EpochInv /\ [Next]_vars =>
        [\A r \in Run :
           /\ worker[r] # Idle /\ worker'[r] # worker[r] /\ Present(r)
           /\ worker[r].epoch < entry[r].epoch /\ InService /\ restarts' = restarts
           => entry'[r] = entry[r] /\ run'[r] = run[r]]_vars
  <2> SUFFICES ASSUME EpochInv, [Next]_vars, NEW r \in Run,
                      worker[r] # Idle, worker'[r] # worker[r], Present(r),
                      worker[r].epoch < entry[r].epoch, InService, restarts' = restarts
               PROVE  entry'[r] = entry[r] /\ run'[r] = run[r]
    OBVIOUS
  <2>1. TypeOK /\ \A q \in Run : RunKnown(q)
    BY DEF EpochInv
  <2>2. /\ entry[r] # NoEntry /\ entry[r].epoch <= run[r].epoch
        /\ run[r].wait = "runtime_recovery" => FALSE
        /\ worker[r].epoch \in Nat /\ entry[r].epoch \in Nat /\ run[r].epoch \in Nat
        /\ run \in RunRow /\ entry \in QueueRow
    BY <2>1, Typed, EntryShape DEF RunKnown, EpochsKnown, WorkerKnown, Present
  <2>3. ~Loads(r, worker[r].epoch) /\ ~Armable(r, worker[r].epoch) /\ ~Contains(r, worker[r].epoch)
        /\ entry[r].epoch # worker[r].epoch
    BY <2>2 DEF Loads, Armable, Contains
  <2>4. Deferred(r, worker[r].epoch) = entry /\ Completed(r, worker[r].epoch) = entry
    BY <2>3 DEF Deferred, Completed
  <2>5. \/ Same(r) \/ (LoopStep /\ acp.run = r) \/ RunStep(r)
        \/ Wake \/ TakeDue \/ StopCoordinator \/ Restart
    BY <2>1, Focus
  <2>6. ~Same(r) /\ ~LoopStep /\ ~Wake /\ ~StopCoordinator
    BY DEF Same, LoopStep, CompleteAccepted, StopAccepted, MarkForRecovery, ReleaseMarked,
       RegisterMarked, StopTerminal, SettleTerminal, ReconcileLoss, Settles, Wake,
       StopCoordinator, InService
  <2>7. ~TakeDue
    <3>1. worker[r].at \in {"begin", "rejected", "admitted", "dispatched"}
      BY <2>1, Typed
    <3> QED
      BY <3>1 DEF TakeDue, At
  <2>8. ~Restart
    BY <2>1 DEF Restart, TypeOK
  <2>9. ASSUME RunStep(r)
        PROVE  \/ BeginAttempt(r) \/ CheckFails(r) \/ DispatchDefers(r) \/ FinishDispatch(r)
               \/ FinishUnread(r)
    <3>1. ~DelayPasses(r) /\ ~SchedulerClaims(r) /\ ~InputAccepted(r) /\ ~Cancel(r) /\ ~CleanupStop(r)
          /\ ~NetworkTerminal(r) /\ ~OtherTerminal(r) /\ ~HostExits(r)
      BY DEF DelayPasses, SchedulerClaims, InputAccepted, Cancel, CleanupStop, NetworkTerminal,
         OtherTerminal, PromptEnds, HostExits
    <3>2. \A e \in Epoch : ~LaunchStep(r, e)
      BY DEF LaunchStep, LaunchFails, PersistFailure, SendPrompt, PromptUnsent, Prompted, Handoff,
         LaunchCancelled
    <3>3. ~DispatchClaims(r) /\ ~DispatchRejects(r)
      BY <2>2 DEF DispatchClaims, DispatchRejects, Claimable
    <3> QED
      BY <2>9, <3>1, <3>2, <3>3 DEF RunStep
  <2>10. CASE BeginAttempt(r)
    BY <2>3, <2>10 DEF BeginAttempt
  <2>11. CASE CheckFails(r)
    BY <2>4, <2>11 DEF CheckFails
  <2>12. CASE DispatchDefers(r)
    BY <2>12 DEF DispatchDefers
  <2>13. CASE FinishDispatch(r) \/ FinishUnread(r)
    BY <2>4, <2>13 DEF FinishDispatch, FinishUnread, FinishTurn, FinishedDispatch
  <2> QED
    BY <2>5, <2>6, <2>7, <2>8, <2>9, <2>10, <2>11, <2>12, <2>13
<1> QED
  BY <1>1, EpochsHold, PTL DEF Spec, OlderWorkerInert

-----------------------------------------------------------------------------
(* The failure cycle: whatever the order of the handoff of a launch and    *)
(* the answers of its Host.                                                *)

\* What the state of a launch says of the input of a running run: it is in doubt while its
\* prompt could not be written, and the loop handles an event of a prompt that was sent.
LaunchKnown(r) ==
    run[r].status = "running" =>
        /\ active[r].epoch \in {0, run[r].epoch}
        /\ \A e \in Epoch : /\ task[r][e] = "starting" => run[r].input = "none"
                            /\ task[r][e] = "unsent" => run[r].input = "unknown"
        /\ prompt[r] = "open" => run[r].input \in {"dispatched", "accepted"}
        /\ Under(r) /\ acp.at # "lost" => run[r].input \notin {"none", "unknown"}

\* DeadHostSettled, of one run: a dead Host belongs to a run that does not run, that the loop
\* is about to settle, or whose launch still owns it or bound its route.
PromptKnown(r) ==
    /\ run[r].status = "waiting" => prompt[r] # "dead"
    /\ Under(r) /\ acp.at # "lost" => prompt[r] # "dead"
    /\ DeadHost(r) => HasSettler(r) \/ deadRoute[r] = run[r].epoch

\* The failure cycle of the run ends with this epoch.
Closing(r) ==
    \/ run[r].status = "ended"
    \/ /\ run[r].status = "running" /\ run[r].input \in {"none", "unknown"}
       /\ task[r][run[r].epoch] = "failing"
    \/ Handling(r, {"settle", "lost"})
    \/ run[r].status = "running" /\ run[r].input = "accepted"
    \/ run[r].wait = "network_recovery_blocked"

Pending(r) == IF Handling(r, {"release", "register"}) THEN 1 ELSE 0

\* The attempt of the check counts the failures of the cycle; a run without a failure has no
\* check, and one with a failure that has none any more is closing.
CountKnown(r) ==
    ~shutdown /\ overtaken[r] = 0 =>
        /\ run[r].marked => \/ entry[r].attempt + Pending(r) = failures[r]
                            \/ entry[r] = NoEntry /\ Closing(r)
        /\ ~run[r].marked /\ run[r].status # "ended" =>
              failures[r] = 0 /\ (entry[r] = NoEntry \/ Handling(r, {"stopAccepted"}))
        /\ Handling(r, {"stopAccepted"}) => ~run[r].marked

\* The check remembers the hint that moved it, as long as it is kept.
HintKnown(r) ==
    run[r].status # "ended" /\ overtaken[r] = 0 =>
        /\ hints[r] <= 1
        /\ hints[r] # 0 => entry[r].woken \/ (entry[r] = NoEntry /\ (Closing(r) \/ shutdown))

\* Watched, of one run.
WatchKnown(r) ==
    InService /\ Waits(r) => HasCheck(r) \/ (overtaken[r] = run[r].epoch /\ ~Present(r))

CycleKnown(r) == LaunchKnown(r) /\ PromptKnown(r) /\ CountKnown(r) /\ HintKnown(r) /\ WatchKnown(r)

CycleInv == EpochInv /\ \A r \in Run : CycleKnown(r)

\* When an answer is handled, no epoch of the run is before its prompt.
LEMMA AnswerTask ==
  ASSUME TypeOK, NEW q \in Run, EpochsKnown(q), Answers(q)
  PROVE  /\ prompt[q] = "open" /\ host[q] = run[q].epoch
         /\ \A n \in Epoch : task[q][n] \notin {"starting", "unsent"}
<1>1. host[q] = run[q].epoch /\ host[q] # 0 /\ host[q] \in Epoch /\ prompt[q] = "open"
  BY Typed, Bounds DEF EpochsKnown, Answers
<1>2. task[q][host[q]] \notin {"starting", "unsent"}
  BY <1>1 DEF EpochsKnown
<1> QED
  BY <1>1, <1>2 DEF EpochsKnown

\* The failure cycle is kept by the steps of the run, ...
LEMMA RunStepCycle ==
  ASSUME TypeOK, NEW q \in Run, RunKnown(q), CycleKnown(q),
         RunStep(q), \A e \in Epoch : ~LaunchStep(q, e)
  PROVE  CycleKnown(q)'
<1>a. /\ run \in RunRow /\ entry \in QueueRow /\ DOMAIN worker = Run /\ DOMAIN active = Run
      /\ DOMAIN host = Run /\ DOMAIN prompt = Run /\ DOMAIN failures = Run /\ DOMAIN hints = Run
      /\ task \in [Run -> [Epoch -> {"none", "starting", "unsent", "sent", "failing", "done"}]]
      /\ EpochsKnown(q) /\ RowKnown(q) /\ EventKnown(q) /\ WorkerKnown(q)
      /\ LaunchKnown(q) /\ PromptKnown(q) /\ CountKnown(q) /\ HintKnown(q) /\ WatchKnown(q)
  BY Typed DEF TypeOK, RunRow, QueueRow, RunKnown, CycleKnown
<1>b. /\ NoEntry.epoch = 0 /\ NoEntry.attempt = 0 /\ ~NoEntry.woken /\ Idle.epoch = 0
      /\ NoEvent.at = "idle"
      /\ run[q].epoch \in Epoch /\ run[q].epoch \in Nat /\ \A n \in Epoch : n \in Nat /\ n # 0
      /\ host[q] \in {0} \cup Epoch /\ failures[q] \in Nat /\ hints[q] \in Nat
      /\ entry[q].epoch \in Nat /\ entry[q].attempt \in Nat /\ worker[q].epoch \in Nat
      /\ run[q].status \in {"running", "waiting", "ended"} /\ run[q].wait \in Wait
      /\ entry[q] = NoEntry <=> entry[q].epoch = 0
      /\ (worker[q].at = "none" <=> worker[q] = Idle)
      /\ worker[q].at \in {"none", "begin", "rejected", "admitted", "dispatched"}
      /\ \A n \in Epoch : task[q][n] \in {"none", "starting", "unsent", "sent", "failing", "done"}
  BY Typed, EntryShape, Bounds, Events DEF RunState
<1>1. CASE DelayPasses(q)
  <2>0. /\ entry'[q].attempt = entry[q].attempt /\ entry'[q].woken = entry[q].woken
        /\ entry'[q].epoch = entry[q].epoch
        /\ entry'[q].inFlight = entry[q].inFlight /\ entry[q] # NoEntry
        /\ UNCHANGED <<run, active, task, host, prompt, acp, worker, failures, hints, overtaken,
                       deadRoute, coordinator,
                       shutdown, restarts>>
    <3>1. Present(q) /\ entry' = [entry EXCEPT ![q].due = TRUE]
      BY <1>1 DEF DelayPasses
    <3> QED
      BY <1>1, <3>1, <1>a, DueEffect DEF DelayPasses, Present
  <2>1. LaunchKnown(q)'
    BY <2>0, <1>a, <1>b DEF LaunchKnown, EpochsKnown, RowKnown, EventKnown, Under
  <2>2. PromptKnown(q)'
    BY <2>0, <1>a, <1>b
    DEF PromptKnown, DeadHost, HasSettler, EpochsKnown, RowKnown, EventKnown, Under, Handling
  <2>3. CountKnown(q)'
    BY <2>0, <1>a, <1>b
    DEF CountKnown, EpochsKnown, RowKnown, EventKnown, LaunchKnown, Closing, Pending, Handling,
        Under
  <2>4. HintKnown(q)'
    BY <2>0, <1>a, <1>b
    DEF HintKnown, EpochsKnown, RowKnown, EventKnown, LaunchKnown, CountKnown, Closing, Handling,
        Under
  <2>5. WatchKnown(q)'
    BY <2>0, <1>a, <1>b
    DEF WatchKnown, HasCheck, Present, EpochsKnown, RowKnown, EventKnown, WorkerKnown,
       LaunchKnown, Waits, InService,
        Handling, Under
  <2> QED
    BY <2>1, <2>2, <2>3, <2>4, <2>5 DEF CycleKnown
<1>2. CASE BeginAttempt(q)
  <2>0. /\ \/ Armable(q, worker[q].epoch) /\ run'[q].status = run[q].status
              /\ run'[q].wait \in {"runtime_recovery", "network_recovery_blocked"}
           \/ ~Armable(q, worker[q].epoch) /\ run' = run
        /\ run'[q].epoch = run[q].epoch /\ run'[q].input = run[q].input
        /\ run'[q].marked = run[q].marked /\ run'[q].cancelled = run[q].cancelled
        /\ worker'[q].epoch = worker[q].epoch
        /\ UNCHANGED <<active, task, host, prompt, acp, entry, failures, hints, overtaken,
                       deadRoute, coordinator,
                       shutdown, restarts>>
    BY <1>2, <1>a, ArmedEffect, WorkerEffect DEF BeginAttempt
  <2>1. LaunchKnown(q)'
    BY <2>0, <1>a, <1>b DEF LaunchKnown, EpochsKnown, RowKnown, EventKnown, Under, Armable, Loads
  <2>2. PromptKnown(q)'
    BY <2>0, <1>a, <1>b
    DEF PromptKnown, DeadHost, HasSettler, EpochsKnown, RowKnown, EventKnown, Under, Handling,
       Armable, Loads
  <2>3. CountKnown(q)'
    BY <2>0, <1>a, <1>b
    DEF CountKnown, EpochsKnown, RowKnown, EventKnown, LaunchKnown, Closing, Pending, Handling,
        Under, Armable, Loads
  <2>4. HintKnown(q)'
    BY <2>0, <1>a, <1>b
    DEF HintKnown, EpochsKnown, RowKnown, EventKnown, LaunchKnown, CountKnown, Closing, Handling,
        Under, Armable, Loads
  <2>5. WatchKnown(q)'
    BY <2>0, <1>a, <1>b
    DEF WatchKnown, HasCheck, Present, EpochsKnown, RowKnown, EventKnown, WorkerKnown,
       LaunchKnown, Waits, InService,
        Handling, Under, Armable, Loads
  <2> QED
    BY <2>1, <2>2, <2>3, <2>4, <2>5 DEF CycleKnown
<1>3. CASE CheckFails(q)
  <2>0. /\ entry'[q].attempt = entry[q].attempt /\ entry'[q].woken = entry[q].woken
        /\ entry'[q].epoch = entry[q].epoch
        /\ entry[q] = NoEntry => entry'[q] = NoEntry
        /\ entry[q].epoch = worker[q].epoch => ~entry'[q].inFlight
        /\ entry[q].epoch # worker[q].epoch => entry' = entry
        /\ worker'[q] = Idle
        /\ UNCHANGED <<run, active, task, host, prompt, acp, failures, hints, overtaken,
                       deadRoute, coordinator,
                       shutdown, restarts>>
    BY <1>3, <1>a, DeferredEffect DEF CheckFails
  <2>1. LaunchKnown(q)'
    BY <2>0, <1>a, <1>b DEF LaunchKnown, EpochsKnown, RowKnown, EventKnown, Under
  <2>2. PromptKnown(q)'
    BY <2>0, <1>a, <1>b
    DEF PromptKnown, DeadHost, HasSettler, EpochsKnown, RowKnown, EventKnown, Under, Handling
  <2>3. CountKnown(q)'
    BY <2>0, <1>a, <1>b
    DEF CountKnown, EpochsKnown, RowKnown, EventKnown, LaunchKnown, Closing, Pending, Handling,
        Under
  <2>4. HintKnown(q)'
    BY <2>0, <1>a, <1>b
    DEF HintKnown, EpochsKnown, RowKnown, EventKnown, LaunchKnown, CountKnown, Closing, Handling,
        Under
  <2>5. WatchKnown(q)'
    BY <2>0, <1>a, <1>b
    DEF WatchKnown, HasCheck, Present, EpochsKnown, RowKnown, EventKnown, WorkerKnown,
       LaunchKnown, Waits, InService,
        Handling, Under
  <2> QED
    BY <2>1, <2>2, <2>3, <2>4, <2>5 DEF CycleKnown
<1>4. CASE DispatchClaims(q)
  <2>0. /\ run'[q].status = "running" /\ run'[q].wait = "none" /\ run'[q].epoch = run[q].epoch + 1
        /\ run'[q].input = "none"
        /\ run[q].epoch + 1 \in Epoch /\ run'[q].marked = run[q].marked
        /\ run'[q].cancelled = run[q].cancelled
        /\ run[q].status = "waiting" /\ run[q].wait = "runtime_recovery" /\ ~shutdown
        /\ active'[q].epoch = run[q].epoch + 1
        /\ \A e \in Epoch : task'[q][e] = IF e = run[q].epoch + 1 THEN "starting" ELSE task[q][e]
        /\ worker'[q].epoch = worker[q].epoch
        /\ UNCHANGED <<host, prompt, acp, entry, failures, hints, overtaken, deadRoute,
                       coordinator, shutdown, restarts>>
    <3>1. Claimable(q) /\ ClaimRun(q) /\ worker[q].at = "admitted"
          /\ worker' = [worker EXCEPT ![q].at = "dispatched"]
          /\ UNCHANGED <<host, prompt, acp, entry, failures, hints, overtaken, deadRoute,
                         coordinator, shutdown,
                         restarts>>
      BY <1>4 DEF DispatchClaims, DispatchTurn
    <3>2. worker'[q].epoch = worker[q].epoch
      BY <3>1, <1>a, WorkerEffect
    <3>3. /\ run'[q].status = "running" /\ run'[q].wait = "none" /\ run'[q].epoch = run[q].epoch + 1
          /\ run'[q].input = "none" /\ run[q].epoch + 1 \in Epoch
          /\ run'[q].marked = run[q].marked /\ run'[q].cancelled = run[q].cancelled
      BY <3>1, <1>a, ClaimEffect
    <3> QED
      BY <3>1, <3>2, <3>3, <1>a DEF Claimable, ClaimRun
  <2>1. LaunchKnown(q)'
    BY <2>0, <1>a, <1>b DEF LaunchKnown, EpochsKnown, RowKnown, EventKnown, Under
  <2>2. PromptKnown(q)'
    BY <2>0, <1>a, <1>b
    DEF PromptKnown, DeadHost, HasSettler, EpochsKnown, RowKnown, EventKnown, Under, Handling
  <2>3. CountKnown(q)'
    BY <2>0, <1>a, <1>b
    DEF CountKnown, EpochsKnown, RowKnown, EventKnown, LaunchKnown, Closing, Pending, Handling,
        Under
  <2>4. HintKnown(q)'
    BY <2>0, <1>a, <1>b
    DEF HintKnown, EpochsKnown, RowKnown, EventKnown, LaunchKnown, CountKnown, Closing, Handling,
        Under
  <2>5. WatchKnown(q)'
    BY <2>0, <1>a, <1>b
    DEF WatchKnown, HasCheck, Present, EpochsKnown, RowKnown, EventKnown, WorkerKnown,
       LaunchKnown, Waits, InService,
        Handling, Under
  <2> QED
    BY <2>1, <2>2, <2>3, <2>4, <2>5 DEF CycleKnown
<1>5. CASE DispatchRejects(q)
  <2>0. /\ run'[q].status = "ended" /\ run'[q].wait = "none" /\ run'[q].epoch = run[q].epoch
        /\ ~run'[q].marked /\ run'[q].input = run[q].input
        /\ run'[q].cancelled = run[q].cancelled
        /\ run[q].wait = "runtime_recovery"
        /\ UNCHANGED <<active, task, host, prompt, acp, entry, failures, hints, overtaken,
                       deadRoute, coordinator,
                       shutdown, restarts>>
    BY <1>5, <1>a, EndedEffect DEF DispatchRejects
  <2>1. LaunchKnown(q)'
    BY <2>0, <1>a, <1>b DEF LaunchKnown, EpochsKnown, RowKnown, EventKnown, Under
  <2>2. PromptKnown(q)'
    BY <2>0, <1>a, <1>b
    DEF PromptKnown, DeadHost, HasSettler, EpochsKnown, RowKnown, EventKnown, Under, Handling
  <2>3. CountKnown(q)'
    BY <2>0, <1>a, <1>b
    DEF CountKnown, EpochsKnown, RowKnown, EventKnown, LaunchKnown, Closing, Pending, Handling,
        Under
  <2>4. HintKnown(q)'
    BY <2>0, <1>a, <1>b
    DEF HintKnown, EpochsKnown, RowKnown, EventKnown, LaunchKnown, CountKnown, Closing, Handling,
        Under
  <2>5. WatchKnown(q)'
    BY <2>0, <1>a, <1>b
    DEF WatchKnown, HasCheck, Present, EpochsKnown, RowKnown, EventKnown, WorkerKnown,
       LaunchKnown, Waits, InService,
        Handling, Under
  <2> QED
    BY <2>1, <2>2, <2>3, <2>4, <2>5 DEF CycleKnown
<1>6. CASE DispatchDefers(q)
  <2>0. /\ worker'[q].epoch = worker[q].epoch
        /\ UNCHANGED <<run, active, task, host, prompt, acp, entry, failures, hints, overtaken,
                       deadRoute, coordinator,
                       shutdown, restarts>>
    BY <1>6, <1>a, WorkerEffect DEF DispatchDefers, DispatchTurn
  <2>1. LaunchKnown(q)'
    BY <2>0, <1>a, <1>b DEF LaunchKnown, EpochsKnown, RowKnown, EventKnown, Under
  <2>2. PromptKnown(q)'
    BY <2>0, <1>a, <1>b
    DEF PromptKnown, DeadHost, HasSettler, EpochsKnown, RowKnown, EventKnown, Under, Handling
  <2>3. CountKnown(q)'
    BY <2>0, <1>a, <1>b
    DEF CountKnown, EpochsKnown, RowKnown, EventKnown, LaunchKnown, Closing, Pending, Handling,
        Under
  <2>4. HintKnown(q)'
    BY <2>0, <1>a, <1>b
    DEF HintKnown, EpochsKnown, RowKnown, EventKnown, LaunchKnown, CountKnown, Closing, Handling,
        Under
  <2>5. WatchKnown(q)'
    BY <2>0, <1>a, <1>b
    DEF WatchKnown, HasCheck, Present, EpochsKnown, RowKnown, EventKnown, WorkerKnown,
       LaunchKnown, Waits, InService,
        Handling, Under
  <2> QED
    BY <2>1, <2>2, <2>3, <2>4, <2>5 DEF CycleKnown
<1>7. CASE SchedulerClaims(q)
  <2>0. /\ run'[q].status = "running" /\ run'[q].wait = "none" /\ run'[q].epoch = run[q].epoch + 1
        /\ run'[q].input = "none"
        /\ run[q].epoch + 1 \in Epoch /\ run'[q].marked = run[q].marked
        /\ run'[q].cancelled = run[q].cancelled
        /\ run[q].status = "waiting" /\ run[q].wait = "runtime_recovery" /\ ~shutdown
        /\ active'[q].epoch = run[q].epoch + 1
        /\ \A e \in Epoch : task'[q][e] = IF e = run[q].epoch + 1 THEN "starting" ELSE task[q][e]
        /\ UNCHANGED <<host, prompt, acp, entry, worker, failures, hints, overtaken, deadRoute,
                       coordinator, shutdown,
                       restarts>>
    BY ZenonT(40), <1>7, <1>a, ClaimEffect DEF SchedulerClaims, Claimable, ClaimRun
  <2>1. LaunchKnown(q)'
    BY <2>0, <1>a, <1>b DEF LaunchKnown, EpochsKnown, RowKnown, EventKnown, Under
  <2>2. PromptKnown(q)'
    BY <2>0, <1>a, <1>b
    DEF PromptKnown, DeadHost, HasSettler, EpochsKnown, RowKnown, EventKnown, Under, Handling
  <2>3. CountKnown(q)'
    BY <2>0, <1>a, <1>b
    DEF CountKnown, EpochsKnown, RowKnown, EventKnown, LaunchKnown, Closing, Pending, Handling,
        Under
  <2>4. HintKnown(q)'
    BY <2>0, <1>a, <1>b
    DEF HintKnown, EpochsKnown, RowKnown, EventKnown, LaunchKnown, CountKnown, Closing, Handling,
        Under
  <2>5. WatchKnown(q)'
    BY <2>0, <1>a, <1>b
    DEF WatchKnown, HasCheck, Present, EpochsKnown, RowKnown, EventKnown, WorkerKnown,
       LaunchKnown, Waits, InService,
        Handling, Under
  <2> QED
    BY <2>1, <2>2, <2>3, <2>4, <2>5 DEF CycleKnown
<1>8. CASE FinishDispatch(q) \/ FinishUnread(q)
  <2>1. worker[q] # Idle /\ worker' = [worker EXCEPT ![q] = Idle]
        /\ entry' \in {FinishedDispatch(q, worker[q].epoch), Deferred(q, worker[q].epoch)}
        /\ UNCHANGED <<run, active, task, host, prompt, acp, failures, hints, overtaken,
                       deadRoute, coordinator,
                       shutdown, restarts>>
    BY <1>8, <1>b DEF FinishDispatch, FinishUnread, FinishTurn
  <2>2. /\ entry[q] = NoEntry => entry'[q] = NoEntry
        /\ \/ entry'[q].attempt = entry[q].attempt /\ entry'[q].woken = entry[q].woken
              /\ entry'[q].epoch = entry[q].epoch
           \/ entry'[q] = NoEntry
              /\ (run[q].status = "ended" \/ run[q].wait = "network_recovery_blocked")
        /\ \/ entry'[q] = entry[q]
              /\ (run[q].epoch > worker[q].epoch \/ entry[q].epoch # worker[q].epoch)
           \/ ~entry'[q].inFlight /\ entry'[q].epoch = entry[q].epoch
           \/ run[q].status = "ended" \/ run[q].wait = "network_recovery_blocked"
    <3>1. CASE /\ run[q].epoch > worker[q].epoch /\ run[q].status # "ended"
               /\ entry' # Deferred(q, worker[q].epoch)
      BY <2>1, <3>1 DEF FinishedDispatch
    <3>2. CASE entry' = Deferred(q, worker[q].epoch)
      <4>1. entry' = Deferred(q, worker[q].epoch)
        BY <3>2
      <4>2. CASE entry[q].epoch = worker[q].epoch
        BY <4>1, <4>2, <1>a, DeferredEffect
      <4>3. CASE entry[q].epoch # worker[q].epoch
        BY <4>1, <4>3 DEF Deferred
      <4> QED
        BY <4>2, <4>3
    <3>3. CASE /\ ~(run[q].epoch > worker[q].epoch /\ run[q].status # "ended")
               /\ entry' # Deferred(q, worker[q].epoch)
      <4>0. ~Armable(q, worker[q].epoch)
        BY <2>1, <3>3 DEF FinishedDispatch
      <4>1. entry'[q] \in {entry[q], NoEntry}
        BY <2>1, <3>3, <4>0, <1>a, CompletedEffect DEF FinishedDispatch
      <4>2. run[q].status = "ended" \/ run[q].wait = "network_recovery_blocked"
        <5> SUFFICES ASSUME run[q].status # "ended" PROVE run[q].wait = "network_recovery_blocked"
          OBVIOUS
        <5>1. worker[q].epoch <= run[q].epoch /\ (run[q].status = "running" => worker[q].epoch < run[q].epoch)
          BY <1>a DEF EpochsKnown
        <5>2. worker[q].epoch = run[q].epoch /\ run[q].status = "waiting"
          BY <3>3, <5>1, <1>b
        <5>3. run[q].wait \notin {"none", "network_recovery", "runtime_recovery"}
          BY <4>0, <5>2, <1>a DEF Armable, Loads, RowKnown
        <5> QED
          BY <5>3, <1>b DEF Wait
      <4> QED
        BY <4>1, <4>2
    <3> QED
      BY <3>1, <3>2, <3>3
  <2>3. worker'[q] = Idle
    BY <2>1, <1>a
  <2>4. LaunchKnown(q)' /\ PromptKnown(q)'
    BY <2>1, <1>a DEF LaunchKnown, PromptKnown, DeadHost, HasSettler, Under, Handling
  <2>5. CountKnown(q)'
    BY <2>1, <2>2, <1>a, <1>b DEF CountKnown, Closing, Pending, Handling
  <2>6. HintKnown(q)'
    BY <2>1, <2>2, <1>a, <1>b DEF HintKnown, Closing, Handling
  <2>7. WatchKnown(q)'
    BY <2>1, <2>2, <2>3, <1>a, <1>b DEF WatchKnown, HasCheck, Present, Waits, InService, Handling
  <2> QED
    BY <2>4, <2>5, <2>6, <2>7 DEF CycleKnown
<1>9. CASE InputAccepted(q)
  <2>0. /\ run'[q].status = run[q].status /\ run'[q].wait = run[q].wait
        /\ run'[q].epoch = run[q].epoch
        /\ run'[q].marked = run[q].marked /\ run'[q].cancelled = run[q].cancelled
        /\ run'[q].input = "accepted" /\ run[q].input = "dispatched"
        /\ acp = NoEvent /\ acp' # NoEvent /\ acp'.at = "acked" /\ acp'.run = q
        /\ prompt[q] = "open"
        /\ \A n \in Epoch : task[q][n] \notin {"starting", "unsent"}
        /\ UNCHANGED <<active, task, host, prompt, entry, worker, failures, hints, overtaken,
                       deadRoute, coordinator,
                       shutdown, restarts>>
    <3>1. Answers(q) /\ UNCHANGED <<active, task, host, prompt, entry, worker, failures, hints,
                                    overtaken,
                                    deadRoute, coordinator, shutdown, restarts>>
      BY <1>9 DEF InputAccepted
    <3>2. prompt[q] = "open" /\ \A n \in Epoch : task[q][n] \notin {"starting", "unsent"}
      BY <3>1, <1>a, AnswerTask
    <3>3. acp = NoEvent /\ acp' # NoEvent /\ acp'.at = "acked" /\ acp'.run = q
      BY <1>9, <3>1, <1>a, GoesEffect DEF InputAccepted, Answers
    <3> QED
      BY <1>9, <3>1, <3>2, <3>3, <1>a, InputEffect DEF InputAccepted
  <2>1. LaunchKnown(q)'
    BY <2>0, <1>a, <1>b DEF LaunchKnown, EpochsKnown, RowKnown, EventKnown, Under
  <2>2. PromptKnown(q)'
    BY <2>0, <1>a, <1>b
    DEF PromptKnown, DeadHost, HasSettler, EpochsKnown, RowKnown, EventKnown, Under, Handling
  <2>3. CountKnown(q)'
    BY <2>0, <1>a, <1>b
    DEF CountKnown, EpochsKnown, RowKnown, EventKnown, LaunchKnown, Closing, Pending, Handling,
        Under
  <2>4. HintKnown(q)'
    BY <2>0, <1>a, <1>b
    DEF HintKnown, EpochsKnown, RowKnown, EventKnown, LaunchKnown, CountKnown, Closing, Handling,
        Under
  <2>5. WatchKnown(q)'
    BY <2>0, <1>a, <1>b
    DEF WatchKnown, HasCheck, Present, EpochsKnown, RowKnown, EventKnown, WorkerKnown,
       LaunchKnown, Waits, InService,
        Handling, Under
  <2> QED
    BY <2>1, <2>2, <2>3, <2>4, <2>5 DEF CycleKnown
<1>10. CASE NetworkTerminal(q)
  <2>0. /\ run'[q].status = run[q].status /\ run'[q].wait = run[q].wait
        /\ run'[q].epoch = run[q].epoch
        /\ run'[q].marked = run[q].marked /\ run'[q].cancelled = run[q].cancelled
        /\ run'[q].input = "not_accepted" /\ run[q].input = "dispatched"
        /\ acp = NoEvent /\ acp' # NoEvent /\ acp'.at = "mark" /\ acp'.run = q
        /\ prompt[q] = "open" /\ prompt'[q] = "closed" /\ host'[q] \in {0, host[q]}
        /\ \A n \in Epoch : task[q][n] \notin {"starting", "unsent"}
        /\ UNCHANGED <<active, task, entry, worker, failures, hints, overtaken, deadRoute,
                       coordinator, shutdown,
                       restarts>>
    <3>1. Answers(q) /\ UNCHANGED <<active, task, entry, worker, failures, hints, overtaken,
                                    deadRoute, coordinator,
                                    shutdown, restarts>>
      BY <1>10 DEF NetworkTerminal, PromptEnds
    <3>2. prompt[q] = "open" /\ \A n \in Epoch : task[q][n] \notin {"starting", "unsent"}
      BY <3>1, <1>a, AnswerTask
    <3>3. acp = NoEvent /\ acp' # NoEvent /\ acp'.at = "mark" /\ acp'.run = q
      BY <1>10, <3>1, <1>a, GoesEffect DEF NetworkTerminal, PromptEnds, Answers
    <3> QED
      BY <1>10, <3>1, <3>2, <3>3, <1>a, InputEffect DEF NetworkTerminal, PromptEnds
  <2>1. LaunchKnown(q)'
    BY <2>0, <1>a, <1>b DEF LaunchKnown, EpochsKnown, RowKnown, EventKnown, Under
  <2>2. PromptKnown(q)'
    BY <2>0, <1>a, <1>b
    DEF PromptKnown, DeadHost, HasSettler, EpochsKnown, RowKnown, EventKnown, Under, Handling
  <2>3. CountKnown(q)'
    BY <2>0, <1>a, <1>b
    DEF CountKnown, EpochsKnown, RowKnown, EventKnown, LaunchKnown, Closing, Pending, Handling,
        Under
  <2>4. HintKnown(q)'
    BY <2>0, <1>a, <1>b
    DEF HintKnown, EpochsKnown, RowKnown, EventKnown, LaunchKnown, CountKnown, Closing, Handling,
        Under
  <2>5. WatchKnown(q)'
    BY <2>0, <1>a, <1>b
    DEF WatchKnown, HasCheck, Present, EpochsKnown, RowKnown, EventKnown, WorkerKnown,
       LaunchKnown, Waits, InService,
        Handling, Under
  <2> QED
    BY <2>1, <2>2, <2>3, <2>4, <2>5 DEF CycleKnown
<1>11. CASE OtherTerminal(q)
  <2>0. /\ acp = NoEvent /\ acp' # NoEvent /\ acp'.at = "stopTerminal" /\ acp'.run = q
        /\ prompt[q] = "open" /\ prompt'[q] = "closed" /\ host'[q] \in {0, host[q]}
        /\ \A n \in Epoch : task[q][n] \notin {"starting", "unsent"}
        /\ UNCHANGED <<run, active, task, entry, worker, failures, hints, overtaken, deadRoute,
                       coordinator, shutdown,
                       restarts>>
    <3>1. Answers(q) /\ UNCHANGED <<run, active, task, entry, worker, failures, hints, overtaken,
                                    deadRoute, coordinator,
                                    shutdown, restarts>>
      BY <1>11 DEF OtherTerminal, PromptEnds
    <3>2. prompt[q] = "open" /\ \A n \in Epoch : task[q][n] \notin {"starting", "unsent"}
      BY <3>1, <1>a, AnswerTask
    <3>3. acp = NoEvent /\ acp' # NoEvent /\ acp'.at = "stopTerminal" /\ acp'.run = q
      BY <1>11, <3>1, <1>a, GoesEffect DEF OtherTerminal, PromptEnds, Answers
    <3> QED
      BY <1>11, <3>1, <3>2, <3>3, <1>a DEF OtherTerminal, PromptEnds
  <2>1. LaunchKnown(q)'
    BY <2>0, <1>a, <1>b DEF LaunchKnown, EpochsKnown, RowKnown, EventKnown, Under
  <2>2. PromptKnown(q)'
    BY <2>0, <1>a, <1>b
    DEF PromptKnown, DeadHost, HasSettler, EpochsKnown, RowKnown, EventKnown, Under, Handling
  <2>3. CountKnown(q)'
    BY <2>0, <1>a, <1>b
    DEF CountKnown, EpochsKnown, RowKnown, EventKnown, LaunchKnown, Closing, Pending, Handling,
        Under
  <2>4. HintKnown(q)'
    BY <2>0, <1>a, <1>b
    DEF HintKnown, EpochsKnown, RowKnown, EventKnown, LaunchKnown, CountKnown, Closing, Handling,
        Under
  <2>5. WatchKnown(q)'
    BY <2>0, <1>a, <1>b
    DEF WatchKnown, HasCheck, Present, EpochsKnown, RowKnown, EventKnown, WorkerKnown,
       LaunchKnown, Waits, InService,
        Handling, Under
  <2> QED
    BY <2>1, <2>2, <2>3, <2>4, <2>5 DEF CycleKnown
<1>12. CASE HostExits(q)
  <2>0. /\ \/ acp' = acp /\ entry' = entry
              /\ (shutdown \/ task[q][run[q].epoch] \in {"unsent", "sent"})
           \/ acp' # NoEvent /\ acp'.at = "lost" /\ acp'.run = q /\ entry'[q] = NoEntry
        /\ acp = NoEvent /\ prompt[q] \in {"open", "unsent"} /\ prompt'[q] = "dead"
        /\ run[q].status # "waiting"
        /\ UNCHANGED <<run, active, task, worker, failures, hints, overtaken, deadRoute,
                       coordinator, shutdown, restarts>>
    <3>1. /\ acp = NoEvent /\ prompt[q] \in {"open", "unsent"} /\ prompt'[q] = "dead"
          /\ host[q] = run[q].epoch /\ run[q].status # "waiting"
          /\ UNCHANGED <<run, active, task, worker, failures, hints, overtaken, deadRoute,
                         coordinator, shutdown, restarts>>
      BY <1>12, <1>a DEF HostExits, EpochsKnown
    <3>3. CASE ExitIgnored(q)
      <4>1. shutdown \/ task[q][run[q].epoch] \in {"unsent", "sent"}
        BY <3>1, <3>3, <1>b DEF ExitIgnored
      <4>2. acp' = acp /\ entry' = entry
        BY <1>12, <3>3 DEF HostExits
      <4> QED
        BY <3>1, <4>1, <4>2
    <3>4. CASE ~ExitIgnored(q)
      <4>1. host'[q] = 0 /\ entry' = Completed(q, host[q]) /\ Goes(q, "lost")
        BY <1>12, <3>4, <1>a DEF HostExits
      <4>2. Contains(q, host[q]) \/ entry[q] = NoEntry
        BY <3>1, <1>a, <1>b DEF Contains, EpochsKnown
      <4>3. entry'[q] = NoEntry
        BY <4>1, <4>2, <1>a, CompletedEffect
      <4> QED
        BY <3>1, <4>1, <4>3, <1>a, GoesEffect
    <3> QED
      BY <3>3, <3>4
  <2>1. LaunchKnown(q)'
    BY <2>0, <1>a, <1>b DEF LaunchKnown, EpochsKnown, RowKnown, EventKnown, Under
  <2>2. PromptKnown(q)'
    BY <2>0, <1>a, <1>b
    DEF PromptKnown, DeadHost, HasSettler, EpochsKnown, RowKnown, EventKnown, Under, Handling
  <2>3. CountKnown(q)'
    BY <2>0, <1>a, <1>b
    DEF CountKnown, EpochsKnown, RowKnown, EventKnown, LaunchKnown, Closing, Pending, Handling,
        Under
  <2>4. HintKnown(q)'
    BY <2>0, <1>a, <1>b
    DEF HintKnown, EpochsKnown, RowKnown, EventKnown, LaunchKnown, CountKnown, Closing, Handling,
        Under
  <2>5. WatchKnown(q)'
    BY <2>0, <1>a, <1>b
    DEF WatchKnown, HasCheck, Present, EpochsKnown, RowKnown, EventKnown, WorkerKnown,
       LaunchKnown, Waits, InService,
        Handling, Under
  <2> QED
    BY <2>1, <2>2, <2>3, <2>4, <2>5 DEF CycleKnown
<1>13. CASE Cancel(q)
  <2>0. /\ run'[q].status = "ended" /\ run'[q].wait = "none" /\ run'[q].epoch = run[q].epoch
        /\ ~run'[q].marked /\ run'[q].input = run[q].input
        /\ run'[q].cancelled
        /\ UNCHANGED <<active, task, host, prompt, acp, entry, worker, failures, hints, overtaken,
                       deadRoute, coordinator, shutdown, restarts>>
    BY <1>13, <1>a, CancelEffect DEF Cancel
  <2>1. LaunchKnown(q)'
    BY <2>0, <1>a, <1>b DEF LaunchKnown, EpochsKnown, RowKnown, EventKnown, Under
  <2>2. PromptKnown(q)'
    BY <2>0, <1>a, <1>b
    DEF PromptKnown, DeadHost, HasSettler, EpochsKnown, RowKnown, EventKnown, Under, Handling
  <2>3. CountKnown(q)'
    BY <2>0, <1>a, <1>b
    DEF CountKnown, EpochsKnown, RowKnown, EventKnown, LaunchKnown, Closing, Pending, Handling,
        Under
  <2>4. HintKnown(q)'
    BY <2>0, <1>a, <1>b
    DEF HintKnown, EpochsKnown, RowKnown, EventKnown, LaunchKnown, CountKnown, Closing, Handling,
        Under
  <2>5. WatchKnown(q)'
    BY <2>0, <1>a, <1>b
    DEF WatchKnown, HasCheck, Present, EpochsKnown, RowKnown, EventKnown, WorkerKnown,
       LaunchKnown, Waits, InService,
        Handling, Under
  <2> QED
    BY <2>1, <2>2, <2>3, <2>4, <2>5 DEF CycleKnown
<1>14. CASE CleanupStop(q)
  <2>0. /\ run[q].cancelled /\ host'[q] = 0 /\ (prompt'[q] = "dead" => prompt[q] = "dead")
        /\ UNCHANGED <<run, task, acp, worker, failures, hints, overtaken, deadRoute,
                       coordinator, shutdown, restarts>>
    BY <1>14, <1>a DEF CleanupStop
  <2>1. LaunchKnown(q)'
    BY <2>0, <1>a, <1>b DEF LaunchKnown, EpochsKnown, RowKnown, EventKnown, Under
  <2>2. PromptKnown(q)'
    BY <2>0, <1>a, <1>b
    DEF PromptKnown, DeadHost, HasSettler, EpochsKnown, RowKnown, EventKnown, Under, Handling
  <2>3. CountKnown(q)'
    BY <2>0, <1>a, <1>b
    DEF CountKnown, EpochsKnown, RowKnown, EventKnown, LaunchKnown, Closing, Pending, Handling,
        Under
  <2>4. HintKnown(q)'
    BY <2>0, <1>a, <1>b
    DEF HintKnown, EpochsKnown, RowKnown, EventKnown, LaunchKnown, CountKnown, Closing, Handling,
        Under
  <2>5. WatchKnown(q)'
    BY <2>0, <1>a, <1>b
    DEF WatchKnown, HasCheck, Present, EpochsKnown, RowKnown, EventKnown, WorkerKnown,
       LaunchKnown, Waits, InService,
        Handling, Under
  <2> QED
    BY <2>1, <2>2, <2>3, <2>4, <2>5 DEF CycleKnown
<1> QED
  BY <1>1, <1>2, <1>3, <1>4, <1>5, <1>6, <1>7, <1>8, <1>9, <1>10, <1>11, <1>12, <1>13, <1>14
  DEF RunStep

\* ... by those of its launch tasks, ...
LEMMA LaunchStepCycle ==
  ASSUME TypeOK, NEW q \in Run, RunKnown(q), CycleKnown(q),
         NEW e \in Epoch, LaunchStep(q, e)
  PROVE  CycleKnown(q)'
<1>a. /\ run \in RunRow /\ entry \in QueueRow /\ DOMAIN worker = Run /\ DOMAIN active = Run
      /\ DOMAIN host = Run /\ DOMAIN prompt = Run /\ DOMAIN failures = Run /\ DOMAIN hints = Run
      /\ task \in [Run -> [Epoch -> {"none", "starting", "unsent", "sent", "failing", "done"}]]
      /\ EpochsKnown(q) /\ RowKnown(q) /\ EventKnown(q) /\ WorkerKnown(q)
      /\ LaunchKnown(q) /\ PromptKnown(q) /\ CountKnown(q) /\ HintKnown(q) /\ WatchKnown(q)
  BY Typed DEF TypeOK, RunRow, QueueRow, RunKnown, CycleKnown
<1>b. /\ NoEntry.epoch = 0 /\ NoEntry.attempt = 0 /\ ~NoEntry.woken /\ Idle.epoch = 0
      /\ NoEvent.at = "idle"
      /\ run[q].epoch \in Epoch /\ run[q].epoch \in Nat /\ \A n \in Epoch : n \in Nat /\ n # 0
      /\ host[q] \in {0} \cup Epoch /\ failures[q] \in Nat /\ hints[q] \in Nat
      /\ entry[q].epoch \in Nat /\ entry[q].attempt \in Nat /\ worker[q].epoch \in Nat
      /\ run[q].status \in {"running", "waiting", "ended"} /\ run[q].wait \in Wait
      /\ entry[q] = NoEntry <=> entry[q].epoch = 0
      /\ (worker[q].at = "none" <=> worker[q] = Idle)
      /\ worker[q].at \in {"none", "begin", "rejected", "admitted", "dispatched"}
      /\ \A n \in Epoch : task[q][n] \in {"none", "starting", "unsent", "sent", "failing", "done"}
  BY Typed, EntryShape, Bounds, Events DEF RunState
<1>1. CASE LaunchFails(q, e)
  <2>0. /\ task[q][e] \in {"starting", "unsent"} /\ e = run[q].epoch /\ entry'[q] = NoEntry
        /\ \A n \in Epoch : task'[q][n] = IF n = e THEN "failing" ELSE task[q][n]
        /\ UNCHANGED <<run, active, host, prompt, acp, worker, failures, hints, overtaken,
                       deadRoute, coordinator,
                       shutdown, restarts>>
    <3>1. task[q][e] \in {"starting", "unsent"} /\ FailClaimed(q, e) /\ e = run[q].epoch
          /\ UNCHANGED <<host, prompt, acp, worker, failures, hints, overtaken, deadRoute,
                         coordinator, shutdown,
                         restarts>>
      BY <1>1, <1>a DEF LaunchFails, EpochsKnown
    <3>2. Contains(q, e) \/ entry[q] = NoEntry
      BY <3>1, <1>a, <1>b DEF Contains, EpochsKnown
    <3>3. entry'[q] = NoEntry
      BY <3>1, <3>2, <1>a, CompletedEffect DEF FailClaimed
    <3> QED
      BY <3>1, <3>3, <1>a DEF FailClaimed
  <2>1. LaunchKnown(q)'
    BY <2>0, <1>a, <1>b DEF LaunchKnown, EpochsKnown, RowKnown, EventKnown, Under
  <2>2. PromptKnown(q)'
    BY <2>0, <1>a, <1>b
    DEF PromptKnown, DeadHost, HasSettler, EpochsKnown, RowKnown, EventKnown, Under, Handling
  <2>3. CountKnown(q)'
    BY <2>0, <1>a, <1>b
    DEF CountKnown, EpochsKnown, RowKnown, EventKnown, LaunchKnown, Closing, Pending, Handling,
        Under
  <2>4. HintKnown(q)'
    BY <2>0, <1>a, <1>b
    DEF HintKnown, EpochsKnown, RowKnown, EventKnown, LaunchKnown, CountKnown, Closing, Handling,
        Under
  <2>5. WatchKnown(q)'
    BY <2>0, <1>a, <1>b
    DEF WatchKnown, HasCheck, Present, EpochsKnown, RowKnown, EventKnown, WorkerKnown,
       LaunchKnown, Waits, InService,
        Handling, Under
  <2> QED
    BY <2>1, <2>2, <2>3, <2>4, <2>5 DEF CycleKnown
<1>2. CASE PersistFailure(q, e)
  <2>0. /\ task[q][e] = "failing"
        /\ \/ run'[q] = run[q] /\ (run[q].status # "running" \/ e # run[q].epoch)
           \/ run'[q].status = "ended" /\ run'[q].wait = "none" /\ run'[q].epoch = run[q].epoch
              /\ ~run'[q].marked /\ run'[q].input = run[q].input
              /\ run'[q].cancelled = run[q].cancelled
        /\ active'[q].epoch \in {0, active[q].epoch}
        /\ \A n \in Epoch : task'[q][n] = IF n = e THEN "done" ELSE task[q][n]
        /\ UNCHANGED <<host, prompt, acp, entry, worker, failures, hints, overtaken, deadRoute,
                       coordinator, shutdown,
                       restarts>>
    <3>1. /\ task[q][e] = "failing" /\ run' = Terminal(q, e)
          /\ task' = [task EXCEPT ![q][e] = "done"]
          /\ UNCHANGED <<host, prompt, acp, entry, worker, failures, hints, overtaken, deadRoute,
                         coordinator, shutdown,
                         restarts>>
      BY <1>2 DEF PersistFailure
    <3>2. active'[q].epoch \in {0, active[q].epoch}
      BY <1>2, <1>a, ReleasedEffect DEF PersistFailure
    <3>3. \A n \in Epoch : task'[q][n] = IF n = e THEN "done" ELSE task[q][n]
      BY <3>1, <1>a
    <3> QED
      BY <3>1, <3>2, <3>3, <1>a, <1>b, TerminalEffect, EndedEffect
  <2>1. LaunchKnown(q)'
    BY <2>0, <1>a, <1>b DEF LaunchKnown, EpochsKnown, RowKnown, EventKnown, Under
  <2>2. PromptKnown(q)'
    BY <2>0, <1>a, <1>b
    DEF PromptKnown, DeadHost, HasSettler, EpochsKnown, RowKnown, EventKnown, Under, Handling
  <2>3. CountKnown(q)'
    BY <2>0, <1>a, <1>b
    DEF CountKnown, EpochsKnown, RowKnown, EventKnown, LaunchKnown, Closing, Pending, Handling,
        Under
  <2>4. HintKnown(q)'
    BY <2>0, <1>a, <1>b
    DEF HintKnown, EpochsKnown, RowKnown, EventKnown, LaunchKnown, CountKnown, Closing, Handling,
        Under
  <2>5. WatchKnown(q)'
    BY <2>0, <1>a, <1>b
    DEF WatchKnown, HasCheck, Present, EpochsKnown, RowKnown, EventKnown, WorkerKnown,
       LaunchKnown, Waits, InService,
        Handling, Under
  <2> QED
    BY <2>1, <2>2, <2>3, <2>4, <2>5 DEF CycleKnown
<1>3. CASE SendPrompt(q, e) \/ PromptUnsent(q, e)
  <2>0. /\ task[q][e] = "starting" /\ Loads(q, e)
        /\ run'[q].status = run[q].status /\ run'[q].wait = run[q].wait
        /\ run'[q].epoch = run[q].epoch
        /\ run'[q].marked = run[q].marked /\ run'[q].cancelled = run[q].cancelled
        /\ \/ /\ run'[q].input = "dispatched" /\ prompt'[q] = "open"
              /\ \A n \in Epoch : task'[q][n] = IF n = e THEN "sent" ELSE task[q][n]
           \/ /\ run'[q].input = "unknown" /\ prompt'[q] = "unsent"
              /\ \A n \in Epoch : task'[q][n] = IF n = e THEN "unsent" ELSE task[q][n]
        /\ UNCHANGED <<active, acp, entry, worker, failures, hints, overtaken, deadRoute,
                       coordinator, shutdown, restarts>>
    <3>1. PICK input \in {"dispatched", "unknown"}, opened \in {"open", "unsent"},
               stage \in {"sent", "unsent"} :
            /\ Prompted(q, e, input, opened, stage)
            /\ \/ input = "dispatched" /\ opened = "open" /\ stage = "sent"
               \/ input = "unknown" /\ opened = "unsent" /\ stage = "unsent"
      BY <1>3 DEF SendPrompt, PromptUnsent
    <3>2. /\ task[q][e] = "starting" /\ Loads(q, e)
          /\ run' = [run EXCEPT ![q].input = input]
          /\ prompt' = [prompt EXCEPT ![q] = opened]
          /\ task' = [task EXCEPT ![q][e] = stage]
          /\ UNCHANGED <<active, acp, entry, worker, failures, hints, overtaken, deadRoute,
                         coordinator, shutdown, restarts>>
      BY <3>1 DEF Prompted
    <3>3. /\ run'[q].status = run[q].status /\ run'[q].wait = run[q].wait
          /\ run'[q].epoch = run[q].epoch
          /\ run'[q].marked = run[q].marked /\ run'[q].cancelled = run[q].cancelled
          /\ run'[q].input = input
      BY <3>2, <1>a, InputEffect
    <3>4. \A n \in Epoch : task'[q][n] = IF n = e THEN stage ELSE task[q][n]
      BY <3>2, <1>a
    <3>5. prompt'[q] = opened
      BY <3>2, <1>a
    <3> QED
      BY <3>1, <3>2, <3>3, <3>4, <3>5
  <2>1. LaunchKnown(q)'
    BY <2>0, <1>a, <1>b DEF LaunchKnown, EpochsKnown, RowKnown, EventKnown, Under, Armable, Loads
  <2>2. PromptKnown(q)'
    BY <2>0, <1>a, <1>b
    DEF PromptKnown, DeadHost, HasSettler, EpochsKnown, RowKnown, EventKnown, Under, Handling,
       Armable, Loads
  <2>3. CountKnown(q)'
    BY <2>0, <1>a, <1>b
    DEF CountKnown, EpochsKnown, RowKnown, EventKnown, LaunchKnown, Closing, Pending, Handling,
        Under, Armable, Loads
  <2>4. HintKnown(q)'
    BY <2>0, <1>a, <1>b
    DEF HintKnown, EpochsKnown, RowKnown, EventKnown, LaunchKnown, CountKnown, Closing, Handling,
        Under, Armable, Loads
  <2>5. WatchKnown(q)'
    BY <2>0, <1>a, <1>b
    DEF WatchKnown, HasCheck, Present, EpochsKnown, RowKnown, EventKnown, WorkerKnown,
       LaunchKnown, Waits, InService,
        Handling, Under, Armable, Loads
  <2> QED
    BY <2>1, <2>2, <2>3, <2>4, <2>5 DEF CycleKnown
<1>4. CASE Handoff(q, e)
  <2>0. /\ task[q][e] = "sent" /\ active'[q].epoch = active[q].epoch
        /\ \/ /\ active[q].epoch = e /\ entry' = entry /\ overtaken' = overtaken
              /\ \A n \in Epoch : task'[q][n] = IF n = e THEN "done" ELSE task[q][n]
              /\ prompt[q] = "dead" => deadRoute'[q] = e
              /\ prompt[q] # "dead" => deadRoute'[q] = deadRoute[q]
           \/ /\ entry' = entry \/ (entry'[q] = NoEntry /\ overtaken'[q] = e
                                    /\ entry[q] # NoEntry /\ entry[q].epoch <= e)
              /\ entry' = entry => overtaken'[q] = overtaken[q] \/ overtaken'[q] = e
              /\ entry[q] = NoEntry => overtaken'[q] = overtaken[q]
              /\ deadRoute' = deadRoute
              /\ \A n \in Epoch : task'[q][n] = IF n = e THEN "failing" ELSE task[q][n]
        /\ UNCHANGED <<run, host, prompt, acp, worker, failures, hints, coordinator,
                       shutdown, restarts>>
    <3>1. task[q][e] = "sent"
          /\ UNCHANGED <<host, prompt, acp, worker, failures, hints, coordinator, shutdown,
                         restarts>>
      BY <1>4 DEF Handoff
    <3>2. CASE active[q].epoch = e
      <4>1. /\ active' = [active EXCEPT ![q].bound = TRUE]
            /\ task' = [task EXCEPT ![q][e] = "done"]
            /\ deadRoute' = [deadRoute EXCEPT ![q] = IF prompt[q] = "dead" THEN e ELSE @]
            /\ UNCHANGED <<run, entry, overtaken>>
        BY <1>4, <3>2 DEF Handoff
      <4>2. active'[q].epoch = active[q].epoch
        BY <1>a, <4>1
      <4>3. \A n \in Epoch : task'[q][n] = IF n = e THEN "done" ELSE task[q][n]
        BY <1>a, <4>1
      <4>4. deadRoute'[q] = IF prompt[q] = "dead" THEN e ELSE deadRoute[q]
        BY <4>1 DEF TypeOK
      <4> QED
        BY <3>1, <3>2, <4>1, <4>2, <4>3, <4>4
    <3>3. CASE active[q].epoch # e
      <4>1. /\ FailClaimed(q, e)
            /\ overtaken' = [overtaken EXCEPT ![q] = IF Contains(q, e) THEN e ELSE @]
            /\ deadRoute' = deadRoute
        BY <1>4, <3>3 DEF Handoff
      <4>2. overtaken'[q] = IF Contains(q, e) THEN e ELSE overtaken[q]
        BY <4>1 DEF TypeOK
      <4>3. /\ entry' = Completed(q, e) /\ UNCHANGED <<run, active>>
            /\ \A n \in Epoch : task'[q][n] = IF n = e THEN "failing" ELSE task[q][n]
        BY <4>1, <1>a DEF FailClaimed
      <4>4. CASE Contains(q, e)
        <5>1. entry'[q] = NoEntry
          BY <4>3, <4>4, <1>a, CompletedEffect
        <5> QED
          BY <3>1, <4>1, <4>2, <4>3, <4>4, <5>1 DEF Contains
      <4>5. CASE ~Contains(q, e)
        BY <3>1, <4>1, <4>2, <4>3, <4>5 DEF Completed
      <4> QED
        BY <4>4, <4>5
    <3> QED
      BY <3>2, <3>3
  <2>1. LaunchKnown(q)'
    BY <2>0, <1>a, <1>b DEF LaunchKnown, EpochsKnown, RowKnown, EventKnown, Under
  <2>2. PromptKnown(q)'
    <3>1. CASE run[q].status # "running"
      BY <2>0, <3>1, <1>a DEF PromptKnown, DeadHost, Under
    <3>2. CASE run[q].status = "running" /\ active[q].epoch = e
      <4>1. e = run[q].epoch
        BY <3>2, <1>a, <1>b DEF LaunchKnown
      <4> QED
        BY <2>0, <3>2, <4>1, <1>a, <1>b DEF PromptKnown, DeadHost, HasSettler, Under, Handling
    <3>3. CASE run[q].status = "running" /\ active[q].epoch # e
      <4>1. HasSettler(q) => HasSettler(q)'
        BY <2>0, <3>3, <1>b DEF HasSettler, Handling
      <4> QED
        BY <2>0, <3>3, <4>1, <1>a DEF PromptKnown, DeadHost, Under
    <3> QED
      BY <3>1, <3>2, <3>3
  <2>3. CountKnown(q)'
    BY <2>0, <1>a, <1>b
    DEF CountKnown, EpochsKnown, RowKnown, EventKnown, LaunchKnown, Closing, Pending, Handling,
        Under
  <2>4. HintKnown(q)'
    BY <2>0, <1>a, <1>b
    DEF HintKnown, EpochsKnown, RowKnown, EventKnown, LaunchKnown, CountKnown, Closing, Handling,
        Under
  <2>5. WatchKnown(q)'
    <3> SUFFICES ASSUME InService, Waits(q), ~(overtaken'[q] = run[q].epoch /\ entry'[q] = NoEntry)
                 PROVE  HasCheck(q)'
      BY <2>0 DEF WatchKnown, InService, Waits, Present
    <3>1. e <= run[q].epoch
      BY <2>0, <1>a DEF EpochsKnown
    <3>2. CASE Handling(q, {"release", "register"})
      BY <2>0, <3>2 DEF HasCheck, Handling
    <3>3. CASE ~Handling(q, {"release", "register"})
      <4>1. \/ entry' = entry
            \/ entry'[q] = NoEntry /\ overtaken'[q] = e /\ entry[q] # NoEntry /\ entry[q].epoch <= e
        BY <2>0
      <4>2. CASE entry' = entry
        <5>1. entry[q] = NoEntry => overtaken'[q] = overtaken[q]
          BY <2>0
        <5>2. HasCheck(q)
          BY <4>2, <5>1, <1>a DEF WatchKnown, Present
        <5> QED
          BY <2>0, <3>3, <4>2, <5>2 DEF HasCheck
      <4>3. CASE entry'[q] = NoEntry /\ overtaken'[q] = e /\ entry[q] # NoEntry /\ entry[q].epoch <= e
        <5>1. HasCheck(q)
          BY <4>3, <1>a DEF WatchKnown, Present
        <5>2. entry[q].epoch = run[q].epoch
          BY <3>3, <5>1 DEF HasCheck
        <5>3. e = run[q].epoch
          BY <3>1, <4>3, <5>2, <1>b
        <5> QED
          BY <4>3, <5>3
      <4> QED
        BY <4>1, <4>2, <4>3
    <3> QED
      BY <3>2, <3>3
  <2> QED
    BY <2>1, <2>2, <2>3, <2>4, <2>5 DEF CycleKnown
<1>5. CASE LaunchCancelled(q, e)
  <2>0. /\ task[q][e] \in {"starting", "unsent", "sent"} /\ run[q].cancelled
        /\ \A n \in Epoch : task'[q][n] = IF n = e THEN "done" ELSE task[q][n]
        /\ UNCHANGED <<run, active, host, prompt, acp, entry, worker, failures, hints, overtaken,
                       deadRoute, coordinator,
                       shutdown, restarts>>
    BY <1>5, <1>a DEF LaunchCancelled
  <2>1. LaunchKnown(q)'
    BY <2>0, <1>a, <1>b DEF LaunchKnown, EpochsKnown, RowKnown, EventKnown, Under
  <2>2. PromptKnown(q)'
    BY <2>0, <1>a, <1>b
    DEF PromptKnown, DeadHost, HasSettler, EpochsKnown, RowKnown, EventKnown, Under, Handling
  <2>3. CountKnown(q)'
    BY <2>0, <1>a, <1>b
    DEF CountKnown, EpochsKnown, RowKnown, EventKnown, LaunchKnown, Closing, Pending, Handling,
        Under
  <2>4. HintKnown(q)'
    BY <2>0, <1>a, <1>b
    DEF HintKnown, EpochsKnown, RowKnown, EventKnown, LaunchKnown, CountKnown, Closing, Handling,
        Under
  <2>5. WatchKnown(q)'
    BY <2>0, <1>a, <1>b
    DEF WatchKnown, HasCheck, Present, EpochsKnown, RowKnown, EventKnown, WorkerKnown,
       LaunchKnown, Waits, InService,
        Handling, Under
  <2> QED
    BY <2>1, <2>2, <2>3, <2>4, <2>5 DEF CycleKnown
<1> QED
  BY <1>1, <1>2, <1>3, <1>4, <1>5 DEF LaunchStep

\* ... by those of the loop, ...
LEMMA LoopStepCycle ==
  ASSUME TypeOK, NEW q \in Run, RunKnown(q), CycleKnown(q),
         LoopStep, acp.run = q
  PROVE  CycleKnown(q)'
<1>a. /\ run \in RunRow /\ entry \in QueueRow /\ DOMAIN worker = Run /\ DOMAIN active = Run
      /\ DOMAIN host = Run /\ DOMAIN prompt = Run /\ DOMAIN failures = Run /\ DOMAIN hints = Run
      /\ task \in [Run -> [Epoch -> {"none", "starting", "unsent", "sent", "failing", "done"}]]
      /\ EpochsKnown(q) /\ RowKnown(q) /\ EventKnown(q) /\ WorkerKnown(q)
      /\ LaunchKnown(q) /\ PromptKnown(q) /\ CountKnown(q) /\ HintKnown(q) /\ WatchKnown(q)
  BY Typed DEF TypeOK, RunRow, QueueRow, RunKnown, CycleKnown
<1>b. /\ NoEntry.epoch = 0 /\ NoEntry.attempt = 0 /\ ~NoEntry.woken /\ Idle.epoch = 0
      /\ NoEvent.at = "idle"
      /\ run[q].epoch \in Epoch /\ run[q].epoch \in Nat /\ \A n \in Epoch : n \in Nat /\ n # 0
      /\ host[q] \in {0} \cup Epoch /\ failures[q] \in Nat /\ hints[q] \in Nat
      /\ entry[q].epoch \in Nat /\ entry[q].attempt \in Nat /\ worker[q].epoch \in Nat
      /\ run[q].status \in {"running", "waiting", "ended"} /\ run[q].wait \in Wait
      /\ entry[q] = NoEntry <=> entry[q].epoch = 0
      /\ (worker[q].at = "none" <=> worker[q] = Idle)
      /\ worker[q].at \in {"none", "begin", "rejected", "admitted", "dispatched"}
      /\ \A n \in Epoch : task[q][n] \in {"none", "starting", "unsent", "sent", "failing", "done"}
  BY Typed, EntryShape, Bounds, Events DEF RunState
<1>d. acp # NoEvent
  BY <1>b DEF LoopStep, CompleteAccepted, StopAccepted, MarkForRecovery, ReleaseMarked,
     RegisterMarked, StopTerminal, SettleTerminal, ReconcileLoss
<1>c. acp \in Event /\ acp # NoEvent /\ acp.epoch = run[q].epoch /\ acp.run = q
      /\ \A n \in Epoch : /\ task[q][n] # "starting"
                          /\ acp.at # "lost" => task[q][n] # "unsent"
  <2>1. acp \in Event /\ acp.epoch = run[q].epoch /\ Under(q)
    BY <1>a, <1>d DEF TypeOK, EventKnown, Under
  <2>2. /\ task[q][run[q].epoch] # "starting"
        /\ acp.at # "lost" => task[q][run[q].epoch] # "unsent"
    BY <1>a, <2>1 DEF EventKnown
  <2> QED
    BY <1>a, <1>d, <2>1, <2>2 DEF EpochsKnown
<1>1. CASE CompleteAccepted
  <2>0. /\ \/ /\ entry[q] # NoEntry /\ ~run'[q].marked /\ acp' # NoEvent
              /\ acp'.at = "stopAccepted" /\ acp'.run = q
           \/ /\ entry[q] = NoEntry /\ run' = run /\ acp' = NoEvent
        /\ run'[q].status = run[q].status /\ run'[q].wait = run[q].wait
        /\ run'[q].epoch = run[q].epoch
        /\ run'[q].cancelled = run[q].cancelled /\ run'[q].input = run[q].input
        /\ failures'[q] = (IF run'[q].marked THEN failures[q] ELSE 0)
        /\ hints'[q] = (IF run'[q].marked THEN hints[q] ELSE 0)
        /\ overtaken'[q] = (IF run'[q].marked THEN overtaken[q] ELSE 0)
        /\ acp.at = "acked"
        /\ UNCHANGED <<active, task, host, prompt, entry, worker, deadRoute, coordinator, shutdown,
                       restarts>>
    <3>1. /\ acp.at = "acked" /\ UNCHANGED <<active, task, host, prompt, entry, worker,
                                             deadRoute, coordinator, shutdown, restarts>>
          /\ failures' = IF run'[q].marked THEN failures ELSE [failures EXCEPT ![q] = 0]
          /\ hints' = IF run'[q].marked THEN hints ELSE [hints EXCEPT ![q] = 0]
          /\ overtaken' = IF run'[q].marked THEN overtaken ELSE [overtaken EXCEPT ![q] = 0]
      BY <1>1, <1>c DEF CompleteAccepted
    <3>2. /\ failures'[q] = (IF run'[q].marked THEN failures[q] ELSE 0)
          /\ hints'[q] = (IF run'[q].marked THEN hints[q] ELSE 0)
          /\ overtaken'[q] = (IF run'[q].marked THEN overtaken[q] ELSE 0)
      BY <3>1, <1>a DEF TypeOK
    <3>3. CASE Contains(q, acp.epoch)
      <4>1. /\ run' = IF Loads(q, acp.epoch) /\ run[q].marked THEN Progressed(q) ELSE run
            /\ Continues("stopAccepted")
        BY <1>1, <1>c, <3>3 DEF CompleteAccepted
      <4>2. acp' # NoEvent /\ acp'.at = "stopAccepted" /\ acp'.run = q
        BY <4>1, <1>c, ContinuesEffect
      <4>3. ~run'[q].marked
        BY <4>1, <1>a, <1>c, ProgressEffect DEF Loads, RowKnown
      <4>4. run'[q].status = run[q].status /\ run'[q].wait = run[q].wait /\ run'[q].epoch = run[q].epoch
            /\ run'[q].cancelled = run[q].cancelled /\ run'[q].input = run[q].input
        BY <4>1, <1>a, ProgressEffect
      <4> QED
        BY <3>1, <3>2, <3>3, <4>2, <4>3, <4>4 DEF Contains
    <3>4. CASE ~Contains(q, acp.epoch)
      <4>1. run' = run /\ acp' = NoEvent
        BY <1>1, <1>c, <3>4 DEF CompleteAccepted
      <4>2. entry[q] = NoEntry
        BY <3>4, <1>a, <1>b, <1>c DEF Contains, EpochsKnown
      <4> QED
        BY <3>1, <3>2, <4>1, <4>2
    <3> QED
      BY <3>3, <3>4
  <2>1. LaunchKnown(q)'
    BY <2>0, <1>a, <1>b, <1>c DEF LaunchKnown, EpochsKnown, RowKnown, EventKnown, Under
  <2>2. PromptKnown(q)'
    BY <2>0, <1>a, <1>b, <1>c
    DEF PromptKnown, DeadHost, HasSettler, EpochsKnown, RowKnown, EventKnown, Under, Handling
  <2>3. CountKnown(q)'
    BY <2>0, <1>a, <1>b, <1>c
    DEF CountKnown, EpochsKnown, RowKnown, EventKnown, LaunchKnown, Closing, Pending, Handling,
        Under
  <2>4. HintKnown(q)'
    BY <2>0, <1>a, <1>b, <1>c
    DEF HintKnown, EpochsKnown, RowKnown, EventKnown, LaunchKnown, CountKnown, Closing, Handling,
        Under
  <2>5. WatchKnown(q)'
    BY <2>0, <1>a, <1>b, <1>c
    DEF WatchKnown, HasCheck, Present, EpochsKnown, RowKnown, EventKnown, WorkerKnown,
       LaunchKnown, Waits, InService,
        Handling, Under
  <2> QED
    BY <2>1, <2>2, <2>3, <2>4, <2>5 DEF CycleKnown
<1>2. CASE StopAccepted
  <2>0. /\ entry'[q] = NoEntry /\ acp' = NoEvent /\ acp.at = "stopAccepted"
        /\ UNCHANGED <<run, active, task, host, prompt, worker, failures, hints, overtaken,
                       deadRoute, coordinator,
                       shutdown, restarts>>
    <3>1. acp.at = "stopAccepted" /\ entry' = Completed(q, run[q].epoch) /\ acp' = NoEvent
          /\ UNCHANGED <<run, active, task, host, prompt, worker, failures, hints, overtaken,
                         deadRoute, coordinator,
                         shutdown, restarts>>
      BY <1>2, <1>c DEF StopAccepted
    <3>2. Contains(q, run[q].epoch) \/ entry[q] = NoEntry
      BY <1>a, <1>b DEF Contains, EpochsKnown
    <3> QED
      BY <3>1, <3>2, <1>a, CompletedEffect
  <2>1. LaunchKnown(q)'
    BY <2>0, <1>a, <1>b, <1>c DEF LaunchKnown, EpochsKnown, RowKnown, EventKnown, Under
  <2>2. PromptKnown(q)'
    BY <2>0, <1>a, <1>b, <1>c
    DEF PromptKnown, DeadHost, HasSettler, EpochsKnown, RowKnown, EventKnown, Under, Handling
  <2>3. CountKnown(q)'
    BY <2>0, <1>a, <1>b, <1>c
    DEF CountKnown, EpochsKnown, RowKnown, EventKnown, LaunchKnown, Closing, Pending, Handling,
        Under
  <2>4. HintKnown(q)'
    BY <2>0, <1>a, <1>b, <1>c
    DEF HintKnown, EpochsKnown, RowKnown, EventKnown, LaunchKnown, CountKnown, Closing, Handling,
        Under
  <2>5. WatchKnown(q)'
    BY <2>0, <1>a, <1>b, <1>c
    DEF WatchKnown, HasCheck, Present, EpochsKnown, RowKnown, EventKnown, WorkerKnown,
       LaunchKnown, Waits, InService,
        Handling, Under
  <2> QED
    BY <2>1, <2>2, <2>3, <2>4, <2>5 DEF CycleKnown
<1>3. CASE MarkForRecovery
  <2>0. /\ \/ /\ run[q].status = "running" /\ run[q].input # "accepted" /\ acp' # NoEvent
              /\ acp'.at = "release" /\ acp'.run = q
              /\ run'[q].status = "waiting" /\ run'[q].wait = "network_recovery"
              /\ run'[q].marked /\ run'[q].epoch = run[q].epoch
              /\ run'[q].cancelled = run[q].cancelled
              /\ run'[q].input = run[q].input /\ failures'[q] = failures[q] + 1
           \/ run' = run /\ failures' = failures /\ acp' # NoEvent /\ acp'.at = "stopTerminal"
              /\ acp'.run = q
        /\ acp.at = "mark"
        /\ UNCHANGED <<active, task, host, prompt, entry, worker, hints, overtaken, deadRoute,
                       coordinator, shutdown, restarts>>
    <3>1. acp.at = "mark" /\ UNCHANGED <<active, task, host, prompt, entry, worker, hints,
                                         overtaken, deadRoute, coordinator, shutdown, restarts>>
      BY <1>3 DEF MarkForRecovery
    <3>2. CASE Markable(q, run[q].epoch)
      <4>1. /\ run' = [run EXCEPT ![q].status = "waiting", ![q].wait = "network_recovery",
                                  ![q].marked = TRUE, ![q].shown = TRUE]
            /\ failures' = [failures EXCEPT ![q] = @ + 1] /\ Continues("release")
        BY <1>3, <1>c, <3>2 DEF MarkForRecovery
      <4>2. run[q].status = "running" /\ run[q].input # "accepted"
        BY <3>2 DEF Markable, InputSafe
      <4>3. failures'[q] = failures[q] + 1
        BY <4>1, <1>a
      <4>4. acp' # NoEvent /\ acp'.at = "release" /\ acp'.run = q
        BY <4>1, <1>c, ContinuesEffect
      <4>5. /\ run'[q].status = "waiting" /\ run'[q].wait = "network_recovery" /\ run'[q].marked
            /\ run'[q].epoch = run[q].epoch /\ run'[q].cancelled = run[q].cancelled
            /\ run'[q].input = run[q].input
        BY <4>1, <1>a, MarkEffect
      <4> QED
        BY <3>1, <4>2, <4>3, <4>4, <4>5
    <3>3. CASE ~Markable(q, run[q].epoch)
      <4>1. run' = run /\ failures' = failures /\ Continues("stopTerminal")
        BY <1>3, <1>c, <3>3 DEF MarkForRecovery
      <4> QED
        BY <3>1, <4>1, <1>c, ContinuesEffect
    <3> QED
      BY <3>2, <3>3
  <2>1. LaunchKnown(q)'
    BY <2>0, <1>a, <1>b, <1>c DEF LaunchKnown, EpochsKnown, RowKnown, EventKnown, Under
  <2>2. PromptKnown(q)'
    BY <2>0, <1>a, <1>b, <1>c
    DEF PromptKnown, DeadHost, HasSettler, EpochsKnown, RowKnown, EventKnown, Under, Handling
  <2>3. CountKnown(q)'
    BY <2>0, <1>a, <1>b, <1>c
    DEF CountKnown, EpochsKnown, RowKnown, EventKnown, LaunchKnown, Closing, Pending, Handling,
        Under
  <2>4. HintKnown(q)'
    BY <2>0, <1>a, <1>b, <1>c
    DEF HintKnown, EpochsKnown, RowKnown, EventKnown, LaunchKnown, CountKnown, Closing, Handling,
        Under
  <2>5. WatchKnown(q)'
    BY <2>0, <1>a, <1>b, <1>c
    DEF WatchKnown, HasCheck, Present, EpochsKnown, RowKnown, EventKnown, WorkerKnown,
       LaunchKnown, Waits, InService,
        Handling, Under
  <2> QED
    BY <2>1, <2>2, <2>3, <2>4, <2>5 DEF CycleKnown
<1>4. CASE ReleaseMarked
  <2>0. /\ acp' # NoEvent /\ acp'.at = "register" /\ acp'.run = q
        /\ acp.at = "release"
        /\ UNCHANGED <<run, task, host, prompt, entry, worker, failures, hints, overtaken,
                       deadRoute, coordinator,
                       shutdown, restarts>>
    BY <1>4, <1>a, <1>c, ContinuesEffect DEF ReleaseMarked
  <2>1. LaunchKnown(q)'
    BY <2>0, <1>a, <1>b, <1>c DEF LaunchKnown, EpochsKnown, RowKnown, EventKnown, Under
  <2>2. PromptKnown(q)'
    BY <2>0, <1>a, <1>b, <1>c
    DEF PromptKnown, DeadHost, HasSettler, EpochsKnown, RowKnown, EventKnown, Under, Handling
  <2>3. CountKnown(q)'
    BY <2>0, <1>a, <1>b, <1>c
    DEF CountKnown, EpochsKnown, RowKnown, EventKnown, LaunchKnown, Closing, Pending, Handling,
        Under
  <2>4. HintKnown(q)'
    BY <2>0, <1>a, <1>b, <1>c
    DEF HintKnown, EpochsKnown, RowKnown, EventKnown, LaunchKnown, CountKnown, Closing, Handling,
        Under
  <2>5. WatchKnown(q)'
    BY <2>0, <1>a, <1>b, <1>c
    DEF WatchKnown, HasCheck, Present, EpochsKnown, RowKnown, EventKnown, WorkerKnown,
       LaunchKnown, Waits, InService,
        Handling, Under
  <2> QED
    BY <2>1, <2>2, <2>3, <2>4, <2>5 DEF CycleKnown
<1>5. CASE RegisterMarked
  <2>0. /\ \/ shutdown /\ entry' = entry
           \/ /\ entry'[q].epoch = run[q].epoch /\ entry'[q].attempt = entry[q].attempt + 1
              /\ entry'[q].woken = entry[q].woken /\ ~entry'[q].inFlight
        /\ acp' = NoEvent /\ acp.at = "register"
        /\ UNCHANGED <<run, active, task, host, prompt, worker, failures, hints, overtaken,
                       deadRoute, coordinator,
                       shutdown, restarts>>
    <3>1. /\ acp.at = "register" /\ acp' = NoEvent
          /\ entry' = IF shutdown THEN entry ELSE Registered(q, run[q].epoch)
          /\ UNCHANGED <<run, active, task, host, prompt, worker, failures, hints, overtaken,
                         deadRoute, coordinator,
                         shutdown, restarts>>
      BY <1>5, <1>c DEF RegisterMarked
    <3>2. entry[q].epoch < run[q].epoch /\ entry[q].attempt <= entry[q].epoch
      BY <3>1, <1>a, <1>c DEF EventKnown, EpochsKnown, Under
    <3> QED
      BY <3>1, <3>2, <1>a, <1>b, RegisteredEffect
  <2>1. LaunchKnown(q)'
    BY <2>0, <1>a, <1>b, <1>c DEF LaunchKnown, EpochsKnown, RowKnown, EventKnown, Under
  <2>2. PromptKnown(q)'
    BY <2>0, <1>a, <1>b, <1>c
    DEF PromptKnown, DeadHost, HasSettler, EpochsKnown, RowKnown, EventKnown, Under, Handling
  <2>3. CountKnown(q)'
    BY <2>0, <1>a, <1>b, <1>c
    DEF CountKnown, EpochsKnown, RowKnown, EventKnown, LaunchKnown, Closing, Pending, Handling,
        Under
  <2>4. HintKnown(q)'
    <3>1. run' = run /\ hints' = hints /\ shutdown' = shutdown /\ task' = task
      BY <2>0
    <3>2. CASE run[q].status = "ended" \/ overtaken[q] # 0
      BY <2>0, <3>1, <3>2 DEF HintKnown
    <3>3. CASE run[q].status # "ended" /\ overtaken[q] = 0
      <4>1. run[q].status = "waiting" /\ run[q].wait = "network_recovery" /\ ~Handling(q, {"settle", "lost"})
        BY <2>0, <3>3, <1>a, <1>c DEF EventKnown, Under, Handling
      <4>2. ~Closing(q)
        BY <3>3, <4>1, <1>c DEF Closing
      <4>3. hints[q] <= 1 /\ (hints[q] # 0 => entry[q].woken \/ (entry[q] = NoEntry /\ shutdown))
        BY <3>3, <4>2, <1>a DEF HintKnown
      <4>4. CASE shutdown /\ entry' = entry
        BY <3>1, <4>3, <4>4 DEF HintKnown
      <4>5. CASE ~shutdown /\ entry'[q].woken = entry[q].woken
        BY <3>1, <4>3, <4>5 DEF HintKnown
      <4>6. CASE shutdown /\ entry' # entry
        <5>1. entry' = entry
          BY <1>5, <4>6 DEF RegisterMarked
        <5> QED
          BY <4>6, <5>1
      <4> QED
        BY <2>0, <4>4, <4>5, <4>6
    <3> QED
      BY <3>2, <3>3
  <2>5. WatchKnown(q)'
    BY <2>0, <1>a, <1>b, <1>c
    DEF WatchKnown, HasCheck, Present, EpochsKnown, RowKnown, EventKnown, WorkerKnown,
       LaunchKnown, Waits, InService,
        Handling, Under
  <2> QED
    BY <2>1, <2>2, <2>3, <2>4, <2>5 DEF CycleKnown
<1>6. CASE StopTerminal
  <2>0. /\ entry'[q] \in {entry[q], NoEntry}
        /\ acp' # NoEvent /\ acp'.at = "settle" /\ acp'.run = q
        /\ acp.at = "stopTerminal"
        /\ UNCHANGED <<run, active, task, host, prompt, worker, failures, hints, overtaken,
                       deadRoute, coordinator,
                       shutdown, restarts>>
    BY <1>6, <1>a, <1>c, CompletedEffect, ContinuesEffect DEF StopTerminal
  <2>1. LaunchKnown(q)'
    BY <2>0, <1>a, <1>b, <1>c DEF LaunchKnown, EpochsKnown, RowKnown, EventKnown, Under
  <2>2. PromptKnown(q)'
    BY <2>0, <1>a, <1>b, <1>c
    DEF PromptKnown, DeadHost, HasSettler, EpochsKnown, RowKnown, EventKnown, Under, Handling
  <2>3. CountKnown(q)'
    BY <2>0, <1>a, <1>b, <1>c
    DEF CountKnown, EpochsKnown, RowKnown, EventKnown, LaunchKnown, Closing, Pending, Handling,
        Under
  <2>4. HintKnown(q)'
    <3>1. hints' = hints /\ run' = run /\ overtaken' = overtaken /\ Closing(q)'
      BY <2>0, <1>c DEF Closing, Handling
    <3>2. entry'[q] = NoEntry \/ (entry'[q] = entry[q] /\ HintKnown(q))
      BY <2>0, <1>a
    <3> QED
      BY <3>1, <3>2, <1>a DEF HintKnown
  <2>5. WatchKnown(q)'
    BY <2>0, <1>a, <1>b, <1>c
    DEF WatchKnown, HasCheck, Present, EpochsKnown, RowKnown, EventKnown, WorkerKnown,
       LaunchKnown, Waits, InService,
        Handling, Under
  <2> QED
    BY <2>1, <2>2, <2>3, <2>4, <2>5 DEF CycleKnown
<1>7. CASE SettleTerminal \/ ReconcileLoss
  <2>0. /\ run'[q].status = "ended" /\ ~run'[q].marked /\ run'[q].input = run[q].input
        /\ run'[q].epoch = run[q].epoch
        /\ acp' = NoEvent
        /\ UNCHANGED <<task, host, prompt, entry, worker, failures, hints, overtaken, deadRoute,
                       coordinator, shutdown,
                       restarts>>
    <3>1. acp.at \in {"settle", "lost"} /\ run' = Terminal(q, run[q].epoch) /\ acp' = NoEvent
          /\ UNCHANGED <<task, host, prompt, entry, worker, failures, hints, overtaken,
                         deadRoute, coordinator, shutdown,
                         restarts>>
      BY <1>7, <1>c DEF SettleTerminal, ReconcileLoss, Settles
    <3>2. run[q].status # "waiting"
      BY <3>1, <1>a, <1>c DEF EventKnown, Under
    <3> QED
      BY <3>1, <3>2, <1>a, <1>b, TerminalEffect, EndedEffect DEF RowKnown
  <2>1. LaunchKnown(q)'
    BY <2>0, <1>a, <1>b, <1>c DEF LaunchKnown, EpochsKnown, RowKnown, EventKnown, Under
  <2>2. PromptKnown(q)'
    BY <2>0, <1>a, <1>b, <1>c
    DEF PromptKnown, DeadHost, HasSettler, EpochsKnown, RowKnown, EventKnown, Under, Handling
  <2>3. CountKnown(q)'
    BY <2>0, <1>a, <1>b, <1>c
    DEF CountKnown, EpochsKnown, RowKnown, EventKnown, LaunchKnown, Closing, Pending, Handling,
        Under
  <2>4. HintKnown(q)'
    BY <2>0, <1>a, <1>b, <1>c
    DEF HintKnown, EpochsKnown, RowKnown, EventKnown, LaunchKnown, CountKnown, Closing, Handling,
        Under
  <2>5. WatchKnown(q)'
    BY <2>0, <1>a, <1>b, <1>c
    DEF WatchKnown, HasCheck, Present, EpochsKnown, RowKnown, EventKnown, WorkerKnown,
       LaunchKnown, Waits, InService,
        Handling, Under
  <2> QED
    BY <2>1, <2>2, <2>3, <2>4, <2>5 DEF CycleKnown
<1> QED
  BY <1>1, <1>2, <1>3, <1>4, <1>5, <1>6, <1>7 DEF LoopStep

\* ... by the steps of other runs, and by those that are about every run.
LEMMA SameCycle ==
  ASSUME TypeOK, NEW q \in Run, RunKnown(q), CycleKnown(q), Same(q)
  PROVE  CycleKnown(q)'
<1>1. LaunchKnown(q)'
  BY DEF CycleKnown, LaunchKnown, Same, Under
<1>2. PromptKnown(q)'
  BY DEF CycleKnown, PromptKnown, DeadHost, HasSettler, Same, Under, Handling
<1>3. \A stages : Handling(q, stages)' <=> Handling(q, stages)
  BY DEF Same, Under, Handling
<1>4. Closing(q)' <=> Closing(q)
  BY <1>3 DEF Same, Closing
<1>5. Pending(q)' = Pending(q)
  BY <1>3 DEF Pending
<1>6. CountKnown(q)'
  BY <1>3, <1>4, <1>5 DEF CycleKnown, CountKnown, Same
<1>7. HintKnown(q)'
  BY <1>4 DEF CycleKnown, HintKnown, Same
<1>8. WatchKnown(q)'
  BY <1>3 DEF CycleKnown, WatchKnown, HasCheck, Present, Waits, InService, Same
<1> QED
  BY <1>1, <1>2, <1>6, <1>7, <1>8 DEF CycleKnown

\* A step that is taken for all runs keeps the place of each in the cycle of recovery.
LEMMA AllStepCycle ==
  ASSUME TypeOK, NEW q \in Run, RunKnown(q), CycleKnown(q),
         Wake \/ TakeDue \/ StopCoordinator \/ Restart
  PROVE  CycleKnown(q)'
<1>a. /\ run \in RunRow /\ entry \in QueueRow /\ DOMAIN worker = Run /\ DOMAIN active = Run
      /\ DOMAIN host = Run /\ DOMAIN prompt = Run /\ DOMAIN failures = Run /\ DOMAIN hints = Run
      /\ task \in [Run -> [Epoch -> {"none", "starting", "unsent", "sent", "failing", "done"}]]
      /\ EpochsKnown(q) /\ RowKnown(q) /\ EventKnown(q) /\ WorkerKnown(q)
      /\ LaunchKnown(q) /\ PromptKnown(q) /\ CountKnown(q) /\ HintKnown(q) /\ WatchKnown(q)
  BY Typed DEF TypeOK, RunRow, QueueRow, RunKnown, CycleKnown
<1>b. /\ NoEntry.epoch = 0 /\ NoEntry.attempt = 0 /\ ~NoEntry.woken /\ Idle.epoch = 0
      /\ NoEvent.at = "idle"
      /\ run[q].epoch \in Epoch /\ run[q].epoch \in Nat /\ \A n \in Epoch : n \in Nat /\ n # 0
      /\ host[q] \in {0} \cup Epoch /\ failures[q] \in Nat /\ hints[q] \in Nat
      /\ entry[q].epoch \in Nat /\ entry[q].attempt \in Nat /\ worker[q].epoch \in Nat
      /\ run[q].status \in {"running", "waiting", "ended"} /\ run[q].wait \in Wait
      /\ entry[q] = NoEntry <=> entry[q].epoch = 0
      /\ (worker[q].at = "none" <=> worker[q] = Idle)
      /\ worker[q].at \in {"none", "begin", "rejected", "admitted", "dispatched"}
      /\ \A n \in Epoch : task[q][n] \in {"none", "starting", "unsent", "sent", "failing", "done"}
  BY Typed, EntryShape, Bounds, Events DEF RunState
<1>1. CASE Wake
  <2>1. /\ entry'[q].epoch = entry[q].epoch /\ entry'[q].attempt = entry[q].attempt
        /\ entry'[q].inFlight = entry[q].inFlight /\ (entry[q] = NoEntry => entry'[q] = NoEntry)
        /\ \/ entry'[q].woken = entry[q].woken /\ hints'[q] = hints[q]
           \/ ~entry[q].woken /\ entry'[q].woken /\ hints'[q] = hints[q] + 1 /\ entry[q] # NoEntry
        /\ UNCHANGED <<run, active, task, host, prompt, acp, worker, failures, overtaken,
                       deadRoute, coordinator,
                       shutdown, restarts>>
    <3>1. hints'[q] = IF q \in Wakeable THEN hints[q] + 1 ELSE hints[q]
      BY <1>1 DEF Wake
    <3>2. hints'[q] = hints[q] + 1 => entry[q] # NoEntry
      BY <3>1, <1>b DEF Wakeable, Present
    <3>3. UNCHANGED <<run, active, task, host, prompt, acp, worker, failures, overtaken,
                      deadRoute, coordinator,
                      shutdown, restarts>>
      BY <1>1 DEF Wake
    <3> QED
      BY <1>1, <1>a, <3>2, <3>3, WakeEffect
  <2>2. LaunchKnown(q)' /\ PromptKnown(q)'
    BY <2>1, <1>a DEF LaunchKnown, PromptKnown, DeadHost, HasSettler, Under, Handling
  <2>3. CountKnown(q)'
    BY <2>1, <1>a, <1>b DEF CountKnown, Closing, Pending, Handling
  <2>4. HintKnown(q)'
    BY <2>1, <1>a, <1>b DEF HintKnown, Closing, Handling
  <2>5. WatchKnown(q)'
    BY <2>1, <1>a, <1>b DEF WatchKnown, HasCheck, Present, Waits, InService, Handling
  <2> QED
    BY <2>2, <2>3, <2>4, <2>5 DEF CycleKnown
<1>2. CASE TakeDue
  <2>1. /\ entry'[q].epoch = entry[q].epoch /\ entry'[q].attempt = entry[q].attempt
        /\ entry'[q].woken = entry[q].woken /\ (entry[q] = NoEntry => entry'[q] = NoEntry)
        /\ \/ worker'[q] = Idle /\ entry'[q] = entry[q]
           \/ worker'[q].epoch = entry[q].epoch
        /\ worker[q].epoch = 0
        /\ UNCHANGED <<run, active, task, host, prompt, acp, failures, hints, overtaken,
                       deadRoute, coordinator,
                       shutdown, restarts>>
    <3>1. worker[q] = Idle
      BY <1>2, <1>b DEF TakeDue, At
    <3>2. UNCHANGED <<run, active, task, host, prompt, acp, failures, hints, overtaken,
                      deadRoute, coordinator, shutdown,
                      restarts>>
      BY <1>2 DEF TakeDue
    <3>3. /\ entry'[q].epoch = entry[q].epoch /\ entry'[q].attempt = entry[q].attempt
          /\ entry'[q].woken = entry[q].woken /\ (entry[q] = NoEntry => entry'[q] = NoEntry)
          /\ \/ worker'[q] = Idle /\ entry'[q] = entry[q]
             \/ worker'[q] = [at |-> "begin", epoch |-> entry[q].epoch]
      BY <1>2, <1>a, TakeDueEffect
    <3> QED
      BY <1>b, <3>1, <3>2, <3>3
  <2>2. LaunchKnown(q)' /\ PromptKnown(q)'
    BY <2>1, <1>a DEF LaunchKnown, PromptKnown, DeadHost, HasSettler, Under, Handling
  <2>3. CountKnown(q)'
    BY <2>1, <1>a, <1>b DEF CountKnown, Closing, Pending, Handling
  <2>4. HintKnown(q)'
    BY <2>1, <1>a, <1>b DEF HintKnown, Closing, Handling
  <2>5. WatchKnown(q)'
    BY <2>1, <1>a, <1>b DEF WatchKnown, HasCheck, Present, Waits, InService, Handling
  <2> QED
    BY <2>2, <2>3, <2>4, <2>5 DEF CycleKnown
<1>3. CASE StopCoordinator
  <2>1. /\ entry'[q] = NoEntry /\ coordinator' = "stopped" /\ shutdown /\ shutdown' = shutdown
        /\ UNCHANGED <<run, active, task, host, prompt, acp, failures, hints, overtaken, deadRoute>>
    BY <1>3 DEF StopCoordinator
  <2> QED
    BY <2>1, <1>a, <1>b DEF CycleKnown, LaunchKnown, PromptKnown, CountKnown, HintKnown, WatchKnown,
       InService, DeadHost, HasSettler, Under, Handling
<1>4. CASE Restart
  <2>1. /\ run'[q] = Recovered(q) /\ host'[q] = 0 /\ prompt'[q] = "none" /\ acp' = NoEvent
        /\ entry'[q] = NoEntry /\ worker'[q] = Idle /\ failures'[q] = 0 /\ hints'[q] = 0
        /\ restarts' = restarts + 1
    BY <1>4 DEF Restart
  <2>2. \A e \in Epoch : task'[q][e] \in {"none", "done"}
    BY <1>4, <1>a DEF Restart
  <2>3. restarts' # 0
    BY <2>1 DEF TypeOK
  <2>4. LaunchKnown(q)' /\ PromptKnown(q)'
    <3>1. run'[q].status # "running"
      BY <2>1, <1>a, RecoveredEffect
    <3> QED
      BY <2>1, <3>1 DEF LaunchKnown, PromptKnown, DeadHost, Under
  <2>5. CountKnown(q)' /\ HintKnown(q)'
    BY <2>1, <1>b DEF CountKnown, HintKnown, Pending, Handling
  <2>6. run'[q].wait # "network_recovery" \/ run'[q].status # "waiting"
    BY <2>1, <1>a, RecoveredEffect
  <2>7. WatchKnown(q)'
    BY <2>3, <2>6 DEF WatchKnown, HasCheck, Present, Waits
  <2> QED
    BY <2>4, <2>5, <2>7 DEF CycleKnown
<1> QED
  BY <1>1, <1>2, <1>3, <1>4

\* At the start every run is launched for the first time and nothing waits.
LEMMA InitCycle ==
  ASSUME Init
  PROVE  CycleInv
<1>1. ASSUME NEW r \in Run
      PROVE  CycleKnown(r)
  <2>1. /\ run[r] = [status |-> "running", wait |-> "none", epoch |-> 1, input |-> "none",
                     marked |-> FALSE, shown |-> FALSE, cancelled |-> FALSE]
        /\ active[r].epoch = 1 /\ host[r] = 0 /\ prompt[r] = "none" /\ acp = NoEvent
        /\ entry[r] = NoEntry /\ failures[r] = 0 /\ hints[r] = 0 /\ overtaken[r] = 0
        /\ \A e \in Epoch : task[r][e] = IF e = 1 THEN "starting" ELSE "none"
    BY DEF Init
  <2> QED
    BY <2>1, Bounds DEF CycleKnown, LaunchKnown, PromptKnown, DeadHost, CountKnown, HintKnown,
       WatchKnown, Waits, Under, Handling
<1> QED
  BY <1>1, InitKnown DEF CycleInv

\* Every step keeps the cycle of recovery.
LEMMA StepCycle ==
  ASSUME CycleInv, [Next]_vars
  PROVE  CycleInv'
<1>1. EpochInv /\ TypeOK /\ \A r \in Run : RunKnown(r) /\ CycleKnown(r)
  BY DEF CycleInv, EpochInv
<1>2. EpochInv'
  BY <1>1, StepKnown
<1>3. ASSUME NEW q \in Run
      PROVE  CycleKnown(q)'
  BY <1>1, <1>3, Focus, SameCycle, LoopStepCycle, RunStepCycle, LaunchStepCycle, AllStepCycle
<1> QED
  BY <1>2, <1>3 DEF CycleInv

\* The cycle of recovery in every behaviour.
LEMMA CycleHolds == Spec => []CycleInv
<1>1. Init => CycleInv
  BY InitCycle
<1>2. CycleInv /\ [Next]_vars => CycleInv'
  BY StepCycle
<1> QED
  BY <1>1, <1>2, PTL DEF Spec

\* A run that waits for the network is never forgotten while the core is in service: between
\* mark_for_network_recovery and the next claim there is always a registration under way or a
\* check of its own epoch, and a check in flight has the worker that answers for it. The answer
\* may come before the launch task records its handoff; the only run that loses its check is the
\* one whose handoff then fails.
THEOREM WatchedHolds == Spec => []Watched
<1>1. CycleInv => Watched
  BY DEF CycleInv, CycleKnown, WatchKnown, Watched
<1> QED
  BY <1>1, CycleHolds, PTL

\* The queue, the rows and the Hosts agree: the backoff of a check is the number of network
\* failures of the cycle and a cycle is brought forward by one hint at most, unless a handoff
\* that came too late took a check out; and a running run whose Host died has somebody left to
\* settle it, unless its launch bound the route of the dead Host.
THEOREM RecoveryAgreesHolds == Spec => []RecoveryAgrees
<1>1. CycleInv => TypeOK /\ OneHint /\ DeadHostSettled
  BY DEF CycleInv, EpochInv, CycleKnown, HintKnown, OneHint, PromptKnown, DeadHostSettled
<1>2. CycleInv => BackoffKept
  <2> SUFFICES ASSUME CycleInv, NEW r \in Run, InService, Present(r), run[r].marked,
                      overtaken[r] = 0
               PROVE  entry[r].attempt + (IF Handling(r, {"release", "register"}) THEN 1 ELSE 0) = failures[r]
    BY DEF BackoffKept
  <2> QED
    BY DEF CycleInv, CycleKnown, CountKnown, InService, Present, Pending
<1>3. CycleInv => RecoveryAgrees
  BY <1>1, <1>2 DEF RecoveryAgrees
<1> QED
  BY <1>3, CycleHolds, PTL
=============================================================================
