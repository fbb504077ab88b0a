------------------------ MODULE RuntimeFleet_proofs -------------------------
(***************************************************************************)
(* Theorems about RuntimeFleet for every number of executions, processes,  *)
(* bindings, members, Threads and crashes, and for every adapter.          *)
(***************************************************************************)
EXTENDS RuntimeFleet, FiniteSetTheorems, TLAPS

-----------------------------------------------------------------------------
(* The inductive invariant of the tables: the stages of a process.         *)

Unborn == {"evicting", "denied", "begin"}                       \* no process yet
Unsettled == Unborn \cup {"spawning", "spawned", "retiring"}    \* not committed yet

\* An entry, its start, its stop and its process tell the same story.
Stage ==
    \A p \in Process :
        /\ entry[p].state = "absent" <=> startup[p] = "none"
        /\ entry[p].state = "absent" => entry[p] = Absent /\ os[p] = "none" /\ stop[p] = "none"
        /\ entry[p].state = "Starting" <=> startup[p] \in Unsettled
        /\ startup[p] \in Unborn => os[p] = "none"
        /\ startup[p] \in Unsettled \ Unborn => os[p] # "none"
        /\ entry[p].state \in {"Starting", "Busy"} => entry[p].lease # None
        /\ entry[p].state \in {"Busy", "IdleWarm"} => os[p] # "none"
        /\ entry[p].state = "IdleWarm" => entry[p].lease = None /\ ~entry[p].retire
        /\ stop[p] # "none" => entry[p].state \in {"Stopping", "removed"}
        /\ stop[p] \in {"planned", "reaping", "expired"} => entry[p].state = "Stopping"
        /\ stop[p] = "removed" => entry[p].state = "removed" /\ os[p] = "dead"
        /\ entry[p].state # "absent" => entry[p].scope # None
        /\ entry[p].lease # None => entry[p].scope = ScopeOf[entry[p].lease]

\* A record is of a process that was spawned; what was reaped is dead.
Recorded ==
    \A p \in Process : /\ record[p].state = "live" => os[p] # "none"
                       /\ record[p].state = "reaped" => os[p] = "dead"

\* A stop that a launch has planned and did not dispatch yet is its own.
Plans ==
    \A l \in Lease, p \in Process : wait[<<"launch", l>>][p] = "planned" =>
        /\ stop[p] = "planned"
        /\ \A m \in Lease : wait[<<"launch", m>>][p] = "planned" => m = l

HostInv == TypeOK /\ Stage /\ Recorded /\ LeaseBookkeeping /\ Plans

-----------------------------------------------------------------------------
(* What callers hear.                                                      *)

\* An operation answers those who wait for it and nobody else.
LEMMA AnswerHears ==
  ASSUME TypeOK, NEW p \in Process, NEW answers, DOMAIN answers \subseteq Waiting,
         \A w \in DOMAIN answers : answers[w] \in Answers
  PROVE  /\ Answer(p, answers) \in [Caller -> [Process -> Wait]]
         /\ \A c \in Caller :
              /\ \A q \in Process \ {p} : Answer(p, answers)[c][q] = wait[c][q]
              /\ wait[c][p] \in DOMAIN answers =>
                    Answer(p, answers)[c][p] = answers[wait[c][p]]
              /\ wait[c][p] \notin DOMAIN answers => Answer(p, answers)[c][p] = wait[c][p]
<1> wait \in [Caller -> [Process -> Wait]]
  BY DEF TypeOK
<1> QED
  BY DEF Answer, Wait

\* The answers of a start that failed.
LEMMA StartFailedHeard ==
  /\ DOMAIN StartFailed = {"start", "cancel"} /\ DOMAIN StartFailed \subseteq Waiting
  /\ StartFailed["start"] = "no" /\ StartFailed["cancel"] = "yes"
  /\ \A w \in DOMAIN StartFailed : StartFailed[w] \in Answers
BY DEF StartFailed, Waiting, Answers

\* The answers of a start that was committed.
StartDone == [start |-> "yes", cancel |-> "no"]
\* What they are.
LEMMA StartDoneHeard ==
  /\ DOMAIN StartDone = {"start", "cancel"} /\ DOMAIN StartDone \subseteq Waiting
  /\ StartDone["start"] = "yes" /\ StartDone["cancel"] = "no"
  /\ \A w \in DOMAIN StartDone : StartDone[w] \in Answers
BY DEF StartDone, Waiting, Answers

\* The answer about a Host that retires.
LEMMA RetireHeard ==
  ASSUME NEW a \in Answers
  PROVE  /\ DOMAIN [retire |-> a] = {"retire"} /\ DOMAIN [retire |-> a] \subseteq Waiting
         /\ [retire |-> a]["retire"] = a
         /\ \A w \in DOMAIN [retire |-> a] : [retire |-> a][w] \in Answers
BY DEF Waiting

\* The answers about a stop.
StopDone(p) == [stop |-> IF stop[p] = "removed" THEN "yes" ELSE "no",
                awaited |-> IF stop[p] = "removed" THEN "yes" ELSE "failed"]
\* What they are.
LEMMA StopHeard ==
  ASSUME NEW p
  PROVE  /\ DOMAIN StopDone(p) = {"stop", "awaited"} /\ DOMAIN StopDone(p) \subseteq Waiting
         /\ StopDone(p)["stop"] = IF stop[p] = "removed" THEN "yes" ELSE "no"
         /\ StopDone(p)["awaited"] = IF stop[p] = "removed" THEN "yes" ELSE "failed"
         /\ \A w \in DOMAIN StopDone(p) : StopDone(p)[w] \in Answers
BY DEF StopDone, Waiting, Answers

-----------------------------------------------------------------------------
(* What a step does to one process.                                        *)

Identity(p) ==
    /\ entry'[p].scope = entry[p].scope /\ entry'[p].policy = entry[p].policy
    /\ entry'[p].resident = entry[p].resident /\ entry'[p].evicts = entry[p].evicts

Marks(p, state, lease, retire, cancelled) ==
    /\ Identity(p)
    /\ entry'[p].state = state /\ entry'[p].lease = lease
    /\ entry'[p].retire = retire /\ entry'[p].cancelled = cancelled

OnlyEntry(p) == startup'[p] = startup[p] /\ stop'[p] = stop[p] /\ os'[p] = os[p]

\* Nothing, or its process exits.
Rests(p) ==
    /\ entry'[p] = entry[p] /\ startup'[p] = startup[p] /\ stop'[p] = stop[p]
    /\ os'[p] = os[p] \/ (os[p] # "none" /\ os'[p] = "dead")

\* It is reserved for an execution.
Reserves(l, p) ==
    /\ launch[l] = "acquiring" /\ ~Blocked(l) /\ CompatibleIdle(l) = {}
    /\ entry'[p].state = "Starting" /\ entry'[p].lease = l /\ entry'[p].scope = ScopeOf[l]
    /\ entry'[p].policy = policy[l] /\ ~entry'[p].retire /\ ~entry'[p].cancelled
    /\ launch'[l] = "waiting" /\ wait'[<<"launch", l>>][p] = "start"
Reserved(p) ==
    /\ entry[p].state = "absent" /\ startup'[p] \in {"begin", "evicting"}
    /\ stop'[p] = stop[p] /\ os'[p] = os[p]
    /\ \E l \in Lease : Reserves(l, p)

\* A warm Host is leased again.
Takes(l, p) ==
    /\ launch[l] = "acquiring" /\ ~Blocked(l) /\ p \in CompatibleIdle(l)
    /\ Marks(p, "Busy", l, entry[p].retire, entry[p].cancelled)
Taken(p) ==
    /\ entry[p].state = "IdleWarm" /\ OnlyEntry(p)
    /\ \E l \in Lease : Takes(l, p)

\* A Host is given back.
Warmed(p) ==
    /\ entry[p].state = "Busy" /\ ~entry[p].retire /\ OnlyEntry(p)
    /\ Marks(p, "IdleWarm", None, FALSE, entry[p].cancelled)

\* It retires when its run ends.
Marked(p) ==
    /\ entry[p].state \in {"Busy", "Stopping"} /\ OnlyEntry(p)
    /\ Marks(p, entry[p].state, entry[p].lease, TRUE, entry[p].cancelled)

\* Its start is cancelled.
Cancelled(p) ==
    /\ entry[p].state = "Starting" /\ OnlyEntry(p)
    /\ Marks(p, "Starting", entry[p].lease, TRUE, TRUE)

\* It is stopped, or its stop goes on.
Stopped(p) ==
    /\ entry[p].state \in {"Busy", "IdleWarm", "Stopping"}
    /\ \E r \in BOOLEAN : Marks(p, "Stopping", entry[p].lease, r, entry[p].cancelled)
    /\ IF Launches(p) THEN stop'[p] \in {"planned", "reaping"} ELSE stop'[p] = stop[p]
    /\ startup'[p] = startup[p] /\ os'[p] = os[p]

\* Its start goes on.
Spawned(p) ==
    /\ startup[p] = "begin" /\ ~entry[p].cancelled
    /\ startup'[p] = "spawning" /\ os'[p] = "alive"
    /\ entry'[p] = entry[p] /\ stop'[p] = stop[p]
StartMoves(p) ==
    /\ entry'[p] = entry[p] /\ stop'[p] = stop[p] /\ os'[p] = os[p]
    /\ \/ startup[p] = "evicting" /\ startup'[p] \in {"begin", "denied"}
       \/ startup[p] = "spawning" /\ startup'[p] \in {"spawned", "retiring"}
       \/ startup[p] = "spawned" /\ startup'[p] = "retiring"
       \/ startup[p] = "committed" /\ startup'[p] = "over"
Committed(p) ==
    /\ startup[p] = "spawned" /\ startup'[p] = "committed"
    /\ entry[p].state = "Starting" /\ ~entry[p].retire /\ ~entry[p].cancelled
    /\ CampOf[entry[p].scope] \notin deleting
    /\ Marks(p, "Busy", entry[p].lease, FALSE, FALSE)
    /\ stop'[p] = stop[p] /\ os'[p] = os[p]

\* Its start fails.
Failed(p) ==
    /\ entry[p].state = "Starting" /\ startup'[p] = "over"
    /\ Marks(p, "removed", entry[p].lease, entry[p].retire, entry[p].cancelled)
    /\ stop'[p] = stop[p] /\ os'[p] # "alive"
Unreaped(p) ==
    /\ startup[p] = "retiring" /\ startup'[p] = "over"
    /\ Marks(p, "Stopping", entry[p].lease, TRUE, entry[p].cancelled)
    /\ stop'[p] = stop[p] /\ os'[p] = os[p]

\* Its stop ends.
Reaps(p) ==
    /\ stop[p] = "reaping" /\ stop'[p] = "removed" /\ os'[p] = "dead"
    /\ Marks(p, "removed", entry[p].lease, entry[p].retire, entry[p].cancelled)
    /\ startup'[p] = startup[p]
StopMoves(p) ==
    /\ entry'[p] = entry[p] /\ startup'[p] = startup[p] /\ os'[p] = os[p]
    /\ \/ stop[p] = "planned" /\ stop'[p] = "reaping"
       \/ stop[p] = "reaping" /\ stop'[p] = "expired"
       \/ stop[p] \in {"removed", "expired"} /\ stop'[p] = "over"

\* The core forgets it.
Lost(p) ==
    /\ restarts' > 0 /\ os'[p] = os[p]
    /\ \A l \in Lease : launch[l] # "idle" => launch'[l] = "lost"
    /\ Marks(p, IF p \in Present THEN "removed" ELSE entry[p].state, entry[p].lease,
             entry[p].retire, entry[p].cancelled)
    /\ entry[p].state = "absent" => entry'[p] = entry[p]
    /\ startup'[p] = (IF startup[p] = "none" THEN "none" ELSE "over")
    /\ stop'[p] = (IF stop[p] = "none" THEN "none" ELSE "over")

HostStep(p) ==
    \/ Rests(p) \/ Reserved(p) \/ Taken(p) \/ Warmed(p) \/ Marked(p) \/ Cancelled(p)
    \/ Stopped(p) \/ Spawned(p) \/ StartMoves(p) \/ Committed(p) \/ Failed(p) \/ Unreaped(p)
    \/ Reaps(p) \/ StopMoves(p) \/ Lost(p)

-----------------------------------------------------------------------------
(* Stops: plan_stop and what asks for it.                                  *)

\* An entry is a record with these fields.
LEMMA EntryFields ==
  ASSUME TypeOK, NEW p \in Process
  PROVE  /\ entry[p] \in ProcessEntry
         /\ entry[p].state \in {"absent", "Starting", "Busy", "IdleWarm", "Stopping", "removed"}
         /\ entry[p].lease \in Lease \cup {None} /\ entry[p].scope \in Scope \cup {None}
         /\ entry[p].policy \in Policy \cup {None} /\ entry[p].evicts \in Process \cup {None}
         /\ entry[p].resident \in BOOLEAN /\ entry[p].retire \in BOOLEAN
         /\ entry[p].cancelled \in BOOLEAN
         /\ startup[p] \in Startup /\ stop[p] \in StopTask /\ os[p] \in {"none", "alive", "dead"}
BY DEF TypeOK, ProcessEntry

\* What a stop makes of an entry.
LEMMA StopEntryFields ==
  ASSUME TypeOK, NEW p \in Process
  PROVE  /\ StopEntry(p) \in ProcessEntry
         /\ entry[p].state = "Starting" =>
              StopEntry(p).state = "Starting" /\ StopEntry(p).retire = TRUE
              /\ StopEntry(p).cancelled = TRUE
         /\ entry[p].state # "Starting" =>
              StopEntry(p).state = "Stopping" /\ StopEntry(p).retire = entry[p].retire
              /\ StopEntry(p).cancelled = entry[p].cancelled
         /\ StopEntry(p).lease = entry[p].lease /\ StopEntry(p).scope = entry[p].scope
         /\ StopEntry(p).policy = entry[p].policy /\ StopEntry(p).resident = entry[p].resident
         /\ StopEntry(p).evicts = entry[p].evicts
<1>1. entry[p] \in ProcessEntry
  BY DEF TypeOK
<1>2. CASE entry[p].state = "Starting"
  <2>1. StopEntry(p) = [entry[p] EXCEPT !.retire = TRUE, !.cancelled = TRUE]
    BY <1>2 DEF StopEntry
  <2> QED
    BY <1>1, <1>2, <2>1 DEF ProcessEntry
<1>3. CASE entry[p].state # "Starting"
  <2>1. StopEntry(p) = [entry[p] EXCEPT !.state = "Stopping"]
    BY <1>3 DEF StopEntry
  <2> QED
    BY <1>1, <1>3, <2>1 DEF ProcessEntry
<1> QED
  BY <1>2, <1>3

\* What it means for an entry to be marked.
LEMMA MarkFields ==
  ASSUME TypeOK, NEW p \in Process
  PROVE  LET new == [entry[p] EXCEPT !.retire = TRUE] IN
         /\ new \in ProcessEntry /\ new.state = entry[p].state /\ new.retire = TRUE
         /\ new.cancelled = entry[p].cancelled /\ new.lease = entry[p].lease
         /\ new.scope = entry[p].scope /\ new.policy = entry[p].policy
         /\ new.resident = entry[p].resident /\ new.evicts = entry[p].evicts
<1>1. entry[p] \in ProcessEntry
  BY DEF TypeOK
<1> QED
  BY <1>1 DEF ProcessEntry

\* A Host that is present and stopped is cancelled or stopped.
LEMMA StopRow ==
  ASSUME TypeOK, NEW p \in Present, NEW how \in {"planned", "reaping"},
         entry'[p] = StopEntry(p) \/ entry'[p] = [StopEntry(p) EXCEPT !.retire = TRUE],
         stop'[p] = IF Launches(p) THEN how ELSE stop[p],
         startup'[p] = startup[p], os'[p] = os[p]
  PROVE  /\ HostStep(p) /\ entry'[p] \in ProcessEntry /\ stop'[p] \in StopTask
         /\ entry'[p].lease = entry[p].lease /\ Identity(p)
         /\ entry[p].state = "Starting" => Cancelled(p)
         /\ entry[p].state # "Starting" => Stopped(p)
<1> DEFINE new == [StopEntry(p) EXCEPT !.retire = TRUE]
<1>1. p \in Process /\ entry[p].state \in {"Starting", "Busy", "IdleWarm", "Stopping"}
  BY EntryFields DEF Present
<1>2. /\ new \in ProcessEntry /\ new.retire = TRUE
      /\ new.state = StopEntry(p).state /\ new.cancelled = StopEntry(p).cancelled
      /\ new.lease = StopEntry(p).lease /\ new.scope = StopEntry(p).scope
      /\ new.policy = StopEntry(p).policy /\ new.resident = StopEntry(p).resident
      /\ new.evicts = StopEntry(p).evicts
  BY ZenonT(30), <1>1, StopEntryFields DEF ProcessEntry
<1>3. entry'[p] = StopEntry(p) \/ entry'[p] = new
  OBVIOUS
<1>4. stop'[p] \in StopTask
  BY <1>1, EntryFields DEF StopTask
<1> HIDE DEF new
<1>5. CASE entry[p].state = "Starting"
  <2>1. Marks(p, "Starting", entry[p].lease, TRUE, TRUE)
    BY ZenonT(30), <1>1, <1>2, <1>3, <1>5, StopEntryFields DEF Marks, Identity
  <2>2. stop'[p] = stop[p]
    BY <1>5 DEF Launches
  <2> QED
    BY <1>1, <1>2, <1>3, <1>4, <1>5, <2>1, <2>2, StopEntryFields
    DEF HostStep, Cancelled, OnlyEntry, Marks
<1>6. CASE entry[p].state # "Starting"
  <2>1. \E s \in BOOLEAN : Marks(p, "Stopping", entry[p].lease, s, entry[p].cancelled)
    <3>1. CASE entry'[p] = StopEntry(p)
      <4>1. Marks(p, "Stopping", entry[p].lease, entry[p].retire, entry[p].cancelled)
        BY <1>1, <1>6, <3>1, StopEntryFields DEF Marks, Identity
      <4> QED
        BY <1>1, <4>1, EntryFields
    <3>2. CASE entry'[p] = new
      <4>1. Marks(p, "Stopping", entry[p].lease, TRUE, entry[p].cancelled)
        BY <1>1, <1>2, <1>6, <3>2, StopEntryFields DEF Marks, Identity
      <4> QED
        BY <4>1
    <3> QED
      BY <1>3, <3>1, <3>2
  <2> QED
    BY <1>1, <1>2, <1>3, <1>4, <1>6, <2>1, StopEntryFields DEF HostStep, Stopped, Marks
<1> QED
  BY <1>5, <1>6

\* plan_stop of Hosts that are present.
LEMMA PlanStopRows ==
  ASSUME HostInv, NEW P \in SUBSET Present, PlanStop(P), startup' = startup, os' = os
  PROVE  /\ entry' \in [Process -> ProcessEntry] /\ stop' \in [Process -> StopTask]
         /\ idleLru' = idleLru \ P
         /\ \A p \in Process : /\ HostStep(p) /\ Identity(p) /\ entry'[p].lease = entry[p].lease
                               /\ p \in P /\ entry[p].state = "Starting" => Cancelled(p)
                               /\ p \in P /\ entry[p].state # "Starting" => Stopped(p)
                               /\ p \notin P => Rests(p)
<1>1. TypeOK /\ P \subseteq Process
  BY DEF HostInv, Present
<1>2. /\ entry' = [p \in Process |-> IF p \in P THEN StopEntry(p) ELSE entry[p]]
      /\ stop' = [p \in Process |-> IF p \in P /\ Launches(p) THEN "reaping" ELSE stop[p]]
  BY DEF PlanStop
<1>3. ASSUME NEW p \in P
      PROVE  /\ HostStep(p) /\ Identity(p) /\ entry'[p].lease = entry[p].lease
             /\ entry[p].state = "Starting" => Cancelled(p)
             /\ entry[p].state # "Starting" => Stopped(p)
             /\ entry'[p] \in ProcessEntry /\ stop'[p] \in StopTask
  BY <1>1, <1>2, StopRow
<1>4. ASSUME NEW p \in Process \ P
      PROVE  /\ Rests(p) /\ entry'[p] \in ProcessEntry /\ stop'[p] \in StopTask
             /\ Identity(p) /\ entry'[p].lease = entry[p].lease
  BY <1>1, <1>2, EntryFields DEF Rests, Identity
<1>5. idleLru' = idleLru \ P
  <2>1. ASSUME NEW p \in P, p \in idleLru
        PROVE  Launches(p)
    BY <2>1, <1>1, EntryFields DEF Launches, HostInv, LeaseBookkeeping
  <2> QED
    BY <2>1 DEF PlanStop
<1> QED
  BY <1>2, <1>3, <1>4, <1>5 DEF HostStep

\* The Hosts that work are marked, the others are stopped.
BusyOf(P) == {p \in P : entry[p].state = "Busy"}
RetireHosts(P, how) ==
    /\ entry' = [p \in Process |-> IF p \in BusyOf(P) THEN [entry[p] EXCEPT !.retire = TRUE]
                                   ELSE IF p \in P THEN StopEntry(p) ELSE entry[p]]
    /\ idleLru' = idleLru \ {p \in P \ BusyOf(P) : Launches(p)}
    /\ stop' = [p \in Process |-> IF p \in P \ BusyOf(P) /\ Launches(p) THEN how
                                  ELSE stop[p]]

\* Hosts that work are marked to retire, the others are stopped or cancelled.
LEMMA RetireRows ==
  ASSUME HostInv, NEW P \in SUBSET Present, NEW how \in {"planned", "reaping"},
         RetireHosts(P, how), startup' = startup, os' = os
  PROVE  /\ entry' \in [Process -> ProcessEntry] /\ stop' \in [Process -> StopTask]
         /\ idleLru' = idleLru \ P
         /\ \A p \in Process : /\ HostStep(p) /\ Identity(p) /\ entry'[p].lease = entry[p].lease
                               /\ p \in BusyOf(P) => Marked(p)
                               /\ p \in P \ BusyOf(P) => Cancelled(p) \/ Stopped(p)
                               /\ p \notin P => Rests(p)
<1> DEFINE busy == BusyOf(P)
<1>0. /\ entry' = [p \in Process |-> IF p \in busy THEN [entry[p] EXCEPT !.retire = TRUE]
                                     ELSE IF p \in P THEN StopEntry(p) ELSE entry[p]]
      /\ idleLru' = idleLru \ {p \in P \ busy : Launches(p)}
      /\ stop' = [p \in Process |-> IF p \in P \ busy /\ Launches(p) THEN how ELSE stop[p]]
      /\ busy = {p \in P : entry[p].state = "Busy"}
  BY DEF RetireHosts, BusyOf
<1> HIDE DEF busy
<1>1. TypeOK /\ P \subseteq Process /\ busy \subseteq P
  BY <1>0 DEF HostInv, Present
<1>2. ASSUME NEW p \in P \ busy
      PROVE  /\ HostStep(p) /\ Identity(p) /\ entry'[p].lease = entry[p].lease
             /\ Cancelled(p) \/ Stopped(p)
             /\ entry'[p] \in ProcessEntry /\ stop'[p] \in StopTask
  <2>1. entry'[p] = StopEntry(p) /\ stop'[p] = IF Launches(p) THEN how ELSE stop[p]
    BY <1>0, <1>1
  <2> QED
    BY <1>1, <2>1, StopRow
<1>3. ASSUME NEW p \in Process \ P
      PROVE  /\ Rests(p) /\ entry'[p] \in ProcessEntry /\ stop'[p] \in StopTask
             /\ Identity(p) /\ entry'[p].lease = entry[p].lease
  BY <1>0, <1>1, EntryFields DEF Rests, Identity
<1>4. ASSUME NEW p \in busy
      PROVE  /\ Marked(p) /\ entry'[p] \in ProcessEntry /\ stop'[p] \in StopTask
             /\ Identity(p) /\ entry'[p].lease = entry[p].lease
  <2> DEFINE new == [entry[p] EXCEPT !.retire = TRUE]
  <2>1. p \in Process /\ entry[p].state = "Busy" /\ entry'[p] = new /\ stop'[p] = stop[p]
    BY <1>0, <1>1
  <2>2. /\ new \in ProcessEntry /\ new.state = entry[p].state /\ new.retire = TRUE
        /\ new.cancelled = entry[p].cancelled /\ new.lease = entry[p].lease
        /\ new.scope = entry[p].scope /\ new.policy = entry[p].policy
        /\ new.resident = entry[p].resident /\ new.evicts = entry[p].evicts
    BY <1>1, <2>1, MarkFields
  <2> HIDE DEF new
  <2> QED
    BY <1>1, <2>1, <2>2, EntryFields DEF Marked, Marks, Identity, OnlyEntry
<1>5. idleLru' = idleLru \ P
  <2>1. ASSUME NEW p \in P, p \in idleLru
        PROVE  p \notin busy /\ Launches(p)
    BY <1>0, <1>1, <2>1, EntryFields DEF Launches, HostInv, LeaseBookkeeping
  <2> QED
    BY <1>0, <2>1
<1> QED
  BY <1>0, <1>1, <1>2, <1>3, <1>4, <1>5 DEF HostStep, busy

-----------------------------------------------------------------------------
(* The rows of the processes after each action.                            *)

RowsKeep == entry' \in [Process -> ProcessEntry] /\ \A p \in Process : HostStep(p)

\* The Host of an execution is present.
LEMMA LeasedPresent ==
  ASSUME HostInv, NEW l \in Lease, byRun[l] # None
  PROVE  byRun[l] \in Present /\ byRun[l] \in Process /\ entry[byRun[l]].lease = l
BY DEF HostInv, TypeOK, LeaseBookkeeping

\* An action that leaves the table and the tasks alone.
LEMMA RestRows ==
  ASSUME HostInv, entry' = entry, startup' = startup, stop' = stop, os' = os
  PROVE  RowsKeep
BY DEF RowsKeep, HostStep, Rests, HostInv, TypeOK

\* The Hosts of another policy.
OldHosts(l) == {p \in InScope(ScopeOf[l]) : entry[p].policy # policy[l]}

\* A new launch retires them.
LEMMA RetiresOld ==
  ASSUME NEW l \in Lease, RetireIncompatible(l)
  PROVE  OldHosts(l) \subseteq Present /\ RetireHosts(OldHosts(l), "planned")
<1> DEFINE old == OldHosts(l)
           busy == {p \in old : entry[p].state = "Busy"}
<1>1. /\ entry' = [p \in Process |-> IF p \in busy THEN [entry[p] EXCEPT !.retire = TRUE]
                                     ELSE IF p \in old THEN StopEntry(p) ELSE entry[p]]
      /\ idleLru' = idleLru \ {p \in old \ busy : Launches(p)}
      /\ stop' = [p \in Process |-> IF p \in {q \in old \ busy : Launches(q)} THEN "planned"
                                    ELSE stop[p]]
  BY DEF RetireIncompatible, OldHosts
<1>2. \A p \in Process : p \in {q \in old \ busy : Launches(q)} <=> p \in old \ busy /\ Launches(p)
  OBVIOUS
<1>3. BusyOf(old) = busy
  BY DEF BusyOf
<1>4. old \subseteq Present
  BY DEF OldHosts, InScope
<1> HIDE DEF old, busy
<1> QED
  BY <1>1, <1>2, <1>3, <1>4 DEF RetireHosts, old

\* Their rows.
LEMMA RetireIncompatibleRows ==
  ASSUME HostInv, NEW l \in Lease, RetireIncompatible(l)
  PROVE  RowsKeep
<1>1. startup' = startup /\ os' = os
  BY DEF RetireIncompatible, outside
<1> QED
  BY <1>1, RetiresOld, RetireRows DEF RowsKeep

\* A planned stop is dispatched, or one that runs already is awaited.
LEMMA AwaitRetirementRows ==
  ASSUME HostInv, NEW l \in Lease, AwaitRetirement(l)
  PROVE  RowsKeep /\ entry' = entry
<1>1. PICK p \in Process :
        /\ wait[<<"launch", l>>][p] \in {"planned", "stop"}
        /\ stop' = [stop EXCEPT ![p] = IF wait[<<"launch", l>>][p] = "planned" THEN "reaping"
                                       ELSE @]
  BY DEF AwaitRetirement
<1>2. entry' = entry /\ startup' = startup /\ os' = os
  BY DEF AwaitRetirement, fleet, outside
<1>3. entry \in [Process -> ProcessEntry] /\ stop \in [Process -> StopTask]
  BY DEF HostInv, TypeOK
<1>4. wait[<<"launch", l>>][p] = "planned" => stop[p] = "planned"
  BY DEF HostInv, Plans
<1>5. StopMoves(p) \/ Rests(p)
  BY <1>1, <1>2, <1>3, <1>4 DEF StopMoves, Rests
<1>6. \A q \in Process \ {p} : Rests(q)
  BY <1>1, <1>2, <1>3 DEF Rests
<1> QED
  BY <1>2, <1>3, <1>5, <1>6 DEF RowsKeep, HostStep

\* A warm Host is leased again.
LEMMA AcquireReuseRows ==
  ASSUME HostInv, NEW l \in Lease, AcquireReuse(l)
  PROVE  /\ RowsKeep
         /\ \E p \in CompatibleIdle(l) :
              /\ p \in Process /\ byRun' = [byRun EXCEPT ![l] = p] /\ idleLru' = idleLru \ {p}
              /\ entry[p].state = "IdleWarm"
              /\ Takes(l, p) /\ \A q \in Process \ {p} : Rests(q)
<1>1. PICK p \in Preferred(l) : /\ entry' = [entry EXCEPT ![p].state = "Busy", ![p].lease = l]
                                /\ idleLru' = idleLru \ {p} /\ byRun' = [byRun EXCEPT ![l] = p]
  BY DEF AcquireReuse
<1>2. p \in CompatibleIdle(l) /\ p \in Process /\ entry[p].state = "IdleWarm"
  BY DEF Preferred, CompatibleIdle, HostInv, TypeOK
<1>3. startup' = startup /\ stop' = stop /\ os' = os
  BY DEF AcquireReuse, tasks, outside
<1>4. entry \in [Process -> ProcessEntry]
  BY DEF HostInv, TypeOK
<1>5. /\ entry'[p].state = "Busy" /\ entry'[p].lease = l /\ entry'[p].retire = entry[p].retire
      /\ entry'[p].cancelled = entry[p].cancelled /\ Identity(p) /\ entry'[p] \in ProcessEntry
  <2>1. entry[p] \in ProcessEntry
    BY <1>2, <1>4
  <2> QED
    BY <1>1, <1>2, <1>4, <2>1 DEF ProcessEntry, Identity
<1>6. \A q \in Process \ {p} : entry'[q] = entry[q]
  BY <1>1, <1>4
<1>7. entry' \in [Process -> ProcessEntry]
  BY <1>1, <1>4, <1>5, <1>6
<1>8. Takes(l, p)
  BY <1>2, <1>5 DEF Takes, Marks, AcquireReuse
<1>9. Taken(p)
  BY <1>2, <1>3, <1>8 DEF Taken, OnlyEntry
<1>10. \A q \in Process \ {p} : Rests(q)
  BY <1>3, <1>6 DEF Rests
<1> QED
  BY <1>1, <1>2, <1>7, <1>8, <1>9, <1>10 DEF RowsKeep, HostStep

\* A new reservation, in place of an idle Host or not.
LEMMA AcquireReserveRows ==
  ASSUME HostInv, NEW l \in Lease, NEW p \in Process, AcquireReserve(l, p)
  PROVE  /\ RowsKeep /\ byRun' = [byRun EXCEPT ![l] = p] /\ idleLru' \subseteq idleLru
         /\ entry[p].state = "absent"
         /\ Reserves(l, p) /\ startup'[p] \in {"begin", "evicting"}
         /\ \A q \in Process \ {p} :
              \/ Rests(q)
              \/ /\ entry[q].state = "IdleWarm" /\ Stopped(q)
         /\ \A q \in Process : q \in idleLru \ idleLru' => entry'[q].state = "Stopping"
         /\ \A q \in Process \ {p} : entry'[q].state = "Stopping" => q \notin idleLru'
<1>1. /\ entry[p].state = "absent" /\ byRun' = [byRun EXCEPT ![l] = p] /\ os' = os
      /\ launch[l] = "acquiring" /\ ~Blocked(l) /\ CompatibleIdle(l) = {}
  BY DEF AcquireReserve, outside
<1>2. /\ entry \in [Process -> ProcessEntry] /\ startup \in [Process -> Startup]
      /\ stop \in [Process -> StopTask] /\ idleLru \subseteq Process /\ TypeOK
      /\ idleLru = {q \in Process : entry[q].state = "IdleWarm"}
  BY DEF HostInv, TypeOK, LeaseBookkeeping
<1>0. launch'[l] = "waiting" /\ wait'[<<"launch", l>>][p] = "start"
  <2>1. /\ launch \in [Lease -> Launch] /\ wait \in [Caller -> [Process -> Wait]]
        /\ <<"launch", l>> \in Caller
    BY <1>2 DEF TypeOK, Caller
  <2>2. /\ wait' = [wait EXCEPT ![<<"launch", l>>] =
                       [q \in Process |-> IF q = p THEN "start" ELSE "none"]]
        /\ launch' = [launch EXCEPT ![l] = "waiting"]
    BY DEF AcquireReserve
  <2> QED
    BY <2>1, <2>2
<1>3. ASSUME NEW r \in BOOLEAN, NEW v \in Process \cup {None}, entry'[p] = Reservation(l, r, v)
      PROVE  Reserves(l, p) /\ entry'[p] \in ProcessEntry
  <2>1. TypeOK
    BY <1>2
  <2> DEFINE new == Reservation(l, r, v)
  <2>2. /\ new \in ProcessEntry /\ new.state = "Starting" /\ new.lease = l
        /\ new.scope = ScopeOf[l] /\ new.policy = policy[l]
        /\ new.retire = FALSE /\ new.cancelled = FALSE
    BY <2>1, FleetAssumption DEF Reservation, ProcessEntry, TypeOK, FleetAssumption
  <2>3. entry'[p] = new
    BY <1>3
  <2> HIDE DEF new
  <2> QED
    BY <1>0, <1>1, <2>2, <2>3 DEF Reserves
<1>4. CASE /\ idleLru' = idleLru /\ stop' = stop /\ startup' = [startup EXCEPT ![p] = "begin"]
           /\ \E r \in BOOLEAN : entry' = [entry EXCEPT ![p] = Reservation(l, r, None)]
  <2>1. PICK r \in BOOLEAN : entry' = [entry EXCEPT ![p] = Reservation(l, r, None)]
    BY <1>4
  <2>2. entry'[p] = Reservation(l, r, None) /\ \A q \in Process \ {p} : entry'[q] = entry[q]
    BY <1>2, <2>1
  <2>3. Reserves(l, p) /\ entry'[p] \in ProcessEntry
    BY <1>3, <2>2
  <2>4. entry' \in [Process -> ProcessEntry]
    BY <1>2, <2>1, <2>2, <2>3
  <2>5. \A q \in Process \ {p} : Rests(q)
    BY <1>1, <1>2, <1>4, <2>2 DEF Rests
  <2>6. Reserved(p) /\ startup'[p] = "begin"
    BY <1>1, <1>2, <1>4, <2>3 DEF Reserved
  <2>7. \A q \in Process \ {p} : entry'[q].state = "Stopping" => q \notin idleLru'
    BY <1>2, <1>4, <2>2
  <2> QED
    BY <1>1, <1>4, <2>3, <2>4, <2>5, <2>6, <2>7 DEF RowsKeep, HostStep
<1>5. CASE \E v \in Evictable(MemberOf[ScopeOf[l]]) :
             /\ entry' = [entry EXCEPT ![p] = Reservation(l, TRUE, v), ![v].state = "Stopping"]
             /\ idleLru' = idleLru \ {v} /\ stop' = [stop EXCEPT ![v] = "reaping"]
             /\ startup' = [startup EXCEPT ![p] = "evicting"]
  <2>1. PICK v \in Evictable(MemberOf[ScopeOf[l]]) :
             /\ entry' = [entry EXCEPT ![p] = Reservation(l, TRUE, v), ![v].state = "Stopping"]
             /\ idleLru' = idleLru \ {v} /\ stop' = [stop EXCEPT ![v] = "reaping"]
             /\ startup' = [startup EXCEPT ![p] = "evicting"]
    BY <1>5
  <2>2. v \in Process /\ entry[v].state = "IdleWarm" /\ v # p
    BY <1>1, <1>2 DEF Evictable, OfMember
  <2>3. /\ entry'[p] = Reservation(l, TRUE, v)
        /\ entry'[v] = [entry[v] EXCEPT !.state = "Stopping"]
        /\ \A q \in Process \ {p, v} : entry'[q] = entry[q]
    BY <1>2, <2>1, <2>2
  <2>4. Reserves(l, p) /\ entry'[p] \in ProcessEntry
    BY <1>3, <2>2, <2>3
  <2>5. /\ entry'[v] \in ProcessEntry
        /\ Marks(v, "Stopping", entry[v].lease, entry[v].retire, entry[v].cancelled)
    <3>1. entry[v] \in ProcessEntry
      BY <1>2, <2>2
    <3> QED
      BY <2>3, <3>1 DEF ProcessEntry, Marks, Identity
  <2>6. entry' \in [Process -> ProcessEntry]
    BY <1>2, <2>1, <2>3, <2>4, <2>5
  <2>7. /\ startup'[p] = "evicting" /\ stop'[p] = stop[p]
        /\ startup'[v] = startup[v] /\ stop'[v] = "reaping"
        /\ \A q \in Process \ {p, v} : startup'[q] = startup[q] /\ stop'[q] = stop[q]
    BY <1>2, <2>1, <2>2
  <2>8. Reserved(p)
    BY <1>1, <2>4, <2>7 DEF Reserved
  <2>9. Stopped(v)
    <3>1. Launches(v) /\ entry[v].retire \in BOOLEAN
      BY <1>2, <2>2, EntryFields DEF Launches
    <3> QED
      BY <1>1, <2>2, <2>5, <2>7, <3>1 DEF Stopped
  <2>10. \A q \in Process \ {p, v} : Rests(q)
    BY <1>1, <2>3, <2>7 DEF Rests
  <2>11. entry'[v].state = "Stopping"
    BY <2>5 DEF Marks
  <2>12. \A q \in Process \ {p} : entry'[q].state = "Stopping" => q \notin idleLru'
    BY <1>2, <2>1, <2>3
  <2> QED
    BY <1>1, <2>1, <2>2, <2>4, <2>6, <2>7, <2>8, <2>9, <2>10, <2>11, <2>12 DEF RowsKeep, HostStep
<1> QED
  BY <1>4, <1>5 DEF AcquireReserve

\* A launch gives up its Host.
LEMMA ReplaceHostRows ==
  ASSUME HostInv, NEW l \in Lease, ReplaceHost(l)
  PROVE  RowsKeep
<1>1. startup' = startup /\ os' = os
  BY DEF ReplaceHost, outside
<1>2. CASE byRun[l] = None
  BY <1>1, <1>2, RestRows DEF ReplaceHost
<1>3. CASE byRun[l] # None
  <2>1. PlanStop({byRun[l]}) /\ {byRun[l]} \subseteq Present
    BY <1>3, LeasedPresent DEF ReplaceHost
  <2> QED
    BY <1>1, <2>1, PlanStopRows DEF RowsKeep
<1> QED
  BY <1>2, <1>3

\* The terminal handler gives its Host back or stops it.
LEMMA ReleaseRows ==
  ASSUME HostInv, NEW l \in Lease, NEW d, Release(l, d)
  PROVE  RowsKeep
<1>1. startup' = startup /\ os' = os
  BY DEF Release, outside
<1>2. CASE UNCHANGED <<entry, idleLru, stop, wait>>
  BY <1>1, <1>2, RestRows
<1>3. CASE byRun[l] # None /\ PlanStop({byRun[l]})
  <2>1. {byRun[l]} \subseteq Present
    BY <1>3, LeasedPresent
  <2> QED
    BY <1>1, <1>3, <2>1, PlanStopRows DEF RowsKeep
<1> QED
  BY <1>2, <1>3 DEF Release

\* A Host that goes idle.
LEMMA WarmRow ==
  ASSUME HostInv, NEW l \in Lease, byRun[l] # None, entry[byRun[l]].state = "Busy",
         ~entry[byRun[l]].retire, startup' = startup, stop' = stop, os' = os,
         entry' = [entry EXCEPT ![byRun[l]].state = "IdleWarm", ![byRun[l]].lease = None]
  PROVE  /\ RowsKeep /\ Warmed(byRun[l])
         /\ \A q \in Process \ {byRun[l]} : Rests(q)
<1> DEFINE p == byRun[l]
<1>1. p \in Process
  BY LeasedPresent
<1>2. entry \in [Process -> ProcessEntry] /\ entry[p] \in ProcessEntry
  BY <1>1 DEF HostInv, TypeOK
<1>3. /\ entry'[p] \in ProcessEntry /\ Marks(p, "IdleWarm", None, FALSE, entry[p].cancelled)
  BY <1>1, <1>2 DEF ProcessEntry, Marks, Identity
<1>4. \A q \in Process \ {p} : entry'[q] = entry[q]
  BY <1>2
<1>5. entry' \in [Process -> ProcessEntry]
  BY <1>1, <1>2, <1>3, <1>4
<1>6. Warmed(p)
  BY <1>3 DEF Warmed, OnlyEntry
<1>7. \A q \in Process \ {p} : Rests(q)
  BY <1>4 DEF Rests
<1> QED
  BY <1>5, <1>6, <1>7 DEF RowsKeep, HostStep

\* The release ends: the Host is warm, or it is stopped.
LEMMA FinishReleaseRows ==
  ASSUME HostInv, NEW l \in Lease, NEW quiescent, FinishRelease(l, quiescent)
  PROVE  /\ RowsKeep
         /\ \/ /\ byRun[l] = None /\ UNCHANGED <<entry, byRun, idleLru>>
            \/ /\ byRun[l] # None /\ Warmed(byRun[l]) /\ byRun[l] \in Process
               /\ byRun' = [byRun EXCEPT ![l] = None] /\ idleLru' = idleLru \cup {byRun[l]}
               /\ \A q \in Process \ {byRun[l]} : Rests(q)
            \/ /\ byRun[l] # None /\ byRun' = byRun /\ PlanStop({byRun[l]})
               /\ {byRun[l]} \subseteq Present
<1>1. startup' = startup /\ os' = os
  BY DEF FinishRelease, outside
<1>2. CASE byRun[l] = None /\ UNCHANGED <<entry, byRun, idleLru, stop>>
  BY <1>1, <1>2, RestRows
<1>3. CASE /\ byRun[l] # None /\ entry[byRun[l]].state = "Busy" /\ ~entry[byRun[l]].retire
           /\ entry' = [entry EXCEPT ![byRun[l]].state = "IdleWarm", ![byRun[l]].lease = None]
           /\ byRun' = [byRun EXCEPT ![l] = None] /\ idleLru' = idleLru \cup {byRun[l]}
           /\ stop' = stop
  BY <1>1, <1>3, WarmRow, LeasedPresent
<1>4. CASE byRun[l] # None /\ byRun' = byRun /\ PlanStop({byRun[l]})
  <2>1. {byRun[l]} \subseteq Present
    BY <1>4, LeasedPresent
  <2> QED
    BY <1>1, <1>4, <2>1, PlanStopRows DEF RowsKeep
<1> QED
  BY <1>2, <1>3, <1>4 DEF FinishRelease

\* A trusted failure forbids reuse.
LEMMA RetireRunRows ==
  ASSUME HostInv, NEW l \in Lease, RetireRun(l)
  PROVE  /\ RowsKeep /\ byRun[l] \in Present /\ Marked(byRun[l])
         /\ \A q \in Process \ {byRun[l]} : Rests(q)
<1> DEFINE p == byRun[l]
<1>1. /\ p \in Present /\ p \in Process /\ entry[p].state # "Starting" /\ entry[p].lease = l
      /\ entry' = [entry EXCEPT ![p].retire = TRUE]
      /\ startup' = startup /\ stop' = stop /\ os' = os
  BY LeasedPresent DEF RetireRun, tasks, outside
<1>2. TypeOK /\ entry \in [Process -> ProcessEntry] /\ entry[p] \in ProcessEntry
  BY <1>1 DEF HostInv, TypeOK
<1>3. entry[p].state \in {"Busy", "Stopping"}
  <2>1. entry[p].state \in {"Busy", "IdleWarm", "Stopping"}
    BY <1>1, <1>2, EntryFields DEF Present
  <2>2. l # None
    BY FleetAssumption DEF FleetAssumption
  <2>3. entry[p].state = "IdleWarm" => entry[p].lease = None
    BY <1>1 DEF HostInv, Stage
  <2> QED
    BY <1>1, <2>1, <2>2, <2>3
<1> DEFINE new == [entry[p] EXCEPT !.retire = TRUE]
<1>4. entry'[p] = new /\ \A q \in Process \ {p} : entry'[q] = entry[q]
  BY <1>1, <1>2
<1>5. /\ new \in ProcessEntry /\ new.state = entry[p].state /\ new.retire = TRUE
      /\ new.cancelled = entry[p].cancelled /\ new.lease = entry[p].lease
      /\ new.scope = entry[p].scope /\ new.policy = entry[p].policy
      /\ new.resident = entry[p].resident /\ new.evicts = entry[p].evicts
  BY <1>1, <1>2, MarkFields
<1>6. entry' \in [Process -> ProcessEntry]
  BY <1>1, <1>2, <1>4, <1>5
<1> HIDE DEF new
<1>7. Marked(p)
  BY <1>1, <1>3, <1>4, <1>5 DEF Marked, Marks, Identity, OnlyEntry
<1>8. \A q \in Process \ {p} : Rests(q)
  BY <1>1, <1>4 DEF Rests
<1> QED
  BY <1>1, <1>6, <1>7, <1>8 DEF RowsKeep, HostStep

\* The cleanup worker stops the Host of an execution for good.
LEMMA StopAgentRunRows ==
  ASSUME HostInv, NEW l \in Lease, StopAgentRun(l)
  PROVE  /\ RowsKeep /\ \A q \in Process : Identity(q) /\ entry'[q].lease = entry[q].lease
         /\ byRun[l] = None => entry' = entry /\ idleLru' = idleLru
         /\ byRun[l] # None =>
              /\ byRun[l] \in Present /\ idleLru' = idleLru \ {byRun[l]}
              /\ Cancelled(byRun[l]) \/ Stopped(byRun[l])
              /\ \A q \in Process \ {byRun[l]} : Rests(q)
<1>1. startup' = startup /\ os' = os /\ TypeOK
  BY DEF StopAgentRun, outside, HostInv
<1>2. CASE byRun[l] = None
  BY <1>1, <1>2, RestRows DEF StopAgentRun, Identity
<1>3. CASE byRun[l] # None
  <2> DEFINE p == byRun[l]
  <2>1. p \in Present /\ p \in Process
    BY <1>3, LeasedPresent
  <2>2. /\ entry' = [entry EXCEPT ![p] = [StopEntry(p) EXCEPT !.retire = TRUE]]
        /\ stop' = [stop EXCEPT ![p] = IF Launches(p) THEN "reaping" ELSE @]
        /\ idleLru' = idleLru \ {q \in {p} : Launches(q)}
    BY <1>3 DEF StopAgentRun
  <2>3. entry \in [Process -> ProcessEntry] /\ stop \in [Process -> StopTask]
    BY <1>1 DEF TypeOK
  <2>4. /\ entry'[p] = [StopEntry(p) EXCEPT !.retire = TRUE]
        /\ stop'[p] = IF Launches(p) THEN "reaping" ELSE stop[p]
        /\ \A q \in Process \ {p} : entry'[q] = entry[q] /\ stop'[q] = stop[q]
    BY <2>1, <2>2, <2>3
  <2>5. /\ HostStep(p) /\ entry'[p] \in ProcessEntry /\ Identity(p)
        /\ entry'[p].lease = entry[p].lease
        /\ Cancelled(p) \/ Stopped(p)
    BY <1>1, <2>1, <2>4, StopRow
  <2>6. \A q \in Process \ {p} : /\ Rests(q) /\ Identity(q)
                                 /\ entry'[q].lease = entry[q].lease
    BY <1>1, <2>4 DEF Rests, Identity
  <2>7. entry' \in [Process -> ProcessEntry]
    BY <2>2, <2>3, <2>4, <2>5
  <2>8. idleLru' = idleLru \ {p}
    <3>1. p \in idleLru => Launches(p)
      BY <1>1, <2>1, EntryFields DEF Launches, HostInv, LeaseBookkeeping
    <3> QED
      BY <2>2, <3>1
  <2>9. RowsKeep
    BY <2>5, <2>6, <2>7 DEF RowsKeep, HostStep
  <2> QED
    BY <1>3, <2>1, <2>5, <2>6, <2>8, <2>9
<1> QED
  BY <1>2, <1>3

\* What a removal does to the table.
LEMMA RemoveFields ==
  ASSUME HostInv, NEW p \in Present, Remove(p)
  PROVE  /\ p \in Process /\ entry' \in [Process -> ProcessEntry]
         /\ Marks(p, "removed", entry[p].lease, entry[p].retire, entry[p].cancelled)
         /\ \A q \in Process \ {p} : entry'[q] = entry[q]
         /\ idleLru' = idleLru \ {p} /\ residents' = residents \ {p}
         /\ \A l \in Lease : byRun'[l] = IF entry[p].lease = l THEN None ELSE byRun[l]
         /\ byRun' \in [Lease -> Process \cup {None}]
         /\ receipts' = IF Codex /\ entry[p].lease # None THEN receipts \cup {entry[p].lease}
                        ELSE receipts
<1>1. p \in Process
  BY DEF Present
<1>2. entry \in [Process -> ProcessEntry] /\ entry[p] \in ProcessEntry
  BY <1>1 DEF HostInv, TypeOK
<1>3. entry' = [entry EXCEPT ![p].state = "removed"]
  BY DEF Remove
<1>4. /\ entry'[p] \in ProcessEntry
      /\ Marks(p, "removed", entry[p].lease, entry[p].retire, entry[p].cancelled)
  BY <1>1, <1>2, <1>3 DEF ProcessEntry, Marks, Identity
<1>5. \A q \in Process \ {p} : entry'[q] = entry[q]
  BY <1>2, <1>3
<1>6. entry' \in [Process -> ProcessEntry]
  BY <1>1, <1>2, <1>3, <1>4, <1>5
<1>7. byRun \in [Lease -> Process \cup {None}] /\ entry[p].lease \in Lease \cup {None}
  BY <1>1, EntryFields DEF HostInv, TypeOK
<1>8. /\ \A l \in Lease : byRun'[l] = IF entry[p].lease = l THEN None ELSE byRun[l]
      /\ byRun' \in [Lease -> Process \cup {None}]
  <2>1. CASE entry[p].lease = None
    BY <1>7, <2>1, FleetAssumption DEF Remove, FleetAssumption
  <2>2. CASE entry[p].lease # None
    BY <1>7, <2>2 DEF Remove
  <2> QED
    BY <2>1, <2>2
<1> QED
  BY <1>1, <1>4, <1>5, <1>6, <1>8 DEF Remove

\* A start ends without a Host.
LEMMA FailStartRows ==
  ASSUME HostInv, NEW p \in Process, FailStart(p), startup[p] \in Unsettled,
         os'[p] # "alive", \A q \in Process \ {p} : os'[q] = os[q]
  PROVE  /\ RowsKeep /\ p \in Present /\ Failed(p) /\ Remove(p)
         /\ \A q \in Process \ {p} : Rests(q)
<1>1. entry[p].state = "Starting" /\ p \in Present
  BY DEF HostInv, Stage, Present
<1>2. /\ Remove(p) /\ startup' = [startup EXCEPT ![p] = "over"] /\ stop' = stop
  BY DEF FailStart
<1>3. startup \in [Process -> Startup]
  BY DEF HostInv, TypeOK
<1>4. Failed(p)
  BY <1>1, <1>2, <1>3, RemoveFields DEF Failed
<1>5. \A q \in Process \ {p} : Rests(q)
  BY <1>1, <1>2, <1>3, RemoveFields DEF Rests
<1> QED
  BY <1>1, <1>2, <1>4, <1>5, RemoveFields DEF RowsKeep, HostStep

\* The start is refused, or the spawn fails.
LEMMA StartRefusedRows ==
  ASSUME HostInv, NEW p \in Process, StartRefused(p)
  PROVE  /\ RowsKeep /\ p \in Present /\ Failed(p) /\ Remove(p)
         /\ \A q \in Process \ {p} : Rests(q)
<1>1. FailStart(p) /\ startup[p] \in Unborn /\ os' = os
  BY DEF StartRefused, Unborn
<1>2. os[p] = "none"
  BY <1>1 DEF HostInv, Stage
<1> QED
  BY <1>1, <1>2, FailStartRows DEF Unsettled

\* A spawn that fails ends its reservation.
LEMMA SpawnFailsRows ==
  ASSUME HostInv, NEW p \in Process, SpawnFails(p)
  PROVE  /\ RowsKeep /\ p \in Present /\ Failed(p) /\ Remove(p)
         /\ \A q \in Process \ {p} : Rests(q)
<1>1. FailStart(p) /\ startup[p] \in Unsettled /\ os' = [os EXCEPT ![p] = "dead"]
  BY DEF SpawnFails, Unsettled
<1>2. os'[p] = "dead" /\ \A q \in Process \ {p} : os'[q] = os[q]
  BY <1>1 DEF HostInv, TypeOK
<1> QED
  BY <1>1, <1>2, FailStartRows

\* The process is spawned, and owned.
LEMMA SpawnRows ==
  ASSUME HostInv, NEW p \in Process, Spawn(p)
  PROVE  /\ RowsKeep /\ entry' = entry /\ Spawned(p) /\ \A q \in Process \ {p} : Rests(q)
<1>1. /\ startup[p] = "begin" /\ ~entry[p].cancelled /\ entry' = entry /\ stop' = stop
      /\ startup' = [startup EXCEPT ![p] = "spawning"] /\ os' = [os EXCEPT ![p] = "alive"]
  BY DEF Spawn, fleet
<1>2. /\ entry \in [Process -> ProcessEntry] /\ startup \in [Process -> Startup]
      /\ os \in [Process -> {"none", "alive", "dead"}]
  BY DEF HostInv, TypeOK
<1>3. Spawned(p) /\ \A q \in Process \ {p} : Rests(q)
  BY <1>1, <1>2 DEF Spawned, Rests
<1> QED
  BY <1>1, <1>2, <1>3 DEF RowsKeep, HostStep

\* A spawn that returns moves its reservation on and records the owner.
LEMMA SpawnReturnsRows ==
  ASSUME HostInv, NEW p \in Process, NEW recorded \in BOOLEAN, SpawnReturns(p, recorded)
  PROVE  /\ RowsKeep /\ entry' = entry /\ os' = os
         /\ startup[p] = "spawning" /\ startup'[p] \in {"spawned", "retiring"}
         /\ \A q \in Process \ {p} : Rests(q)
<1>1. /\ startup[p] = "spawning" /\ entry' = entry /\ stop' = stop /\ os' = os
      /\ startup' = [startup EXCEPT ![p] = IF Healthy(p) /\ ~entry[p].cancelled /\ recorded
                                           THEN "spawned" ELSE "retiring"]
  BY DEF SpawnReturns, fleet, outside
<1>2. /\ entry \in [Process -> ProcessEntry] /\ startup \in [Process -> Startup]
  BY DEF HostInv, TypeOK
<1>3. startup'[p] \in {"spawned", "retiring"} /\ \A q \in Process \ {p} : startup'[q] = startup[q]
  BY <1>1, <1>2
<1>4. StartMoves(p) /\ \A q \in Process \ {p} : Rests(q)
  BY <1>1, <1>3 DEF StartMoves, Rests
<1> QED
  BY <1>1, <1>2, <1>3, <1>4 DEF RowsKeep, HostStep

\* The Host goes to work, or is given up.
LEMMA CommitStartRows ==
  ASSUME HostInv, NEW p \in Process, CommitStart(p)
  PROVE  /\ RowsKeep /\ startup[p] = "spawned"
         /\ \/ Committed(p)
            \/ StartMoves(p) /\ startup'[p] = "retiring" /\ entry' = entry
         /\ \A q \in Process \ {p} : Rests(q)
<1>1. startup[p] = "spawned" /\ stop' = stop /\ os' = os
  BY DEF CommitStart, outside
<1>2. entry \in [Process -> ProcessEntry] /\ startup \in [Process -> Startup]
  BY DEF HostInv, TypeOK
<1>3. CASE startup' = [startup EXCEPT ![p] = "retiring"] /\ entry' = entry
  <2>1. startup'[p] = "retiring" /\ \A q \in Process \ {p} : startup'[q] = startup[q]
    BY <1>2, <1>3
  <2>2. StartMoves(p) /\ \A q \in Process \ {p} : Rests(q)
    BY <1>1, <1>3, <2>1 DEF StartMoves, Rests
  <2> QED
    BY <1>1, <1>2, <1>3, <2>1, <2>2 DEF RowsKeep, HostStep
<1>4. CASE /\ entry[p].state = "Starting" /\ ~entry[p].retire /\ ~entry[p].cancelled
           /\ CampOf[entry[p].scope] \notin deleting
           /\ entry' = [entry EXCEPT ![p].state = "Busy"]
           /\ startup' = [startup EXCEPT ![p] = "committed"]
  <2>1. entry[p] \in ProcessEntry /\ entry[p].retire = FALSE /\ entry[p].cancelled = FALSE
    BY <1>2, <1>4, EntryFields DEF HostInv
  <2>2. entry'[p] \in ProcessEntry /\ Marks(p, "Busy", entry[p].lease, FALSE, FALSE)
    BY <1>2, <1>4, <2>1 DEF ProcessEntry, Marks, Identity
  <2>3. /\ \A q \in Process \ {p} : entry'[q] = entry[q] /\ startup'[q] = startup[q]
        /\ startup'[p] = "committed"
    BY <1>2, <1>4
  <2>4. entry' \in [Process -> ProcessEntry]
    BY <1>2, <1>4, <2>2, <2>3
  <2>5. Committed(p) /\ \A q \in Process \ {p} : Rests(q)
    BY <1>1, <1>4, <2>2, <2>3 DEF Committed, Rests
  <2> QED
    BY <1>1, <2>4, <2>5 DEF RowsKeep, HostStep
<1> QED
  BY <1>3, <1>4 DEF CommitStart

\* The answer of a start that was committed.
LEMMA AnswerStartRows ==
  ASSUME HostInv, NEW p \in Process, AnswerStart(p)
  PROVE  RowsKeep /\ entry' = entry
<1>1. /\ startup[p] = "committed" /\ entry' = entry /\ stop' = stop /\ os' = os
      /\ startup' = [startup EXCEPT ![p] = "over"]
  BY DEF AnswerStart, fleet, outside
<1>2. entry \in [Process -> ProcessEntry] /\ startup \in [Process -> Startup]
  BY DEF HostInv, TypeOK
<1>3. StartMoves(p) /\ \A q \in Process \ {p} : Rests(q)
  BY <1>1, <1>2 DEF StartMoves, Rests
<1> QED
  BY <1>1, <1>2, <1>3 DEF RowsKeep, HostStep

\* A start that was given up is reaped, or keeps its lease.
LEMMA RetireStartRows ==
  ASSUME HostInv, NEW p \in Process, NEW reaped \in BOOLEAN, RetireStart(p, reaped)
  PROVE  /\ RowsKeep /\ p \in Present /\ startup[p] = "retiring" /\ entry[p].state = "Starting"
         /\ \/ reaped /\ Failed(p) /\ Remove(p) /\ os'[p] = "dead"
            \/ ~reaped /\ Unreaped(p)
         /\ \A q \in Process \ {p} : Rests(q)
<1>1. /\ startup[p] = "retiring" /\ startup' = [startup EXCEPT ![p] = "over"] /\ stop' = stop
  BY DEF RetireStart
<1>2. /\ entry \in [Process -> ProcessEntry] /\ startup \in [Process -> Startup]
      /\ os \in [Process -> {"none", "alive", "dead"}]
  BY DEF HostInv, TypeOK
<1>3. entry[p].state = "Starting" /\ p \in Present
  BY <1>1 DEF HostInv, Stage, Present, Unsettled
<1>4. startup'[p] = "over" /\ \A q \in Process \ {p} : startup'[q] = startup[q]
  BY <1>1, <1>2
<1>5. CASE reaped
  <2>1. Remove(p) /\ os' = [os EXCEPT ![p] = "dead"]
    BY <1>5 DEF RetireStart
  <2>2. os'[p] = "dead" /\ \A q \in Process \ {p} : os'[q] = os[q]
    BY <1>2, <2>1
  <2>3. Failed(p) /\ \A q \in Process \ {p} : Rests(q)
    BY <1>1, <1>3, <1>4, <2>1, <2>2, RemoveFields DEF Failed, Rests
  <2> QED
    BY <1>1, <1>3, <1>5, <2>1, <2>2, <2>3, RemoveFields DEF RowsKeep, HostStep
<1>6. CASE ~reaped
  <2>1. entry' = [entry EXCEPT ![p].state = "Stopping", ![p].retire = TRUE] /\ os' = os
    BY <1>6 DEF RetireStart
  <2>2. entry[p] \in ProcessEntry
    BY <1>2
  <2>3. entry'[p] \in ProcessEntry /\ Marks(p, "Stopping", entry[p].lease, TRUE, entry[p].cancelled)
    BY <1>2, <2>1, <2>2 DEF ProcessEntry, Marks, Identity
  <2>4. \A q \in Process \ {p} : entry'[q] = entry[q]
    BY <1>2, <2>1
  <2>5. entry' \in [Process -> ProcessEntry]
    BY <1>2, <2>1, <2>3, <2>4
  <2>6. Unreaped(p) /\ \A q \in Process \ {p} : Rests(q)
    BY <1>1, <1>4, <2>1, <2>3, <2>4 DEF Unreaped, Rests
  <2> QED
    BY <1>1, <1>3, <1>6, <2>5, <2>6 DEF RowsKeep, HostStep
<1> QED
  BY <1>5, <1>6

\* A stop ends.
LEMMA StopReapedRows ==
  ASSUME HostInv, NEW p \in Process, StopReaped(p)
  PROVE  /\ RowsKeep /\ p \in Present /\ Reaps(p) /\ Remove(p)
         /\ \A q \in Process \ {p} : Rests(q)
<1>1. /\ stop[p] = "reaping" /\ os' = [os EXCEPT ![p] = "dead"] /\ Remove(p)
      /\ stop' = [stop EXCEPT ![p] = "removed"] /\ startup' = startup
  BY DEF StopReaped
<1>2. /\ stop \in [Process -> StopTask] /\ os \in [Process -> {"none", "alive", "dead"}]
  BY DEF HostInv, TypeOK
<1>3. p \in Present
  BY <1>1 DEF HostInv, Stage, Present
<1>4. Reaps(p) /\ \A q \in Process \ {p} : Rests(q)
  BY <1>1, <1>2, <1>3, RemoveFields DEF Reaps, Rests
<1> QED
  BY <1>1, <1>3, <1>4, RemoveFields DEF RowsKeep, HostStep

\* A stop that expires leaves the Host in the table.
LEMMA StopExpiredRows ==
  ASSUME HostInv, NEW p \in Process, StopExpired(p)
  PROVE  /\ RowsKeep /\ entry' = entry /\ stop[p] = "reaping" /\ stop'[p] = "expired"
         /\ \A q \in Process \ {p} : Rests(q)
<1>1. /\ stop[p] = "reaping" /\ stop' = [stop EXCEPT ![p] = "expired"]
      /\ entry' = entry /\ startup' = startup /\ os' = os
  BY DEF StopExpired, outside
<1>2. entry \in [Process -> ProcessEntry] /\ stop \in [Process -> StopTask]
  BY DEF HostInv, TypeOK
<1>3. StopMoves(p) /\ \A q \in Process \ {p} : Rests(q)
  BY <1>1, <1>2 DEF StopMoves, Rests
<1> QED
  BY <1>1, <1>2, <1>3 DEF RowsKeep, HostStep

\* The stop is over, and the starts that wait for it go on.
LEMMA CompleteStopRows ==
  ASSUME HostInv, NEW p \in Process, CompleteStop(p)
  PROVE  /\ RowsKeep /\ entry' = entry /\ os' = os
         /\ stop[p] \in {"removed", "expired"} /\ stop'[p] = "over"
         /\ \A q \in Process \ {p} : stop'[q] = stop[q]
         /\ \A q \in Process :
              IF startup[q] = "evicting" /\ entry[q].evicts = p
              THEN startup'[q] = IF stop[p] = "removed" THEN "begin" ELSE "denied"
              ELSE startup'[q] = startup[q]
<1>1. /\ stop[p] \in {"removed", "expired"} /\ stop' = [stop EXCEPT ![p] = "over"]
      /\ entry' = entry /\ os' = os
      /\ startup' = [q \in Process |-> IF startup[q] = "evicting" /\ entry[q].evicts = p
                                       THEN IF stop[p] = "removed" THEN "begin" ELSE "denied"
                                       ELSE startup[q]]
  BY DEF CompleteStop, fleet, outside
<1>2. entry \in [Process -> ProcessEntry] /\ stop \in [Process -> StopTask]
  BY DEF HostInv, TypeOK
<1>3. entry[p].state \in {"Stopping", "removed"} /\ startup[p] # "evicting"
  BY <1>1 DEF HostInv, Stage, Unsettled, Unborn
<1>4. StopMoves(p)
  BY <1>1, <1>2, <1>3 DEF StopMoves
<1>5. ASSUME NEW q \in Process \ {p}
      PROVE  HostStep(q)
  <2>1. stop'[q] = stop[q]
    BY <1>1, <1>2
  <2>2. CASE startup[q] = "evicting" /\ entry[q].evicts = p
    BY <1>1, <2>1, <2>2 DEF HostStep, StartMoves
  <2>3. CASE ~(startup[q] = "evicting" /\ entry[q].evicts = p)
    BY <1>1, <2>1, <2>3 DEF HostStep, Rests
  <2> QED
    BY <2>2, <2>3
<1> QED
  BY <1>1, <1>2, <1>4, <1>5 DEF RowsKeep, HostStep

\* Fences, invalidations, the sweeper and the end of the fleet stop what is present.
Halts(P) ==
    /\ P \subseteq Present /\ startup' = startup /\ os' = os
    /\ PlanStop(P)

\* Fences stop what is in the Thread.
LEMMA FenceRows ==
  ASSUME HostInv, NEW c \in Camp, MarkCampDeleting(c) \/ ForceFence(c) \/ FenceAttachments(c)
  PROVE  RowsKeep /\ Halts(InCamp(c))
<1>1. Halts(InCamp(c))
  BY DEF MarkCampDeleting, ForceFence, FenceAttachments, Halts, InCamp, outside
<1> QED
  BY <1>1, PlanStopRows DEF RowsKeep, Halts

\* The sweeper stops what is warm, dead or stopping.
LEMMA SweepRows ==
  ASSUME HostInv, NEW expired \in SUBSET idleLru, SweepIdle(expired)
  PROVE  RowsKeep /\ \E P \in SUBSET Present : Halts(P)
<1> DEFINE P == expired \cup {p \in Present : \/ entry[p].state = "IdleWarm"
                                                 /\ (~Healthy(p) \/ entry[p].retire)
                                              \/ entry[p].state = "Stopping"}
<1>1. PlanStop(P) /\ startup' = startup /\ os' = os
  BY DEF SweepIdle, outside
<1>2. P \subseteq Present
  BY DEF SweepIdle
<1> HIDE DEF P
<1>3. Halts(P)
  BY <1>1, <1>2 DEF Halts
<1> QED
  BY <1>2, <1>3, PlanStopRows DEF RowsKeep, Halts

\* The end of the fleet stops everything.
LEMMA ShutdownRows ==
  ASSUME HostInv, ShutdownAll
  PROVE  RowsKeep /\ Halts(Present)
<1>1. Halts(Present)
  BY DEF ShutdownAll, Halts, outside
<1> QED
  BY <1>1, PlanStopRows DEF RowsKeep, Halts

\* Every Host of a Thread, of a member or of the adapter.
LEMMA InvalidateRows ==
  ASSUME HostInv, NEW P \in Matching, Invalidate(P)
  PROVE  /\ RowsKeep /\ P \subseteq Present /\ idleLru' = idleLru \ P
         /\ \A p \in Process : Identity(p) /\ entry'[p].lease = entry[p].lease
         /\ \A p \in Process \ P : Rests(p)
         /\ \A p \in P : Marked(p) \/ Cancelled(p) \/ Stopped(p)
<1>1. P \subseteq Present /\ P \subseteq Process
  BY DEF Matching, InCamp, OfMember, Present
<1>2. RetireHosts(P, "reaping") /\ startup' = startup /\ os' = os
  BY DEF Invalidate, outside, RetireHosts, BusyOf
<1> QED
  BY <1>1, <1>2, RetireRows DEF RowsKeep

\* Processes exit, are killed or are forgotten.
LEMMA ExitRows ==
  ASSUME HostInv,
         \/ \E p \in Process : HostExit(p) \/ BackgroundTasks(p) \/ CleanupStale(p)
         \/ ForceKill
  PROVE  RowsKeep /\ entry' = entry /\ \A q \in Process : Rests(q)
<1>1. entry' = entry /\ startup' = startup /\ stop' = stop
  BY DEF HostExit, BackgroundTasks, CleanupStale, ForceKill, fleet, tasks
<1>2. /\ entry \in [Process -> ProcessEntry] /\ os \in [Process -> {"none", "alive", "dead"}]
  BY DEF HostInv, TypeOK
<1>3. \A q \in Process : os'[q] = os[q] \/ (os[q] # "none" /\ os'[q] = "dead")
  <2>1. ASSUME NEW p \in Process, HostExit(p)
        PROVE  \A q \in Process : os'[q] = os[q] \/ (os[q] # "none" /\ os'[q] = "dead")
    BY <1>2, <2>1 DEF HostExit
  <2>2. ASSUME NEW p \in Process, BackgroundTasks(p)
        PROVE  os' = os
    BY <2>2 DEF BackgroundTasks
  <2>3. ASSUME NEW p \in Process, CleanupStale(p)
        PROVE  \A q \in Process : os'[q] = os[q] \/ (os[q] # "none" /\ os'[q] = "dead")
    <3>1. record[p].state = "live" /\ os' = [os EXCEPT ![p] = "dead"]
      BY <2>3 DEF CleanupStale
    <3>2. os[p] # "none"
      BY <3>1 DEF HostInv, Recorded
    <3> QED
      BY <1>2, <3>1, <3>2
  <2>4. ASSUME ForceKill
        PROVE  \A q \in Process : os'[q] = os[q] \/ (os[q] # "none" /\ os'[q] = "dead")
    BY <1>2, <2>4 DEF ForceKill
  <2> QED
    BY <2>1, <2>2, <2>3, <2>4
<1>4. \A q \in Process : Rests(q)
  BY <1>1, <1>3 DEF Rests
<1> QED
  BY <1>1, <1>2, <1>4 DEF RowsKeep, HostStep

\* The core crashes.
LEMMA CrashRows ==
  ASSUME HostInv, Crash
  PROVE  RowsKeep /\ \A q \in Process : Lost(q)
<1>1. /\ restarts' = restarts + 1 /\ os' = os
      /\ entry' = [p \in Process |-> IF p \in Present THEN [entry[p] EXCEPT !.state = "removed"]
                                     ELSE entry[p]]
      /\ startup' = [p \in Process |-> IF startup[p] = "none" THEN "none" ELSE "over"]
      /\ stop' = [p \in Process |-> IF stop[p] = "none" THEN "none" ELSE "over"]
  BY DEF Crash, outside
<1>2. restarts' > 0 /\ \A l \in Lease : launch[l] # "idle" => launch'[l] = "lost"
  BY <1>1, FleetAssumption DEF Crash, HostInv, TypeOK, FleetAssumption
<1>3. ASSUME NEW p \in Process
      PROVE  Lost(p) /\ entry'[p] \in ProcessEntry
  <2>1. entry[p] \in ProcessEntry
    BY DEF HostInv, TypeOK
  <2>2. CASE p \in Present
    <3>1. entry'[p] = [entry[p] EXCEPT !.state = "removed"] /\ entry[p].state # "absent"
      BY <1>1, <2>2 DEF Present
    <3>2. /\ entry'[p] \in ProcessEntry
          /\ Marks(p, "removed", entry[p].lease, entry[p].retire, entry[p].cancelled)
      BY <2>1, <3>1 DEF ProcessEntry, Marks, Identity
    <3> QED
      BY <1>1, <1>2, <2>2, <3>1, <3>2 DEF Lost
  <2>3. CASE p \notin Present
    <3>1. entry'[p] = entry[p]
      BY <1>1, <2>3
    <3> QED
      BY <1>1, <1>2, <2>1, <2>3, <3>1 DEF Lost, Marks, Identity
  <2> QED
    BY <2>2, <2>3
<1>4. entry' \in [Process -> ProcessEntry]
  BY <1>1, <1>3
<1> QED
  BY <1>3, <1>4 DEF RowsKeep, HostStep

\* Every step moves every process as one of the rows says.
LEMMA Rows ==
  ASSUME HostInv, Next
  PROVE  RowsKeep
<1>1. ASSUME NEW l \in Lease, LaunchStep(l)
      PROVE  RowsKeep
  <2>1. CASE RetireIncompatible(l) \/ AwaitRetirement(l)
    BY <2>1, RetireIncompatibleRows, AwaitRetirementRows
  <2>2. CASE AcquireReuse(l)
    BY <2>2, AcquireReuseRows
  <2>3. ASSUME NEW p \in Process, AcquireReserve(l, p)
        PROVE  RowsKeep
    BY <2>3, AcquireReserveRows
  <2>4. CASE ReplaceHost(l)
    BY <2>4, ReplaceHostRows
  <2>5. CASE BeginLaunch(l) \/ RetirementsAnswered(l) \/ AcquireBlocked(l) \/ RegisterReuse(l)
    BY <2>5, RestRows
    DEF BeginLaunch, RetirementsAnswered, AcquireBlocked, RegisterReuse, fleet, tasks, outside
  <2>6. CASE StartAnswered(l) \/ BindRoute(l) \/ FailLaunch(l) \/ HostReplaced(l)
    BY <2>6, RestRows DEF StartAnswered, BindRoute, FailLaunch, HostReplaced, fleet, tasks, outside
  <2> QED
    BY <1>1, <2>1, <2>2, <2>3, <2>4, <2>5, <2>6 DEF LaunchStep
<1>2. ASSUME NEW l \in Lease, HandlerStep(l)
      PROVE  RowsKeep
  <2>1. ASSUME NEW d \in {"Reusable", "Stop"}, Release(l, d)
        PROVE  RowsKeep
    BY <2>1, ReleaseRows
  <2>2. ASSUME NEW q \in BOOLEAN, FinishRelease(l, q)
        PROVE  RowsKeep
    BY <2>2, FinishReleaseRows
  <2>3. CASE ReleaseAnswered(l)
    BY <2>3, RestRows DEF ReleaseAnswered, fleet, tasks, outside
  <2>4. CASE RetireRun(l)
    BY <2>4, RetireRunRows
  <2> QED
    BY <1>2, <2>1, <2>2, <2>3, <2>4 DEF HandlerStep
<1>3. ASSUME NEW l \in Lease, CleanerStep(l)
      PROVE  RowsKeep
  <2>1. CASE StopAgentRun(l)
    BY <2>1, StopAgentRunRows
  <2>2. CASE ReadLaunch(l) \/ StopDelayed(l) \/ StopAnswered(l) \/ StopAfterLaunch(l)
    BY <2>2, RestRows
    DEF ReadLaunch, StopDelayed, StopAnswered, StopAfterLaunch, fleet, tasks, outside
  <2>3. CASE Acknowledge(l)
    BY <2>3, RestRows DEF Acknowledge, tasks, outside
  <2> QED
    BY <1>3, <2>1, <2>2, <2>3 DEF CleanerStep
<1>4. ASSUME NEW p \in Process, StartupStep(p)
      PROVE  RowsKeep
  <2>1. ASSUME NEW b \in BOOLEAN, SpawnReturns(p, b) \/ RetireStart(p, b)
        PROVE  RowsKeep
    BY <2>1, SpawnReturnsRows, RetireStartRows
  <2> QED
    BY <1>4, <2>1, StartRefusedRows, SpawnRows, SpawnFailsRows, CommitStartRows, AnswerStartRows
    DEF StartupStep
<1>5. ASSUME NEW p \in Process, StopStep(p) \/ ProcessStep(p)
      PROVE  RowsKeep
  BY <1>5, StopReapedRows, StopExpiredRows, CompleteStopRows, ExitRows DEF StopStep, ProcessStep
<1>6. ASSUME NEW c \in Camp, FenceStep(c)
      PROVE  RowsKeep
  <2>1. CASE FenceAnswered(c)
    BY <2>1, RestRows DEF FenceAnswered, fleet, tasks, outside
  <2> QED
    BY <1>6, <2>1, FenceRows DEF FenceStep
<1>7. CASE FleetStep
  <2>1. ASSUME NEW P \in Matching, Invalidate(P)
        PROVE  RowsKeep
    BY <2>1, InvalidateRows
  <2>2. ASSUME NEW expired \in SUBSET idleLru, SweepIdle(expired)
        PROVE  RowsKeep
    BY <2>2, SweepRows
  <2> QED
    BY <1>7, <2>1, <2>2, ShutdownRows, ExitRows DEF FleetStep
<1>8. CASE Crash
  BY <1>8, CrashRows
<1> QED
  BY <1>1, <1>2, <1>3, <1>4, <1>5, <1>6, <1>7, <1>8 DEF Next

-----------------------------------------------------------------------------
(* The stages of a process.                                                *)

\* A step keeps the stages.
LEMMA StageStep ==
  ASSUME HostInv, RowsKeep
  PROVE  Stage'
<1> SUFFICES ASSUME NEW p \in Process
             PROVE
        /\ entry'[p].state = "absent" <=> startup'[p] = "none"
        /\ entry'[p].state = "absent" =>
              entry'[p] = Absent /\ os'[p] = "none" /\ stop'[p] = "none"
        /\ entry'[p].state = "Starting" <=> startup'[p] \in Unsettled
        /\ startup'[p] \in Unborn => os'[p] = "none"
        /\ startup'[p] \in Unsettled \ Unborn => os'[p] # "none"
        /\ entry'[p].state \in {"Starting", "Busy"} => entry'[p].lease # None
        /\ entry'[p].state \in {"Busy", "IdleWarm"} => os'[p] # "none"
        /\ entry'[p].state = "IdleWarm" => entry'[p].lease = None /\ ~entry'[p].retire
        /\ stop'[p] # "none" => entry'[p].state \in {"Stopping", "removed"}
        /\ stop'[p] \in {"planned", "reaping", "expired"} => entry'[p].state = "Stopping"
        /\ stop'[p] = "removed" => entry'[p].state = "removed" /\ os'[p] = "dead"
        /\ entry'[p].state # "absent" => entry'[p].scope # None
        /\ entry'[p].lease # None => entry'[p].scope = ScopeOf[entry'[p].lease]
  BY DEF Stage
<1>1. HostStep(p)
  BY DEF RowsKeep
<1>2. /\ entry[p].state = "absent" <=> startup[p] = "none"
      /\ entry[p].state = "absent" => entry[p] = Absent /\ os[p] = "none" /\ stop[p] = "none"
      /\ entry[p].state = "Starting" <=> startup[p] \in Unsettled
      /\ startup[p] \in Unborn => os[p] = "none"
      /\ startup[p] \in Unsettled \ Unborn => os[p] # "none"
      /\ entry[p].state \in {"Starting", "Busy"} => entry[p].lease # None
      /\ entry[p].state \in {"Busy", "IdleWarm"} => os[p] # "none"
      /\ entry[p].state = "IdleWarm" => entry[p].lease = None /\ ~entry[p].retire
      /\ stop[p] # "none" => entry[p].state \in {"Stopping", "removed"}
      /\ stop[p] \in {"planned", "reaping", "expired"} => entry[p].state = "Stopping"
      /\ stop[p] = "removed" => entry[p].state = "removed" /\ os[p] = "dead"
      /\ entry[p].state # "absent" => entry[p].scope # None
      /\ entry[p].lease # None => entry[p].scope = ScopeOf[entry[p].lease]
  BY DEF HostInv, Stage
<1>3. /\ entry[p].state \in {"absent", "Starting", "Busy", "IdleWarm", "Stopping", "removed"}
      /\ startup[p] \in Startup /\ stop[p] \in StopTask /\ os[p] \in {"none", "alive", "dead"}
  BY EntryFields DEF HostInv
<1>4. CASE Rests(p)
  BY <1>2, <1>4 DEF Rests
<1>5. CASE Reserved(p)
  <2>1. PICK l \in Lease : Reserves(l, p)
    BY <1>5 DEF Reserved
  <2>2. l # None /\ ScopeOf[l] # None
    BY FleetAssumption DEF FleetAssumption
  <2> QED
    BY <1>2, <1>5, <2>1, <2>2 DEF Reserved, Reserves, Unborn, Unsettled
<1>6. CASE Taken(p)
  <2>1. PICK l \in Lease : Takes(l, p)
    BY <1>6 DEF Taken
  <2>2. l # None /\ entry[p].scope = ScopeOf[l]
    BY <2>1, FleetAssumption DEF FleetAssumption, Takes, CompatibleIdle
  <2> QED
    BY <1>2, <1>6, <2>1, <2>2 DEF Taken, Takes, Marks, Identity, OnlyEntry
<1>7. CASE Warmed(p)
  BY <1>2, <1>7 DEF Warmed, Marks, Identity, OnlyEntry
<1>8. CASE Marked(p)
  BY <1>2, <1>8 DEF Marked, Marks, Identity, OnlyEntry
<1>9. CASE Cancelled(p)
  BY <1>2, <1>9 DEF Cancelled, Marks, Identity, OnlyEntry
<1>10. CASE Stopped(p)
  <2>1. PICK r \in BOOLEAN : Marks(p, "Stopping", entry[p].lease, r, entry[p].cancelled)
    BY <1>10 DEF Stopped
  <2> QED
    BY <1>2, <1>3, <1>10, <2>1 DEF Stopped, Marks, Identity, Launches, Unsettled, Unborn
<1>11. CASE Spawned(p)
  BY <1>2, <1>11 DEF Spawned, Unborn, Unsettled
<1>12. CASE StartMoves(p)
  BY <1>2, <1>12 DEF StartMoves, Unborn, Unsettled
<1>13. CASE Committed(p)
  BY <1>2, <1>13 DEF Committed, Marks, Identity, Unborn, Unsettled
<1>14. CASE Failed(p)
  BY <1>2, <1>14 DEF Failed, Marks, Identity, Unborn, Unsettled
<1>15. CASE Unreaped(p)
  BY <1>2, <1>15 DEF Unreaped, Marks, Identity, Unborn, Unsettled
<1>16. CASE Reaps(p)
  BY <1>2, <1>16 DEF Reaps, Marks, Identity, Unborn, Unsettled
<1>17. CASE StopMoves(p)
  BY <1>2, <1>17 DEF StopMoves
<1>18. CASE Lost(p)
  BY <1>2, <1>3, <1>18 DEF Lost, Marks, Identity, Present, Unborn, Unsettled
<1> QED
  BY <1>1, <1>4, <1>5, <1>6, <1>7, <1>8, <1>9, <1>10, <1>11, <1>12, <1>13, <1>14, <1>15, <1>16,
     <1>17, <1>18 DEF HostStep

-----------------------------------------------------------------------------
(* Types.                                                                  *)

\* Who forgets, and who begins to wait.
LEMMA WaitTypes ==
  ASSUME TypeOK, NEW c \in Caller
  PROVE  /\ Forget(c) \in [Caller -> [Process -> Wait]]
         /\ \A P \in SUBSET Process : Waits(c, P) \in [Caller -> [Process -> Wait]]
         /\ \A f \in [Process -> Wait] : [wait EXCEPT ![c] = f] \in [Caller -> [Process -> Wait]]
<1>1. wait \in [Caller -> [Process -> Wait]]
  BY DEF TypeOK
<1>2. \A f \in [Process -> Wait] : [wait EXCEPT ![c] = f] \in [Caller -> [Process -> Wait]]
  BY <1>1
<1>3. [p \in Process |-> "none"] \in [Process -> Wait]
  BY DEF Wait
<1>4. ASSUME NEW P \in SUBSET Process
      PROVE  [p \in Process |-> IF p \in P THEN StopWait(p) ELSE "none"] \in [Process -> Wait]
  BY DEF Wait, Waiting, StopWait
<1> QED
  BY <1>2, <1>3, <1>4 DEF Forget, Waits

\* The callers.
LEMMA Callers ==
  /\ \A l \in Lease : /\ <<"launch", l>> \in Caller /\ <<"handler", l>> \in Caller
                      /\ <<"cleaner", l>> \in Caller
  /\ \A c \in Camp : <<"fence", c>> \in Caller
BY DEF Caller

\* The launch task keeps the types.
LEMMA LaunchTypes ==
  ASSUME HostInv, NEW l \in Lease, LaunchStep(l)
  PROVE  TypeOK'
<1>1. TypeOK /\ <<"launch", l>> \in Caller
  BY Callers DEF HostInv
<1>2. Ensure \in Launch
  BY DEF Ensure, Launch
<1>3. CASE BeginLaunch(l)
  <2>1. ASSUME NEW q \in PoliciesOf[l]
        PROVE  q \in Policy
    BY FleetAssumption DEF FleetAssumption, Policy
  <2> QED
    BY <1>1, <1>2, <1>3, <2>1 DEF BeginLaunch, TypeOK, fleet, tasks, outside, disk
<1>4. CASE RetireIncompatible(l)
  <2> DEFINE old == {p \in InScope(ScopeOf[l]) : entry[p].policy # policy[l]}
             busy == {p \in old : entry[p].state = "Busy"}
             planned == {p \in old \ busy : Launches(p)}
             new == [p \in Process |-> CASE p \in busy -> "retire" [] p \in planned -> "planned"
                                        [] p \in old \ (busy \cup planned) -> StopWait(p)
                                        [] OTHER -> "none"]
  <2>1. entry' \in [Process -> ProcessEntry]
    BY <1>4, RetireIncompatibleRows DEF RowsKeep
  <2>2. new \in [Process -> Wait]
    BY DEF Wait, Waiting, StopWait
  <2>3. /\ wait' = [wait EXCEPT ![<<"launch", l>>] = new]
        /\ launch' = [launch EXCEPT ![l] = "retiring"]
        /\ idleLru' \subseteq idleLru
        /\ stop' = [p \in Process |-> IF p \in planned THEN "planned" ELSE stop[p]]
        /\ UNCHANGED <<byRun, residents, receipts, shutdown, deleting, startup, sweeping, outside,
                       disk, handler, cleaner, before, acked, fence, policy, kind, restarts>>
    BY <1>4 DEF RetireIncompatible
  <2> HIDE DEF old, busy, planned, new
  <2>4. wait' \in [Caller -> [Process -> Wait]]
    BY <1>1, <2>2, <2>3, WaitTypes
  <2>5. stop' \in [Process -> StopTask] /\ launch' \in [Lease -> Launch]
    BY <1>1, <2>3 DEF TypeOK, StopTask, Launch
  <2> QED
    BY <1>1, <2>1, <2>3, <2>4, <2>5 DEF TypeOK, outside, disk
<1>11. CASE AwaitRetirement(l)
  <2>1. PICK p \in Process :
          /\ wait' = [wait EXCEPT ![<<"launch", l>>][p] = "awaited"]
          /\ stop' = [stop EXCEPT ![p] = IF wait[<<"launch", l>>][p] = "planned" THEN "reaping"
                                         ELSE @]
    BY <1>11 DEF AwaitRetirement
  <2>2. wait' \in [Caller -> [Process -> Wait]] /\ stop' \in [Process -> StopTask]
    BY <1>1, <2>1 DEF TypeOK, Wait, Waiting, StopTask
  <2> QED
    BY <1>1, <1>11, <2>2 DEF AwaitRetirement, TypeOK, fleet, outside, disk
<1>5. CASE RetirementsAnswered(l) \/ StartAnswered(l) \/ HostReplaced(l)
  <2>1. wait' \in [Caller -> [Process -> Wait]]
    BY <1>1, <1>5, WaitTypes DEF RetirementsAnswered, StartAnswered, HostReplaced
  <2>2. launch' \in [Lease -> Launch]
    BY <1>1, <1>2, <1>5 DEF RetirementsAnswered, StartAnswered, HostReplaced, TypeOK, Launch
  <2> QED
    BY <1>1, <1>5, <2>1, <2>2
    DEF RetirementsAnswered, StartAnswered, HostReplaced, TypeOK, fleet, tasks, outside, disk
<1>6. CASE AcquireBlocked(l) \/ BindRoute(l) \/ FailLaunch(l)
  BY <1>1, <1>6
  DEF AcquireBlocked, BindRoute, FailLaunch, TypeOK, fleet, tasks, outside, disk, Launch
<1>7. CASE RegisterReuse(l)
  <2>1. record' \in [Process -> OwnerRecord]
    <3>1. [lease |-> l, state |-> "live"] \in OwnerRecord
      BY DEF OwnerRecord
    <3> QED
      BY <1>1, <1>7, <3>1 DEF RegisterReuse, TypeOK
  <2>2. launch' \in [Lease -> Launch]
    BY <1>1, <1>7 DEF RegisterReuse, TypeOK, Launch
  <2> QED
    BY <1>1, <1>7, <2>1, <2>2 DEF RegisterReuse, TypeOK, fleet, tasks, outside
<1>8. CASE AcquireReuse(l)
  <2>1. PICK p \in CompatibleIdle(l) :
              /\ p \in Process /\ byRun' = [byRun EXCEPT ![l] = p] /\ idleLru' = idleLru \ {p}
    BY <1>8, AcquireReuseRows
  <2>2. entry' \in [Process -> ProcessEntry]
    BY <1>8, AcquireReuseRows DEF RowsKeep
  <2>3. launch' \in [Lease -> Launch]
    BY <1>1, <1>8 DEF AcquireReuse, TypeOK, Launch
  <2> QED
    BY <1>1, <1>8, <2>1, <2>2, <2>3 DEF AcquireReuse, TypeOK, tasks, outside, disk
<1>9. ASSUME NEW p \in Process, AcquireReserve(l, p)
      PROVE  TypeOK'
  <2>1. entry' \in [Process -> ProcessEntry] /\ byRun' = [byRun EXCEPT ![l] = p]
        /\ idleLru' \subseteq idleLru
    BY <1>9, AcquireReserveRows DEF RowsKeep
  <2>2. [q \in Process |-> IF q = p THEN "start" ELSE "none"] \in [Process -> Wait]
    BY DEF Wait, Waiting
  <2>3. wait' \in [Caller -> [Process -> Wait]]
    BY <1>1, <1>9, <2>2, WaitTypes DEF AcquireReserve
  <2>4. launch' \in [Lease -> Launch]
    BY <1>1, <1>9 DEF AcquireReserve, TypeOK, Launch
  <2>5. startup' \in [Process -> Startup] /\ stop' \in [Process -> StopTask]
        /\ residents' \subseteq Process
    BY <1>1, <1>9 DEF AcquireReserve, TypeOK, Startup, StopTask
  <2> QED
    BY <1>1, <1>9, <2>1, <2>3, <2>4, <2>5 DEF AcquireReserve, TypeOK, outside, disk
<1>10. CASE ReplaceHost(l)
  <2>1. entry' \in [Process -> ProcessEntry]
    BY <1>10, ReplaceHostRows DEF RowsKeep
  <2>2. /\ idleLru' \subseteq idleLru /\ launch' \in [Lease -> Launch]
        /\ wait' \in [Caller -> [Process -> Wait]] /\ stop' \in [Process -> StopTask]
    <3>1. CASE byRun[l] = None
      BY <1>1, <1>2, <1>10, <3>1 DEF ReplaceHost, TypeOK
    <3>2. CASE byRun[l] # None
      <4>1. {byRun[l]} \in SUBSET Process
        BY <1>1, <3>2 DEF TypeOK
      <4>2. PlanStop({byRun[l]}) /\ wait' = Waits(<<"launch", l>>, {byRun[l]})
            /\ launch' = [launch EXCEPT ![l] = "replacing"]
        BY <1>10, <3>2 DEF ReplaceHost
      <4>3. wait' \in [Caller -> [Process -> Wait]]
        BY <1>1, <4>1, <4>2, WaitTypes
      <4> QED
        BY <1>1, <4>2, <4>3 DEF PlanStop, TypeOK, Launch, StopTask
    <3> QED
      BY <3>1, <3>2
  <2> QED
    BY <1>1, <1>10, <2>1, <2>2 DEF ReplaceHost, TypeOK, outside, disk
<1> QED
  BY <1>3, <1>4, <1>5, <1>6, <1>7, <1>8, <1>9, <1>10, <1>11 DEF LaunchStep

\* A stop of one Host on behalf of a caller keeps the types.
LEMMA PlanStopTypes ==
  ASSUME TypeOK, NEW P \in SUBSET Process, PlanStop(P)
  PROVE  idleLru' \subseteq idleLru /\ stop' \in [Process -> StopTask]
BY DEF PlanStop, TypeOK, StopTask

\* The terminal handler keeps the types.
LEMMA HandlerTypes ==
  ASSUME HostInv, NEW l \in Lease, HandlerStep(l)
  PROVE  TypeOK'
<1>1. TypeOK /\ <<"handler", l>> \in Caller
  BY Callers DEF HostInv
<1>2. byRun[l] # None => {byRun[l]} \in SUBSET Process
  BY <1>1 DEF TypeOK
<1>3. ASSUME NEW d, Release(l, d)
      PROVE  TypeOK'
  <2>1. entry' \in [Process -> ProcessEntry]
    BY <1>3, ReleaseRows DEF RowsKeep
  <2>2. handler' \in [Lease -> Handler]
    BY <1>1, <1>3 DEF Release, NoLease, TypeOK, Handler
  <2>3. /\ idleLru' \subseteq idleLru /\ stop' \in [Process -> StopTask]
        /\ wait' \in [Caller -> [Process -> Wait]]
    <3>1. CASE /\ byRun[l] # None /\ PlanStop({byRun[l]})
              /\ wait' = Waits(<<"handler", l>>, {byRun[l]})
      BY <1>1, <1>2, <3>1, PlanStopTypes, WaitTypes
    <3>2. CASE UNCHANGED <<entry, idleLru, stop, wait>>
      BY <1>1, <3>2 DEF TypeOK
    <3> QED
      BY <1>3, <3>1, <3>2 DEF Release
  <2> QED
    BY <1>1, <1>3, <2>1, <2>2, <2>3 DEF Release, TypeOK, outside, disk
<1>4. ASSUME NEW q, FinishRelease(l, q)
      PROVE  TypeOK'
  <2>1. entry' \in [Process -> ProcessEntry]
    BY <1>4, FinishReleaseRows DEF RowsKeep
  <2>2. handler' \in [Lease -> Handler]
    BY <1>1, <1>4 DEF FinishRelease, NoLease, TypeOK, Handler
  <2>3. stop' \in [Process -> StopTask] /\ wait' \in [Caller -> [Process -> Wait]]
    BY <1>1, <1>2, <1>4, PlanStopTypes, WaitTypes DEF FinishRelease, TypeOK
  <2>4. idleLru' \subseteq Process /\ byRun' \in [Lease -> Process \cup {None}]
    BY <1>1, <1>2, <1>4, PlanStopTypes DEF FinishRelease, TypeOK
  <2> QED
    BY <1>1, <1>4, <2>1, <2>2, <2>3, <2>4 DEF FinishRelease, TypeOK, outside, disk
<1>5. CASE ReleaseAnswered(l)
  <2>1. wait' \in [Caller -> [Process -> Wait]]
    BY <1>1, <1>5, WaitTypes DEF ReleaseAnswered
  <2>2. handler' \in [Lease -> Handler]
    BY <1>1, <1>5 DEF ReleaseAnswered, StopOutcome, TypeOK, Handler
  <2> QED
    BY <1>1, <1>5, <2>1, <2>2 DEF ReleaseAnswered, TypeOK, fleet, tasks, outside, disk
<1>6. CASE RetireRun(l)
  BY <1>1, <1>6, RetireRunRows DEF RowsKeep, RetireRun, TypeOK, tasks, outside, disk, callers
<1> QED
  BY <1>3, <1>4, <1>5, <1>6 DEF HandlerStep

\* The cleanup worker keeps the types.
LEMMA CleanerTypes ==
  ASSUME HostInv, NEW l \in Lease, CleanerStep(l)
  PROVE  TypeOK'
<1>1. TypeOK /\ <<"cleaner", l>> \in Caller
  BY Callers DEF HostInv
<1>2. CASE ReadLaunch(l) \/ StopDelayed(l) \/ StopAfterLaunch(l)
  <2>1. cleaner' \in [Lease -> Cleaner]
    BY <1>1, <1>2 DEF ReadLaunch, StopDelayed, StopAfterLaunch, TypeOK, Cleaner
  <2>2. before' \in [Lease -> BOOLEAN]
    <3>1. InProgress(l) \in BOOLEAN
      BY DEF InProgress
    <3> DEFINE b == InProgress(l)
    <3> HIDE DEF b
    <3>2. b \in BOOLEAN /\ before \in [Lease -> BOOLEAN]
      BY <1>1, <3>1 DEF b, TypeOK
    <3>3. before' = [before EXCEPT ![l] = b] \/ before' = [before EXCEPT ![l] = FALSE]
          \/ before' = before
      BY <1>2 DEF b, ReadLaunch, StopDelayed, StopAfterLaunch
    <3> QED
      BY <3>2, <3>3
  <2> QED
    BY <1>1, <1>2, <2>1, <2>2
    DEF ReadLaunch, StopDelayed, StopAfterLaunch, TypeOK, fleet, tasks, outside, disk
<1>3. CASE StopAgentRun(l)
  <2>1. entry' \in [Process -> ProcessEntry]
    BY <1>3, StopAgentRunRows DEF RowsKeep
  <2>2. cleaner' \in [Lease -> Cleaner]
    BY <1>1, <1>3 DEF StopAgentRun, Attempted, TypeOK, Cleaner
  <2>3. wait' \in [Caller -> [Process -> Wait]]
    <3>1. byRun[l] # None => {byRun[l]} \in SUBSET Process
      BY <1>1 DEF TypeOK
    <3> QED
      BY <1>1, <1>3, <3>1, WaitTypes DEF StopAgentRun, TypeOK
  <2>4. idleLru' \subseteq idleLru /\ stop' \in [Process -> StopTask]
    BY <1>1, <1>3 DEF StopAgentRun, TypeOK, StopTask
  <2> QED
    BY <1>1, <1>3, <2>1, <2>2, <2>3, <2>4 DEF StopAgentRun, TypeOK, outside, disk
<1>4. CASE StopAnswered(l)
  <2>1. wait' \in [Caller -> [Process -> Wait]]
    BY <1>1, <1>4, WaitTypes DEF StopAnswered
  <2>2. cleaner' \in [Lease -> Cleaner]
    BY <1>1, <1>4 DEF StopAnswered, Attempted, TypeOK, Cleaner
  <2> QED
    BY <1>1, <1>4, <2>1, <2>2 DEF StopAnswered, TypeOK, fleet, tasks, outside, disk
<1>5. CASE Acknowledge(l)
  <2>1. record' \in [Process -> OwnerRecord]
    <3>1. ASSUME NEW p \in Process
          PROVE  /\ record[p] \in OwnerRecord /\ NoRecord \in OwnerRecord
                 /\ [record[p] EXCEPT !.lease = None] \in OwnerRecord
      BY <1>1 DEF TypeOK, OwnerRecord, NoRecord
    <3> QED
      BY <1>5, <3>1 DEF Acknowledge
  <2>2. cleaner' \in [Lease -> Cleaner]
    BY <1>1, <1>5 DEF Acknowledge, TypeOK, Cleaner
  <2> QED
    BY <1>1, <1>5, <2>1, <2>2 DEF Acknowledge, TypeOK, tasks, outside
<1> QED
  BY <1>2, <1>3, <1>4, <1>5 DEF CleanerStep

\* Removals keep the types.
LEMMA RemoveTypes ==
  ASSUME HostInv, NEW p \in Present, Remove(p)
  PROVE  /\ entry' \in [Process -> ProcessEntry] /\ byRun' \in [Lease -> Process \cup {None}]
         /\ residents' \subseteq Process /\ idleLru' \subseteq Process /\ receipts' \subseteq Lease
<1>1. entry[p].lease \in Lease \cup {None}
  BY EntryFields DEF HostInv, Present
<1> QED
  BY <1>1, RemoveFields DEF HostInv, TypeOK

\* The receipt of a Host that was reaped.
LEMMA FinishedRecordFields ==
  ASSUME TypeOK, NEW p \in Process
  PROVE  /\ FinishedRecord(p) \in [Process -> OwnerRecord]
         /\ \A q \in Process \ {p} : FinishedRecord(p)[q] = record[q]
         /\ FinishedRecord(p)[p].lease = record[p].lease
         /\ FinishedRecord(p)[p].state = IF record[p].lease # None THEN "reaped" ELSE "none"
<1> record[p] \in OwnerRecord /\ record \in [Process -> OwnerRecord]
  BY DEF TypeOK
<1>1. CASE record[p].lease # None
  <2> DEFINE new == [record[p] EXCEPT !.state = "reaped"]
  <2>1. new \in OwnerRecord /\ new.lease = record[p].lease /\ new.state = "reaped"
    BY DEF OwnerRecord
  <2>2. FinishedRecord(p) = [record EXCEPT ![p] = new]
    BY <1>1 DEF FinishedRecord
  <2> HIDE DEF new
  <2> QED
    BY <1>1, <2>1, <2>2
<1>2. CASE record[p].lease = None
  <2>1. NoRecord \in OwnerRecord /\ NoRecord.lease = None /\ NoRecord.state = "none"
    BY DEF OwnerRecord, NoRecord
  <2>2. FinishedRecord(p) = [record EXCEPT ![p] = NoRecord]
    BY <1>2 DEF FinishedRecord
  <2> QED
    BY <1>2, <2>1, <2>2
<1> QED
  BY <1>1, <1>2

\* The start of a Host keeps the types.
LEMMA StartupTypes ==
  ASSUME HostInv, NEW p \in Process, StartupStep(p)
  PROVE  TypeOK'
<1>1. TypeOK
  BY DEF HostInv
<1>2. Answer(p, StartFailed) \in [Caller -> [Process -> Wait]]
  BY <1>1, AnswerHears, StartFailedHeard
<1>3. CASE StartRefused(p)
  <2>1. p \in Present /\ Remove(p)
    BY <1>3, StartRefusedRows
  <2>2. startup' \in [Process -> Startup] /\ wait' \in [Caller -> [Process -> Wait]]
    BY <1>1, <1>2, <1>3 DEF StartRefused, FailStart, TypeOK, Startup
  <2> QED
    BY <1>1, <1>3, <2>1, <2>2, RemoveTypes DEF StartRefused, FailStart, TypeOK, disk
<1>4. CASE SpawnFails(p)
  <2>1. p \in Present /\ Remove(p)
    BY <1>4, SpawnFailsRows
  <2>2. startup' \in [Process -> Startup] /\ wait' \in [Caller -> [Process -> Wait]]
    BY <1>1, <1>2, <1>4 DEF SpawnFails, FailStart, TypeOK, Startup
  <2>3. os' \in [Process -> {"none", "alive", "dead"}]
    BY <1>1, <1>4 DEF SpawnFails, TypeOK
  <2> QED
    BY <1>1, <1>4, <2>1, <2>2, <2>3, RemoveTypes DEF SpawnFails, FailStart, TypeOK, disk
<1>5. CASE Spawn(p)
  <2>1. startup' \in [Process -> Startup] /\ os' \in [Process -> {"none", "alive", "dead"}]
    BY <1>1, <1>5 DEF Spawn, TypeOK, Startup
  <2> QED
    BY <1>1, <1>5, <2>1 DEF Spawn, TypeOK, fleet, disk, callers
<1>6. CASE CommitStart(p)
  <2>1. startup' \in [Process -> Startup]
    BY <1>1, <1>6 DEF CommitStart, TypeOK, Startup
  <2>2. entry' \in [Process -> ProcessEntry]
    BY <1>6, CommitStartRows DEF RowsKeep
  <2> QED
    BY <1>1, <1>6, <2>1, <2>2 DEF CommitStart, TypeOK, outside, disk, callers
<1>7. CASE AnswerStart(p)
  <2>1. startup' \in [Process -> Startup]
    BY <1>1, <1>7 DEF AnswerStart, TypeOK, Startup
  <2>2. wait' = Answer(p, StartDone)
    BY <1>7 DEF AnswerStart, StartDone
  <2>3. wait' \in [Caller -> [Process -> Wait]]
    BY <1>1, <2>2, AnswerHears, StartDoneHeard
  <2> QED
    BY <1>1, <1>7, <2>1, <2>3 DEF AnswerStart, TypeOK, fleet, outside, disk
<1>8. ASSUME NEW b \in BOOLEAN, SpawnReturns(p, b)
      PROVE  TypeOK'
  <2>1. startup' \in [Process -> Startup]
    BY <1>1, <1>8 DEF SpawnReturns, TypeOK, Startup
  <2>2. record' \in [Process -> OwnerRecord]
    <3>1. [lease |-> IF Codex THEN entry[p].lease ELSE None, state |-> "live"] \in OwnerRecord
      BY <1>1, EntryFields DEF OwnerRecord
    <3> QED
      BY <1>1, <1>8, <3>1 DEF SpawnReturns, TypeOK
  <2> QED
    BY <1>1, <1>8, <2>1, <2>2 DEF SpawnReturns, TypeOK, fleet, outside, callers
<1>9. ASSUME NEW b \in BOOLEAN, RetireStart(p, b)
      PROVE  TypeOK'
  <2>1. startup' \in [Process -> Startup] /\ wait' \in [Caller -> [Process -> Wait]]
    BY <1>1, <1>2, <1>9 DEF RetireStart, TypeOK, Startup
  <2>2. p \in Present /\ entry' \in [Process -> ProcessEntry]
    BY <1>9, RetireStartRows DEF RowsKeep
  <2>3. /\ byRun' \in [Lease -> Process \cup {None}] /\ residents' \subseteq Process
        /\ idleLru' \subseteq Process /\ receipts' \subseteq Lease
    <3>1. CASE b
      BY <1>9, <2>2, <3>1, RemoveTypes DEF RetireStart
    <3>2. CASE ~b
      BY <1>1, <1>9, <3>2 DEF RetireStart, TypeOK
    <3> QED
      BY <3>1, <3>2
  <2>4. os' \in [Process -> {"none", "alive", "dead"}] /\ record' \in [Process -> OwnerRecord]
    BY <1>1, <1>9, FinishedRecordFields DEF RetireStart, TypeOK
  <2> QED
    BY <1>1, <1>9, <2>1, <2>2, <2>3, <2>4 DEF RetireStart, TypeOK
<1> QED
  BY <1>3, <1>4, <1>5, <1>6, <1>7, <1>8, <1>9 DEF StartupStep

\* The stop of a Host, and what happens to its process, keep the types.
LEMMA StopTypes ==
  ASSUME HostInv, NEW p \in Process, StopStep(p) \/ ProcessStep(p)
  PROVE  TypeOK'
<1>1. TypeOK
  BY DEF HostInv
<1>2. /\ Answer(p, [retire |-> "yes"]) \in [Caller -> [Process -> Wait]]
      /\ Answer(p, [retire |-> "kept"]) \in [Caller -> [Process -> Wait]]
      /\ Answer(p, StopDone(p)) \in [Caller -> [Process -> Wait]]
  <2>1. "yes" \in Answers /\ "kept" \in Answers
    BY DEF Answers
  <2> QED
    BY <1>1, <2>1, AnswerHears, RetireHeard, StopHeard
<1>3. CASE StopReaped(p)
  <2>1. p \in Present /\ Remove(p)
    BY <1>3, StopReapedRows
  <2>2. stop' \in [Process -> StopTask] /\ wait' \in [Caller -> [Process -> Wait]]
    BY <1>1, <1>2, <1>3 DEF StopReaped, TypeOK, StopTask
  <2>3. os' \in [Process -> {"none", "alive", "dead"}]
    BY <1>1, <1>3 DEF StopReaped, TypeOK
  <2> QED
    BY <1>1, <1>3, <2>1, <2>2, <2>3, RemoveTypes DEF StopReaped, TypeOK, disk
<1>4. CASE StopExpired(p)
  <2>1. stop' \in [Process -> StopTask] /\ wait' \in [Caller -> [Process -> Wait]]
    BY <1>1, <1>2, <1>4 DEF StopExpired, TypeOK, StopTask
  <2> QED
    BY <1>1, <1>4, <2>1 DEF StopExpired, TypeOK, outside, disk
<1>5. CASE CompleteStop(p)
  <2>1. stop' \in [Process -> StopTask] /\ startup' \in [Process -> Startup]
    BY <1>1, <1>5 DEF CompleteStop, TypeOK, StopTask, Startup
  <2>2. wait' \in [Caller -> [Process -> Wait]]
    <3>1. wait' = Answer(p, StopDone(p))
      BY <1>5 DEF CompleteStop, StopDone
    <3> QED
      BY <1>2, <3>1
  <2>3. record' \in [Process -> OwnerRecord]
    BY <1>1, <1>5, FinishedRecordFields DEF CompleteStop, TypeOK
  <2> QED
    BY <1>1, <1>5, <2>1, <2>2, <2>3 DEF CompleteStop, TypeOK, fleet, outside
<1>6. CASE HostExit(p) \/ BackgroundTasks(p)
  BY <1>1, <1>6 DEF HostExit, BackgroundTasks, TypeOK, fleet, tasks, disk, callers
<1>7. CASE CleanupStale(p)
  <2>1. os' \in [Process -> {"none", "alive", "dead"}] /\ record' \in [Process -> OwnerRecord]
    BY <1>1, <1>7, FinishedRecordFields DEF CleanupStale, TypeOK
  <2> QED
    BY <1>1, <1>7, <2>1 DEF CleanupStale, TypeOK, fleet, tasks, callers
<1> QED
  BY <1>3, <1>4, <1>5, <1>6, <1>7 DEF StopStep, ProcessStep

\* Fences keep the types.
LEMMA FenceTypes ==
  ASSUME HostInv, NEW c \in Camp, FenceStep(c)
  PROVE  TypeOK'
<1>1. TypeOK /\ <<"fence", c>> \in Caller /\ InCamp(c) \in SUBSET Process
  BY Callers DEF HostInv, InCamp, Present
<1>2. CASE MarkCampDeleting(c) \/ ForceFence(c) \/ FenceAttachments(c)
  <2>1. entry' \in [Process -> ProcessEntry]
    BY <1>2, FenceRows DEF RowsKeep
  <2>2. idleLru' \subseteq idleLru /\ stop' \in [Process -> StopTask]
    BY <1>1, <1>2, FenceRows, PlanStopTypes DEF Halts
  <2>3. wait' \in [Caller -> [Process -> Wait]]
    BY <1>1, <1>2, WaitTypes DEF MarkCampDeleting, ForceFence, FenceAttachments, TypeOK, callers
  <2>4. fence' \in [Camp -> {"idle", "waiting", "fenced"}] /\ deleting' \subseteq Camp
    BY <1>1, <1>2 DEF MarkCampDeleting, ForceFence, FenceAttachments, TypeOK, callers
  <2> QED
    BY <1>1, <1>2, <2>1, <2>2, <2>3, <2>4
    DEF MarkCampDeleting, ForceFence, FenceAttachments, TypeOK, outside, disk, callers
<1>3. CASE FenceAnswered(c)
  <2>1. wait' \in [Caller -> [Process -> Wait]]
    BY <1>1, <1>3, WaitTypes DEF FenceAnswered
  <2> QED
    BY <1>1, <1>3, <2>1 DEF FenceAnswered, TypeOK, fleet, tasks, outside, disk
<1> QED
  BY <1>2, <1>3 DEF FenceStep

\* The steps of the whole fleet keep the types.
LEMMA FleetTypes ==
  ASSUME HostInv, FleetStep \/ Crash
  PROVE  TypeOK'
<1>1. TypeOK
  BY DEF HostInv
<1>2. ASSUME NEW P \in Matching, Invalidate(P)
      PROVE  TypeOK'
  <2>1. entry' \in [Process -> ProcessEntry] /\ idleLru' = idleLru \ P
    BY <1>2, InvalidateRows DEF RowsKeep
  <2>2. stop' \in [Process -> StopTask]
    BY <1>1, <1>2 DEF Invalidate, TypeOK, StopTask
  <2> QED
    BY <1>1, <1>2, <2>1, <2>2 DEF Invalidate, TypeOK, outside, disk, callers
<1>3. ASSUME NEW expired \in SUBSET idleLru, SweepIdle(expired)
      PROVE  TypeOK'
  <2>1. entry' \in [Process -> ProcessEntry]
    BY <1>3, SweepRows DEF RowsKeep
  <2>2. idleLru' \subseteq idleLru /\ stop' \in [Process -> StopTask]
    <3>1. PICK P \in SUBSET Present : Halts(P)
      BY <1>3, SweepRows
    <3>2. P \in SUBSET Process /\ PlanStop(P)
      BY <3>1 DEF Present, Halts
    <3> QED
      BY <1>1, <3>2, PlanStopTypes
  <2>3. sweeping' \subseteq Process
    BY <1>1, <1>3 DEF SweepIdle, Present, TypeOK
  <2> QED
    BY <1>1, <1>3, <2>1, <2>2, <2>3 DEF SweepIdle, TypeOK, outside, disk, callers
<1>4. CASE ShutdownAll
  <2>1. entry' \in [Process -> ProcessEntry]
    BY <1>4, ShutdownRows DEF RowsKeep
  <2>2. idleLru' \subseteq idleLru /\ stop' \in [Process -> StopTask]
    BY <1>1, <1>4, ShutdownRows, PlanStopTypes DEF Halts, Present
  <2> QED
    BY <1>1, <1>4, <2>1, <2>2 DEF ShutdownAll, TypeOK, outside, disk, callers
<1>5. CASE ForceKill
  BY <1>1, <1>5 DEF ForceKill, TypeOK, fleet, tasks, disk, callers
<1>6. CASE Crash
  <2>1. entry' \in [Process -> ProcessEntry]
    BY <1>6, CrashRows DEF RowsKeep
  <2>2. /\ startup' \in [Process -> Startup] /\ stop' \in [Process -> StopTask]
        /\ launch' \in [Lease -> Launch] /\ handler' \in [Lease -> Handler]
        /\ cleaner' \in [Lease -> Cleaner] /\ before' \in [Lease -> BOOLEAN]
        /\ wait' \in [Caller -> [Process -> Wait]]
    BY <1>1, <1>6 DEF Crash, TypeOK, Startup, StopTask, Launch, Handler, Cleaner, Wait
  <2>3. restarts' \in 0..MaxRestart
    BY <1>1, <1>6, FleetAssumption DEF Crash, TypeOK, FleetAssumption
  <2> QED
    BY <1>1, <1>6, <2>1, <2>2, <2>3 DEF Crash, TypeOK, outside
<1> QED
  BY <1>2, <1>3, <1>4, <1>5, <1>6 DEF FleetStep

\* Every step keeps the types.
LEMMA TypeStep ==
  ASSUME HostInv, Next
  PROVE  TypeOK'
BY LaunchTypes, HandlerTypes, CleanerTypes, StartupTypes, StopTypes, FenceTypes, FleetTypes
DEF Next

-----------------------------------------------------------------------------
(* The records of the processes.                                           *)

\* The steps of the executions keep the records true.
LEMMA LeaseRecorded ==
  ASSUME HostInv, NEW l \in Lease, LaunchStep(l) \/ HandlerStep(l) \/ CleanerStep(l)
  PROVE  Recorded'
<1>1. Recorded /\ record \in [Process -> OwnerRecord]
  BY DEF HostInv, TypeOK
<1>2. CASE RegisterReuse(l)
  BY <1>1, <1>2 DEF RegisterReuse, Recorded, outside, Healthy
<1>3. CASE Acknowledge(l)
  <2>1. os' = os
    BY <1>3 DEF Acknowledge, outside
  <2>2. ASSUME NEW p \in Process
        PROVE  record'[p].state \in {record[p].state, "none"}
    <3>1. record[p] \in OwnerRecord
      BY <1>1
    <3>2. [record[p] EXCEPT !.lease = None].state = record[p].state /\ NoRecord.state = "none"
      BY <3>1 DEF OwnerRecord, NoRecord
    <3> QED
      BY <1>3, <3>2 DEF Acknowledge
  <2> QED
    BY <1>1, <2>1, <2>2 DEF Recorded
<1>4. CASE record' = record /\ os' = os
  BY <1>1, <1>4 DEF Recorded
<1>5. LaunchStep(l) => RegisterReuse(l) \/ (record' = record /\ os' = os)
  BY DEF LaunchStep, BeginLaunch, RetireIncompatible, AwaitRetirement, RetirementsAnswered,
         AcquireBlocked, AcquireReuse, AcquireReserve, StartAnswered, BindRoute, FailLaunch,
         ReplaceHost, HostReplaced, disk, outside
<1>6. HandlerStep(l) => record' = record /\ os' = os
  BY DEF HandlerStep, Release, FinishRelease, ReleaseAnswered, RetireRun, disk, outside
<1>7. CleanerStep(l) => Acknowledge(l) \/ (record' = record /\ os' = os)
  BY DEF CleanerStep, ReadLaunch, StopAgentRun, StopDelayed, StopAnswered, StopAfterLaunch, disk,
         outside
<1> QED
  BY <1>2, <1>3, <1>4, <1>5, <1>6, <1>7

\* The steps of the processes keep the records true.
LEMMA ProcessRecorded ==
  ASSUME HostInv, NEW p \in Process, StartupStep(p) \/ StopStep(p) \/ ProcessStep(p)
  PROVE  Recorded'
<1>1. /\ Recorded /\ record \in [Process -> OwnerRecord] /\ TypeOK
      /\ os \in [Process -> {"none", "alive", "dead"}]
  BY DEF HostInv, TypeOK
<1>2. CASE \/ StartRefused(p) \/ CommitStart(p) \/ AnswerStart(p) \/ StopExpired(p)
           \/ BackgroundTasks(p)
  <2>1. os' = os /\ record' = record
    BY <1>2 DEF StartRefused, FailStart, CommitStart, AnswerStart, StopExpired, BackgroundTasks,
                disk, outside
  <2> QED
    BY <1>1, <2>1 DEF Recorded
<1>3. CASE Spawn(p)
  <2>1. os[p] = "none"
    BY <1>3 DEF Spawn, HostInv, Stage, Unborn
  <2> QED
    BY <1>1, <1>3, <2>1 DEF Spawn, Recorded, disk
<1>4. CASE SpawnFails(p) \/ StopReaped(p) \/ HostExit(p)
  <2>1. record' = record /\ os' = [os EXCEPT ![p] = "dead"]
    BY <1>4 DEF SpawnFails, FailStart, StopReaped, HostExit, disk
  <2> QED
    BY <1>1, <2>1 DEF Recorded
<1>5. ASSUME NEW b \in BOOLEAN, SpawnReturns(p, b)
      PROVE  Recorded'
  BY <1>1, <1>5 DEF SpawnReturns, Recorded, outside
<1>6. CASE record' = FinishedRecord(p) /\ os' \in [Process -> {"none", "alive", "dead"}]
           /\ os'[p] = "dead" /\ \A q \in Process \ {p} : os'[q] = os[q]
  BY <1>1, <1>6, FinishedRecordFields DEF Recorded
<1>7. ASSUME NEW b \in BOOLEAN, RetireStart(p, b)
      PROVE  Recorded'
  <2>1. CASE b
    BY <1>1, <1>6, <1>7, <2>1 DEF RetireStart
  <2>2. CASE ~b
    BY <1>1, <1>7, <2>2 DEF RetireStart, Recorded
  <2> QED
    BY <2>1, <2>2
<1>8. CASE CompleteStop(p)
  <2>1. CASE stop[p] = "removed"
    <3>1. os[p] = "dead" /\ os' = os /\ record' = FinishedRecord(p)
      BY <1>8, <2>1 DEF HostInv, Stage, CompleteStop, outside
    <3> QED
      BY <1>1, <1>6, <3>1
  <2>2. CASE stop[p] # "removed"
    BY <1>1, <1>8, <2>2 DEF CompleteStop, outside, Recorded
  <2> QED
    BY <2>1, <2>2
<1>9. CASE CleanupStale(p)
  BY <1>1, <1>6, <1>9 DEF CleanupStale
<1> QED
  BY <1>2, <1>3, <1>4, <1>5, <1>7, <1>8, <1>9 DEF StartupStep, StopStep, ProcessStep

\* Every step keeps the records true.
LEMMA RecordedStep ==
  ASSUME HostInv, Next
  PROVE  Recorded'
<1>1. ASSUME NEW c \in Camp, FenceStep(c)
      PROVE  record' = record /\ os' = os
  BY <1>1
  DEF FenceStep, MarkCampDeleting, ForceFence, FenceAnswered, FenceAttachments, disk, outside
<1>2. CASE FleetStep
  <2>1. /\ record' = record
        /\ \A p \in Process : \/ os'[p] = os[p]
                              \/ os[p] # "none" /\ os'[p] = "dead"
    <3>1. CASE ForceKill
      BY <3>1 DEF ForceKill, disk, HostInv, TypeOK
    <3>2. CASE os' = os /\ record' = record
      BY <3>2
    <3> QED
      BY <1>2, <3>1, <3>2 DEF FleetStep, Invalidate, SweepIdle, ShutdownAll, disk, outside
  <2> QED
    BY <2>1 DEF HostInv, Recorded
<1>3. CASE Crash
  BY <1>3 DEF Crash, outside, HostInv, Recorded
<1> QED
  BY <1>1, <1>2, <1>3, LeaseRecorded, ProcessRecorded DEF Next, HostInv, Recorded

-----------------------------------------------------------------------------
(* The tables of the leases and of the idle Hosts.                         *)

\* It keeps its lease, if it has one, and its place in the table.
Settled(p) ==
    \/ Rests(p) \/ Marked(p) \/ Cancelled(p) \/ Stopped(p) \/ Spawned(p) \/ StartMoves(p)
    \/ Committed(p) \/ Unreaped(p) \/ StopMoves(p)

\* Only warm Hosts that are stopped leave the idle list.
IdleFollows == idleLru' \subseteq idleLru
               /\ \A p \in idleLru : p \in idleLru' <=> entry'[p].state = "IdleWarm"

\* A Host that is settled.
LEMMA SettledFields ==
  ASSUME HostInv, NEW p \in Process, Settled(p)
  PROVE  /\ entry'[p].lease = entry[p].lease /\ Identity(p)
         /\ (p \in Present)' <=> p \in Present
         /\ entry'[p].state = "IdleWarm" => entry[p].state = "IdleWarm"
<1>1. CASE Rests(p) \/ Spawned(p) \/ StartMoves(p) \/ StopMoves(p)
  BY <1>1 DEF Rests, Spawned, StartMoves, StopMoves, Present, Identity
<1>2. CASE Marked(p) \/ Cancelled(p) \/ Committed(p) \/ Unreaped(p)
  <2>1. Unreaped(p) => entry[p].state = "Starting"
    BY DEF Unreaped, HostInv, Stage, Unsettled
  <2> QED
    BY <1>2, <2>1 DEF Marked, Cancelled, Committed, Unreaped, Marks, Present
<1>3. CASE Stopped(p)
  BY <1>3 DEF Stopped, Marks, Present
<1> QED
  BY <1>1, <1>2, <1>3 DEF Settled

\* When nothing is leased, given back or removed, the tables still agree.
LEMMA SettledTables ==
  ASSUME HostInv, Stage', \A p \in Process : Settled(p), byRun' = byRun, IdleFollows
  PROVE  LeaseBookkeeping'
<1>1. TypeOK /\ LeaseBookkeeping
  BY DEF HostInv
<1>2. ASSUME NEW l \in Lease, NEW p \in Process
      PROVE  byRun'[l] = p <=> (p \in Present)' /\ entry'[p].lease = l
  BY <1>1, SettledFields DEF LeaseBookkeeping
<1>3. idleLru' = {p \in Process : entry'[p].state = "IdleWarm"}
  BY <1>1, SettledFields DEF LeaseBookkeeping, IdleFollows, TypeOK
<1>4. \A p \in idleLru' : entry'[p].lease = None /\ ~entry'[p].retire
  BY <1>3 DEF Stage
<1> QED
  BY <1>2, <1>3, <1>4 DEF LeaseBookkeeping

\* A removal leaves the tables in agreement.
LEMMA RemoveTables ==
  ASSUME HostInv, Stage', NEW p \in Present, Remove(p), \A q \in Process \ {p} : Rests(q)
  PROVE  LeaseBookkeeping'
<1>1. TypeOK /\ LeaseBookkeeping /\ p \in Process
  BY DEF HostInv, Present
<1>2. /\ Marks(p, "removed", entry[p].lease, entry[p].retire, entry[p].cancelled)
      /\ \A q \in Process \ {p} : entry'[q] = entry[q]
      /\ idleLru' = idleLru \ {p}
      /\ \A l \in Lease : byRun'[l] = IF entry[p].lease = l THEN None ELSE byRun[l]
  BY RemoveFields
<1>3. ASSUME NEW l \in Lease, NEW q \in Process
      PROVE  byRun'[l] = q <=> (q \in Present)' /\ entry'[q].lease = l
  <2>1. q # None /\ l # None
    BY FleetAssumption DEF FleetAssumption
  <2>2. byRun[l] = q <=> q \in Present /\ entry[q].lease = l
    BY <1>1 DEF LeaseBookkeeping
  <2>3. byRun[l] = p <=> entry[p].lease = l
    BY <1>1 DEF LeaseBookkeeping
  <2>4. CASE q = p
    BY <1>2, <2>1, <2>3, <2>4 DEF Marks, Present
  <2>5. CASE q # p
    BY <1>1, <1>2, <2>1, <2>2, <2>3, <2>5 DEF Present
  <2> QED
    BY <2>4, <2>5
<1>4. idleLru' = {q \in Process : entry'[q].state = "IdleWarm"}
  BY <1>1, <1>2 DEF LeaseBookkeeping, Marks
<1>5. \A q \in idleLru' : entry'[q].lease = None /\ ~entry'[q].retire
  BY <1>4 DEF Stage
<1> QED
  BY <1>3, <1>4, <1>5 DEF LeaseBookkeeping

\* A new lease is entered in both tables.
LEMMA LeasedTables ==
  ASSUME HostInv, Stage', NEW l \in Lease, NEW p \in Process, byRun[l] = None,
         \A k \in Lease : k = l \/ byRun[k] # p,
         byRun' = [byRun EXCEPT ![l] = p],
         entry'[p].lease = l, entry'[p].state \in {"Starting", "Busy"}, p \notin idleLru',
         \A q \in Process \ {p} : Settled(q), IdleFollows
  PROVE  LeaseBookkeeping'
<1>1. TypeOK /\ LeaseBookkeeping
  BY DEF HostInv
<1>2. ASSUME NEW k \in Lease, NEW q \in Process
      PROVE  byRun'[k] = q <=> (q \in Present)' /\ entry'[q].lease = k
  <2>1. byRun'[k] = IF k = l THEN p ELSE byRun[k]
    BY <1>1 DEF TypeOK
  <2>2. CASE q = p
    BY <2>1, <2>2 DEF Present
  <2>3. CASE q # p
    <3>1. /\ entry'[q].lease = entry[q].lease
          /\ (q \in Present)' <=> q \in Present
          /\ byRun[k] = q <=> q \in Present /\ entry[q].lease = k
      BY <1>1, <2>3, SettledFields DEF LeaseBookkeeping
    <3>2. k = l => byRun[k] # q
      BY FleetAssumption DEF FleetAssumption
    <3> QED
      BY <2>1, <2>3, <3>1, <3>2
  <2> QED
    BY <2>2, <2>3
<1>3. idleLru' = {q \in Process : entry'[q].state = "IdleWarm"}
  BY <1>1, SettledFields DEF LeaseBookkeeping, IdleFollows, TypeOK
<1>4. \A q \in idleLru' : entry'[q].lease = None /\ ~entry'[q].retire
  BY <1>3 DEF Stage
<1> QED
  BY <1>2, <1>3, <1>4 DEF LeaseBookkeeping

\* Stops settle every Host.
LEMMA PlanStopTables ==
  ASSUME HostInv, NEW P \in SUBSET Present, PlanStop(P), startup' = startup, os' = os
  PROVE  IdleFollows /\ \A q \in Process : Settled(q)
<1>1. /\ idleLru' = idleLru \ P
      /\ \A p \in Process : /\ p \in P /\ entry[p].state = "Starting" => Cancelled(p)
                            /\ p \in P /\ entry[p].state # "Starting" => Stopped(p)
                            /\ p \notin P => Rests(p)
  BY PlanStopRows
<1>2. ASSUME NEW p \in idleLru
      PROVE  p \in idleLru' <=> entry'[p].state = "IdleWarm"
  <2>1. p \in Process /\ entry[p].state = "IdleWarm"
    BY DEF HostInv, LeaseBookkeeping
  <2>2. p \in P => entry'[p].state = "Stopping"
    BY <1>1, <2>1 DEF Stopped, Marks
  <2>3. p \notin P => entry'[p].state = "IdleWarm"
    BY <1>1, <2>1 DEF Rests
  <2> QED
    BY <1>1, <2>2, <2>3
<1> QED
  BY <1>1, <1>2 DEF IdleFollows, Settled

\* So does a retirement.
LEMMA RetireTables ==
  ASSUME HostInv, NEW P \in SUBSET Present, NEW how \in {"planned", "reaping"},
         RetireHosts(P, how), startup' = startup, os' = os
  PROVE  IdleFollows /\ \A q \in Process : Settled(q)
<1>1. /\ idleLru' = idleLru \ P
      /\ \A p \in Process : /\ p \in BusyOf(P) => Marked(p)
                            /\ p \in P \ BusyOf(P) => Cancelled(p) \/ Stopped(p)
                            /\ p \notin P => Rests(p)
  BY RetireRows
<1>2. ASSUME NEW p \in idleLru
      PROVE  p \in idleLru' <=> entry'[p].state = "IdleWarm"
  <2>1. p \in Process /\ entry[p].state = "IdleWarm"
    BY DEF HostInv, LeaseBookkeeping
  <2>2. p \in P => entry'[p].state = "Stopping"
    BY <1>1, <2>1 DEF BusyOf, Cancelled, Stopped, Marks
  <2>3. p \notin P => entry'[p].state = "IdleWarm"
    BY <1>1, <2>1 DEF Rests
  <2> QED
    BY <1>1, <2>2, <2>3
<1> QED
  BY <1>1, <1>2 DEF IdleFollows, Settled

\* The launch task keeps the tables in agreement.
LEMMA LaunchTables ==
  ASSUME HostInv, Stage', NEW l \in Lease, LaunchStep(l)
  PROVE  LeaseBookkeeping'
<1>1. TypeOK /\ LeaseBookkeeping /\ None \notin Process
  BY FleetAssumption DEF HostInv, FleetAssumption
<1>2. CASE UNCHANGED <<entry, byRun, idleLru>>
  BY <1>1, <1>2 DEF LeaseBookkeeping, Present
<1>3. CASE RetireIncompatible(l)
  <2>1. startup' = startup /\ os' = os /\ byRun' = byRun
    BY <1>3 DEF RetireIncompatible, outside
  <2> QED
    BY <1>3, <2>1, RetiresOld, RetireTables, SettledTables
<1>4. CASE AcquireReuse(l)
  <2>1. PICK p \in CompatibleIdle(l) :
          /\ p \in Process /\ byRun' = [byRun EXCEPT ![l] = p] /\ idleLru' = idleLru \ {p}
          /\ entry[p].state = "IdleWarm"
          /\ Takes(l, p) /\ \A q \in Process \ {p} : Rests(q)
    BY <1>4, AcquireReuseRows
  <2>2. entry'[p].lease = l /\ entry'[p].state = "Busy" /\ byRun[l] = None
    BY <2>1 DEF Takes, Marks, Blocked
  <2>3. \A k \in Lease : byRun[k] # p
    <3>1. entry[p].lease = None
      BY <2>1 DEF HostInv, Stage
    <3>2. None \notin Lease
      BY FleetAssumption DEF FleetAssumption
    <3> QED
      BY <1>1, <2>1, <3>1, <3>2 DEF LeaseBookkeeping
  <2>4. \A q \in Process \ {p} : Settled(q)
    BY <2>1 DEF Settled
  <2>5. IdleFollows
    BY <1>1, <2>1, <2>2 DEF IdleFollows, LeaseBookkeeping, Rests
  <2> QED
    BY <2>1, <2>2, <2>3, <2>4, <2>5, LeasedTables
<1>5. ASSUME NEW p \in Process, AcquireReserve(l, p)
      PROVE  LeaseBookkeeping'
  <2>1. /\ byRun' = [byRun EXCEPT ![l] = p] /\ idleLru' \subseteq idleLru
        /\ entry[p].state = "absent"
        /\ Reserves(l, p)
        /\ \A q \in Process \ {p} :
              \/ Rests(q)
              \/ /\ entry[q].state = "IdleWarm" /\ Stopped(q)
        /\ \A q \in Process : q \in idleLru \ idleLru' => entry'[q].state = "Stopping"
        /\ \A q \in Process \ {p} : entry'[q].state = "Stopping" => q \notin idleLru'
    BY <1>5, AcquireReserveRows
  <2>2. entry'[p].lease = l /\ entry'[p].state = "Starting" /\ byRun[l] = None
    BY <2>1 DEF Reserves, Blocked
  <2>3. p \notin idleLru /\ \A k \in Lease : byRun[k] # p
    BY <1>1, <2>1 DEF LeaseBookkeeping, Present
  <2>4. \A q \in Process \ {p} : Settled(q)
    BY <2>1 DEF Settled
  <2>5. IdleFollows
    <3>1. ASSUME NEW q \in idleLru
          PROVE  q \in idleLru' <=> entry'[q].state = "IdleWarm"
      <4>1. q \in Process \ {p} /\ entry[q].state = "IdleWarm"
        BY <1>1, <2>3 DEF TypeOK, LeaseBookkeeping
      <4>2. CASE Rests(q)
        BY <2>1, <4>1, <4>2 DEF Rests
      <4>3. CASE Stopped(q)
        BY <2>1, <4>1, <4>3 DEF Stopped, Marks
      <4> QED
        BY <2>1, <4>1, <4>2, <4>3
    <3> QED
      BY <2>1, <3>1 DEF IdleFollows
  <2> QED
    BY <2>1, <2>2, <2>3, <2>4, <2>5, LeasedTables
<1>6. CASE ReplaceHost(l)
  <2>1. startup' = startup /\ os' = os /\ byRun' = byRun
    BY <1>6 DEF ReplaceHost, outside
  <2>2. CASE byRun[l] = None
    BY <1>2, <1>6, <2>1, <2>2 DEF ReplaceHost
  <2>3. CASE byRun[l] # None
    <3>1. PlanStop({byRun[l]}) /\ {byRun[l]} \subseteq Present
      BY <1>6, <2>3, LeasedPresent DEF ReplaceHost
    <3> QED
      BY <2>1, <3>1, PlanStopTables, SettledTables
  <2> QED
    BY <2>2, <2>3
<1> QED
  BY <1>2, <1>3, <1>4, <1>5, <1>6
  DEF LaunchStep, BeginLaunch, AwaitRetirement, RetirementsAnswered, AcquireBlocked, RegisterReuse,
      StartAnswered, BindRoute, FailLaunch, HostReplaced, fleet

\* The terminal handler keeps the tables in agreement.
LEMMA HandlerTables ==
  ASSUME HostInv, Stage', NEW l \in Lease, HandlerStep(l)
  PROVE  LeaseBookkeeping'
<1>1. TypeOK /\ LeaseBookkeeping /\ None \notin Process \cup Lease
  BY FleetAssumption DEF HostInv, FleetAssumption
<1>2. CASE UNCHANGED <<entry, byRun, idleLru>>
  BY <1>1, <1>2 DEF LeaseBookkeeping, Present
<1>3. CASE byRun[l] # None /\ PlanStop({byRun[l]}) /\ UNCHANGED <<byRun, startup, os>>
  <2>1. {byRun[l]} \subseteq Present
    BY <1>3, LeasedPresent
  <2> QED
    BY <1>3, <2>1, PlanStopTables, SettledTables
<1>4. ASSUME NEW d, Release(l, d)
      PROVE  LeaseBookkeeping'
  BY <1>2, <1>3, <1>4 DEF Release, outside
<1>5. ASSUME NEW q, FinishRelease(l, q)
      PROVE  LeaseBookkeeping'
  <2>1. UNCHANGED <<startup, os>>
    BY <1>5 DEF FinishRelease, outside
  <2>2. CASE /\ byRun[l] # None /\ Warmed(byRun[l]) /\ byRun[l] \in Process
             /\ byRun' = [byRun EXCEPT ![l] = None] /\ idleLru' = idleLru \cup {byRun[l]}
             /\ \A p \in Process \ {byRun[l]} : Rests(p)
    <3>1. ASSUME NEW k \in Lease, NEW p \in Process
          PROVE  byRun'[k] = p <=> (p \in Present)' /\ entry'[p].lease = k
      <4>1. byRun'[k] = IF k = l THEN None ELSE byRun[k]
        BY <1>1, <2>2 DEF TypeOK
      <4>2. CASE p = byRun[l]
        <5>1. entry'[p].lease = None /\ entry[p].lease = l /\ p \in Present
          BY <1>1, <2>2, <4>2 DEF Warmed, Marks, LeaseBookkeeping
        <5>2. k # l => byRun[k] # p
          BY <1>1, <5>1 DEF LeaseBookkeeping
        <5> QED
          BY <1>1, <4>1, <5>1, <5>2
      <4>3. CASE p # byRun[l]
        <5>1. entry'[p] = entry[p]
          BY <2>2, <4>3 DEF Rests
        <5>2. byRun[k] = p <=> p \in Present /\ entry[p].lease = k
          BY <1>1 DEF LeaseBookkeeping
        <5> QED
          BY <1>1, <4>1, <4>3, <5>1, <5>2 DEF Present
      <4> QED
        BY <4>2, <4>3
    <3>2. idleLru' = {p \in Process : entry'[p].state = "IdleWarm"}
      BY <1>1, <2>2 DEF LeaseBookkeeping, Warmed, Marks, Rests
    <3>3. \A p \in idleLru' : entry'[p].lease = None /\ ~entry'[p].retire
      BY <3>2 DEF Stage
    <3> QED
      BY <3>1, <3>2, <3>3 DEF LeaseBookkeeping
  <2> QED
    BY <1>2, <1>3, <1>5, <2>1, <2>2, FinishReleaseRows
<1>6. CASE RetireRun(l)
  <2>1. /\ byRun[l] \in Present /\ Marked(byRun[l])
        /\ \A q \in Process \ {byRun[l]} : Rests(q)
    BY <1>6, RetireRunRows
  <2>2. byRun' = byRun /\ idleLru' = idleLru
    BY <1>6 DEF RetireRun
  <2>3. byRun[l] \notin idleLru
    BY <1>1, <2>1 DEF LeaseBookkeeping, Marked
  <2>4. IdleFollows
    BY <1>1, <2>1, <2>2, <2>3 DEF IdleFollows, Rests, LeaseBookkeeping
  <2> QED
    BY <2>1, <2>2, <2>4, SettledTables DEF Settled
<1> QED
  BY <1>2, <1>4, <1>5, <1>6 DEF HandlerStep, ReleaseAnswered, fleet

\* The cleanup worker keeps the tables in agreement.
LEMMA CleanerTables ==
  ASSUME HostInv, Stage', NEW l \in Lease, CleanerStep(l)
  PROVE  LeaseBookkeeping'
<1>1. TypeOK /\ LeaseBookkeeping
  BY DEF HostInv
<1>2. CASE UNCHANGED <<entry, byRun, idleLru>>
  BY <1>1, <1>2 DEF LeaseBookkeeping, Present
<1>3. CASE StopAgentRun(l)
  <2>1. byRun' = byRun
    BY <1>3 DEF StopAgentRun
  <2>2. CASE byRun[l] = None
    BY <1>2, <1>3, <2>1, <2>2, StopAgentRunRows
  <2>3. CASE byRun[l] # None
    <3>1. /\ byRun[l] \in Present /\ idleLru' = idleLru \ {byRun[l]}
          /\ Cancelled(byRun[l]) \/ Stopped(byRun[l])
          /\ \A q \in Process \ {byRun[l]} : Rests(q)
      BY <1>3, <2>3, StopAgentRunRows
    <3>2. entry'[byRun[l]].state # "IdleWarm"
      BY <3>1 DEF Cancelled, Stopped, Marks
    <3>3. IdleFollows
      BY <1>1, <3>1, <3>2 DEF IdleFollows, Rests, LeaseBookkeeping
    <3> QED
      BY <2>1, <3>1, <3>3, SettledTables DEF Settled
  <2> QED
    BY <2>2, <2>3
<1> QED
  BY <1>2, <1>3
  DEF CleanerStep, ReadLaunch, StopDelayed, StopAnswered, StopAfterLaunch, Acknowledge,
                   fleet

\* The start and the stop of a Host keep the tables in agreement.
LEMMA ProcessTables ==
  ASSUME HostInv, Stage', NEW p \in Process, StartupStep(p) \/ StopStep(p) \/ ProcessStep(p)
  PROVE  LeaseBookkeeping'
<1>1. TypeOK /\ LeaseBookkeeping
  BY DEF HostInv
<1>2. CASE UNCHANGED <<entry, byRun, idleLru>>
  BY <1>1, <1>2 DEF LeaseBookkeeping, Present
<1>3. CASE StartRefused(p) \/ SpawnFails(p) \/ StopReaped(p)
  BY <1>3, StartRefusedRows, SpawnFailsRows, StopReapedRows, RemoveTables
<1>4. CASE CommitStart(p)
  <2>1. /\ Committed(p) \/ StartMoves(p)
        /\ \A q \in Process \ {p} : Rests(q)
    BY <1>4, CommitStartRows
  <2>2. byRun' = byRun /\ idleLru' = idleLru
    BY <1>4 DEF CommitStart
  <2>3. p \notin idleLru
    BY <1>1, <1>4, CommitStartRows DEF LeaseBookkeeping, HostInv, Stage, Unsettled
  <2>4. IdleFollows
    BY <1>1, <2>1, <2>2, <2>3 DEF IdleFollows, Rests, LeaseBookkeeping
  <2> QED
    BY <2>1, <2>2, <2>4, SettledTables DEF Settled
<1>5. ASSUME NEW b \in BOOLEAN, RetireStart(p, b)
      PROVE  LeaseBookkeeping'
  <2>1. /\ p \in Present /\ entry[p].state = "Starting"
        /\ \/ b /\ Failed(p) /\ Remove(p) /\ os'[p] = "dead"
           \/ ~b /\ Unreaped(p)
        /\ \A q \in Process \ {p} : Rests(q)
    BY <1>5, RetireStartRows
  <2>2. CASE b
    BY <2>1, <2>2, RemoveTables
  <2>3. CASE ~b
    <3>1. byRun' = byRun /\ idleLru' = idleLru
      BY <1>5, <2>3 DEF RetireStart
    <3>2. IdleFollows
      BY <1>1, <2>1, <3>1 DEF IdleFollows, Rests, LeaseBookkeeping
    <3> QED
      BY <2>1, <2>3, <3>1, <3>2, SettledTables DEF Settled
  <2> QED
    BY <2>2, <2>3
<1>6. ASSUME NEW b \in BOOLEAN, SpawnReturns(p, b)
      PROVE  LeaseBookkeeping'
  BY <1>2, <1>6 DEF SpawnReturns, fleet
<1> QED
  BY <1>2, <1>3, <1>4, <1>5, <1>6
  DEF StartupStep, StopStep, ProcessStep, Spawn, AnswerStart, StopExpired, CompleteStop, HostExit,
      BackgroundTasks, CleanupStale, fleet

\* Fences and the steps of the whole fleet keep the tables in agreement.
LEMMA FleetTables ==
  ASSUME HostInv, Stage', FleetStep \/ Crash \/ \E c \in Camp : FenceStep(c)
  PROVE  LeaseBookkeeping'
<1>1. TypeOK /\ LeaseBookkeeping
  BY DEF HostInv
<1>2. CASE UNCHANGED <<entry, byRun, idleLru>>
  BY <1>1, <1>2 DEF LeaseBookkeeping, Present
<1>3. ASSUME NEW P \in SUBSET Present, Halts(P), byRun' = byRun
      PROVE  LeaseBookkeeping'
  BY <1>3, PlanStopTables, SettledTables DEF Halts
<1>4. ASSUME NEW c \in Camp, FenceStep(c)
      PROVE  LeaseBookkeeping'
  <2>1. CASE FenceAnswered(c)
    BY <1>2, <2>1 DEF FenceAnswered, fleet
  <2>2. CASE MarkCampDeleting(c) \/ ForceFence(c) \/ FenceAttachments(c)
    <3>1. byRun' = byRun /\ InCamp(c) \subseteq Present
      BY <2>2 DEF MarkCampDeleting, ForceFence, FenceAttachments, InCamp
    <3> QED
      BY <1>3, <2>2, <3>1, FenceRows
  <2> QED
    BY <1>4, <2>1, <2>2 DEF FenceStep
<1>5. ASSUME NEW P \in Matching, Invalidate(P)
      PROVE  LeaseBookkeeping'
  <2>1. P \subseteq Present
    BY <1>5, InvalidateRows
  <2>2. RetireHosts(P, "reaping") /\ startup' = startup /\ os' = os /\ byRun' = byRun
    BY <1>5 DEF Invalidate, outside, RetireHosts, BusyOf
  <2> QED
    BY <2>1, <2>2, RetireTables, SettledTables
<1>6. ASSUME NEW expired \in SUBSET idleLru, SweepIdle(expired)
      PROVE  LeaseBookkeeping'
  BY <1>3, <1>6, SweepRows DEF SweepIdle
<1>7. CASE ShutdownAll
  BY <1>3, <1>7, ShutdownRows DEF ShutdownAll
<1>8. CASE Crash
  <2>1. ASSUME NEW p \in Process
        PROVE  (p \notin Present)' /\ entry'[p].state # "IdleWarm"
    <3>1. Lost(p)
      BY <1>8, CrashRows
    <3> QED
      BY <3>1 DEF Lost, Marks, Present
  <2>2. idleLru' = {} /\ \A l \in Lease : byRun'[l] = None
    BY <1>8 DEF Crash
  <2>3. None \notin Process
    BY FleetAssumption DEF FleetAssumption
  <2>4. \A l \in Lease, p \in Process : byRun'[l] = p <=> (p \in Present)' /\ entry'[p].lease = l
    BY <2>1, <2>2, <2>3
  <2>5. idleLru' = {p \in Process : entry'[p].state = "IdleWarm"}
    BY <2>1, <2>2
  <2> QED
    BY <2>2, <2>4, <2>5 DEF LeaseBookkeeping
<1> QED
  BY <1>2, <1>4, <1>5, <1>6, <1>7, <1>8 DEF FleetStep, ForceKill, fleet

-----------------------------------------------------------------------------
(* The stops that a launch has planned.                                    *)

\* A stop that is planned is not planned again.
LEMMA PlannedShared ==
  ASSUME HostInv, NEW p \in Process, stop[p] = "planned"
  PROVE  entry[p].state = "Stopping" /\ ~Launches(p)
BY DEF HostInv, Stage, Launches, Unfinished

\* It is dispatched by the launch that planned it and by nobody else.
LEMMA PlannedStays ==
  ASSUME HostInv, Next, NEW p \in Process, stop[p] = "planned", ~Crash,
         \A l \in Lease : ~AwaitRetirement(l)
  PROVE  stop'[p] = "planned"
<1>1. /\ entry[p].state = "Stopping" /\ ~Launches(p)
      /\ stop \in [Process -> StopTask]
  BY PlannedShared DEF HostInv, TypeOK
<1>2. ASSUME NEW P, PlanStop(P)
      PROVE  stop'[p] = "planned"
  BY <1>1, <1>2 DEF PlanStop
<1>3. ASSUME NEW l \in Lease, LaunchStep(l)
      PROVE  stop'[p] = "planned"
  <2>1. CASE RetireIncompatible(l)
    BY <1>1, <2>1 DEF RetireIncompatible
  <2>2. ASSUME NEW q \in Process, AcquireReserve(l, q)
        PROVE  stop'[p] = "planned"
    <3>1. ASSUME NEW v \in Evictable(MemberOf[ScopeOf[l]]),
                 stop' = [stop EXCEPT ![v] = "reaping"]
          PROVE  stop'[p] = "planned"
      <4>1. v # p
        BY <1>1 DEF Evictable, OfMember
      <4> QED
        BY <1>1, <3>1, <4>1
    <3> QED
      BY <2>2, <3>1 DEF AcquireReserve
  <2>3. CASE ReplaceHost(l)
    BY <1>2, <2>3 DEF ReplaceHost
  <2> QED
    BY <1>3, <2>1, <2>2, <2>3
    DEF LaunchStep, BeginLaunch, RetirementsAnswered, AcquireBlocked, AcquireReuse, RegisterReuse,
        StartAnswered, BindRoute, FailLaunch, HostReplaced, tasks
<1>4. ASSUME NEW l \in Lease, HandlerStep(l)
      PROVE  stop'[p] = "planned"
  BY <1>2, <1>4 DEF HandlerStep, Release, FinishRelease, ReleaseAnswered, RetireRun, tasks
<1>5. ASSUME NEW l \in Lease, CleanerStep(l)
      PROVE  stop'[p] = "planned"
  <2>1. CASE StopAgentRun(l)
    BY <1>1, <2>1 DEF StopAgentRun
  <2> QED
    BY <1>5, <2>1
    DEF CleanerStep, ReadLaunch, StopDelayed, StopAnswered, StopAfterLaunch, Acknowledge, tasks
<1>6. ASSUME NEW q \in Process, StartupStep(q)
      PROVE  stop'[p] = "planned"
  BY <1>6 DEF StartupStep, StartRefused, FailStart, Spawn, SpawnFails, SpawnReturns, CommitStart,
              AnswerStart, RetireStart
<1>7. ASSUME NEW q \in Process, StopStep(q) \/ ProcessStep(q)
      PROVE  stop'[p] = "planned"
  BY <1>1, <1>7 DEF StopStep, StopReaped, StopExpired, CompleteStop, ProcessStep, HostExit,
                    BackgroundTasks, CleanupStale, tasks
<1>8. ASSUME NEW c \in Camp, FenceStep(c)
      PROVE  stop'[p] = "planned"
  BY <1>2, <1>8 DEF FenceStep, MarkCampDeleting, ForceFence, FenceAnswered, FenceAttachments, tasks
<1>9. CASE FleetStep
  <2>1. ASSUME NEW P \in Matching, Invalidate(P)
        PROVE  stop'[p] = "planned"
    BY <1>1, <2>1 DEF Invalidate
  <2>2. ASSUME NEW expired \in SUBSET idleLru, SweepIdle(expired)
        PROVE  stop'[p] = "planned"
    BY <1>2, <2>2 DEF SweepIdle
  <2> QED
    BY <1>2, <1>9, <2>1, <2>2 DEF FleetStep, ShutdownAll, ForceKill, tasks
<1> QED
  BY <1>3, <1>4, <1>5, <1>6, <1>7, <1>8, <1>9 DEF Next

\* Callers that forget, wait or hear plan nothing.
LEMMA NothingPlanned ==
  ASSUME TypeOK, NEW c \in Caller, NEW p \in Process
  PROVE  /\ \A d \in Caller : /\ Forget(d)[c][p] = "planned" => wait[c][p] = "planned"
                             /\ \A P : Waits(d, P)[c][p] = "planned" => wait[c][p] = "planned"
         /\ \A q \in Process : \A answers :
              (\A w \in DOMAIN answers : answers[w] \in Answers) =>
                  (Answer(q, answers)[c][p] = "planned" => wait[c][p] = "planned")
<1>1. wait \in [Caller -> [Process -> Wait]]
  BY DEF TypeOK
<1>2. ASSUME NEW d \in Caller
      PROVE  /\ Forget(d)[c][p] = "planned" => wait[c][p] = "planned"
             /\ \A P : Waits(d, P)[c][p] = "planned" => wait[c][p] = "planned"
  BY <1>1 DEF Forget, Waits, StopWait
<1>3. ASSUME NEW q \in Process, NEW answers, \A w \in DOMAIN answers : answers[w] \in Answers,
             Answer(q, answers)[c][p] = "planned"
      PROVE  wait[c][p] = "planned"
  <2>1. CASE wait[c][q] \in DOMAIN answers
    <3>1. Answer(q, answers)[c] = [wait[c] EXCEPT ![q] = answers[wait[c][q]]]
      BY <2>1 DEF Answer
    <3>2. answers[wait[c][q]] # "planned"
      BY <1>3, <2>1 DEF Answers
    <3> QED
      BY <1>1, <1>3, <3>1, <3>2
  <2>2. CASE wait[c][q] \notin DOMAIN answers
    BY <1>3, <2>2 DEF Answer
  <2> QED
    BY <2>1, <2>2
<1> QED
  BY <1>2, <1>3

\* Only a launch that retires Hosts plans stops.
LEMMA OnlyRetiring ==
  ASSUME HostInv, Next, NEW l \in Lease, NEW p \in Process,
         \A k \in Lease : ~RetireIncompatible(k), wait'[<<"launch", l>>][p] = "planned"
  PROVE  wait[<<"launch", l>>][p] = "planned"
<1> DEFINE c == <<"launch", l>>
<1>1. /\ TypeOK /\ c \in Caller /\ wait \in [Caller -> [Process -> Wait]]
      /\ \A k \in Lease : /\ <<"launch", k>> \in Caller /\ <<"handler", k>> \in Caller
                          /\ <<"cleaner", k>> \in Caller
      /\ \A k \in Camp : <<"fence", k>> \in Caller
  BY Callers DEF HostInv, TypeOK
<1> SUFFICES ASSUME wait'[c][p] = "planned"
             PROVE  wait[c][p] = "planned"
  OBVIOUS
<1> HIDE DEF c
<1>2. CASE wait' = wait
  BY <1>2
<1>3. ASSUME NEW d \in Caller, wait' = Forget(d) \/ \E P : wait' = Waits(d, P)
      PROVE  wait[c][p] = "planned"
  BY <1>1, <1>3, NothingPlanned
<1>4. ASSUME NEW q \in Process, NEW answers, wait' = Answer(q, answers),
             \A w \in DOMAIN answers : answers[w] \in Answers
      PROVE  wait[c][p] = "planned"
  BY <1>1, <1>4, NothingPlanned
<1>5. ASSUME NEW k \in Lease, LaunchStep(k)
      PROVE  wait[c][p] = "planned"
  <2>1. CASE AwaitRetirement(k)
    <3>1. PICK q \in Process : wait' = [wait EXCEPT ![<<"launch", k>>][q] = "awaited"]
      BY <2>1 DEF AwaitRetirement
    <3> QED
      BY <1>1, <3>1
  <2>2. ASSUME NEW q \in Process, AcquireReserve(k, q)
        PROVE  wait[c][p] = "planned"
    <3>1. wait' = [wait EXCEPT ![<<"launch", k>>] =
                      [r \in Process |-> IF r = q THEN "start" ELSE "none"]]
      BY <2>2 DEF AcquireReserve
    <3> QED
      BY <1>1, <3>1
  <2>3. CASE ReplaceHost(k)
    BY <1>1, <1>2, <1>3, <2>3 DEF ReplaceHost
  <2>4. CASE RetirementsAnswered(k) \/ StartAnswered(k) \/ HostReplaced(k)
    BY <1>1, <1>3, <2>4 DEF RetirementsAnswered, StartAnswered, HostReplaced
  <2> QED
    BY <1>2, <1>5, <2>1, <2>2, <2>3, <2>4
    DEF LaunchStep, BeginLaunch, AcquireBlocked, AcquireReuse, RegisterReuse, BindRoute, FailLaunch
<1>6. ASSUME NEW k \in Lease, HandlerStep(k)
      PROVE  wait[c][p] = "planned"
  BY <1>1, <1>2, <1>3, <1>6
  DEF HandlerStep, Release, FinishRelease, ReleaseAnswered, RetireRun, callers
<1>7. ASSUME NEW k \in Lease, CleanerStep(k)
      PROVE  wait[c][p] = "planned"
  BY <1>1, <1>2, <1>3, <1>7
  DEF CleanerStep, ReadLaunch, StopAgentRun, StopDelayed, StopAnswered, StopAfterLaunch, Acknowledge
<1>8. ASSUME NEW q \in Process, StartupStep(q)
      PROVE  wait[c][p] = "planned"
  <2>1. AnswerStart(q) => wait' = Answer(q, StartDone)
    BY DEF AnswerStart, StartDone
  <2>2. StartRefused(q) \/ SpawnFails(q) \/ (\E b \in BOOLEAN : RetireStart(q, b)) =>
            wait' = Answer(q, StartFailed)
    BY DEF StartRefused, SpawnFails, RetireStart, FailStart
  <2>3. CASE wait' = Answer(q, StartDone) \/ wait' = Answer(q, StartFailed)
    BY <1>4, <2>3, StartDoneHeard, StartFailedHeard
  <2> QED
    BY <1>2, <1>8, <2>1, <2>2, <2>3 DEF StartupStep, Spawn, SpawnReturns, CommitStart, callers
<1>9. ASSUME NEW q \in Process, StopStep(q) \/ ProcessStep(q)
      PROVE  wait[c][p] = "planned"
  <2>1. ASSUME NEW a \in {"yes", "kept"}, wait' = Answer(q, [retire |-> a])
        PROVE  wait[c][p] = "planned"
    <3>1. a \in Answers
      BY DEF Answers
    <3> QED
      BY <1>4, <2>1, <3>1, RetireHeard
  <2>2. CompleteStop(q) => wait' = Answer(q, StopDone(q))
    BY DEF CompleteStop, StopDone
  <2>3. CASE CompleteStop(q)
    BY <1>4, <2>2, <2>3, StopHeard
  <2> QED
    BY <1>2, <1>9, <2>1, <2>3
    DEF StopStep, StopReaped, StopExpired, ProcessStep, HostExit, BackgroundTasks, CleanupStale,
        callers
<1>10. ASSUME NEW k \in Camp, FenceStep(k)
       PROVE  wait[c][p] = "planned"
  BY <1>1, <1>2, <1>3, <1>10
  DEF FenceStep, MarkCampDeleting, ForceFence, FenceAnswered, FenceAttachments, callers
<1>11. CASE FleetStep
  BY <1>2, <1>11 DEF FleetStep, Invalidate, SweepIdle, ShutdownAll, ForceKill, callers
<1>12. CASE Crash
  BY <1>1, <1>12 DEF Crash
<1> QED
  BY <1>5, <1>6, <1>7, <1>8, <1>9, <1>10, <1>11, <1>12 DEF Next

\* A step keeps the plans apart.
LEMMA PlansStep ==
  ASSUME HostInv, Next
  PROVE  Plans'
<1>1. /\ wait \in [Caller -> [Process -> Wait]] /\ stop \in [Process -> StopTask] /\ Plans
      /\ \A l \in Lease : <<"launch", l>> \in Caller
      /\ \A l, m \in Lease : l # m => <<"launch", l>> # <<"launch", m>>
  BY Callers DEF HostInv, TypeOK
<1> SUFFICES ASSUME NEW l \in Lease, NEW p \in Process, wait'[<<"launch", l>>][p] = "planned"
             PROVE  /\ stop'[p] = "planned"
                    /\ \A m \in Lease : wait'[<<"launch", m>>][p] = "planned" => m = l
  BY DEF Plans
<1>2. CASE Crash
  BY <1>1, <1>2 DEF Crash
<1>3. ASSUME NEW k \in Lease, RetireIncompatible(k)
      PROVE  /\ stop'[p] = "planned"
             /\ \A m \in Lease : wait'[<<"launch", m>>][p] = "planned" => m = l
  <2> DEFINE planned == {q \in OldHosts(k) \ BusyOf(OldHosts(k)) : Launches(q)}
  <2>1. /\ stop'[p] = IF p \in planned THEN "planned" ELSE stop[p]
        /\ wait'[<<"launch", k>>][p] = "planned" => p \in planned
        /\ \A m \in Lease \ {k} : wait'[<<"launch", m>>] = wait[<<"launch", m>>]
    BY <1>1, <1>3 DEF RetireIncompatible, OldHosts, BusyOf, StopWait
  <2>2. CASE p \in planned
    <3>1. stop[p] # "planned"
      BY <2>2, PlannedShared
    <3>2. \A m \in Lease : wait[<<"launch", m>>][p] # "planned"
      BY <1>1, <3>1 DEF Plans
    <3> QED
      BY <2>1, <2>2, <3>2
  <2>3. CASE p \notin planned
    <3>1. \A m \in Lease : wait'[<<"launch", m>>][p] = "planned" =>
             wait[<<"launch", m>>][p] = "planned"
      BY <2>1, <2>3
    <3> QED
      BY <1>1, <2>1, <2>3, <3>1 DEF Plans
  <2> QED
    BY <2>2, <2>3
<1>4. ASSUME \A k \in Lease : ~RetireIncompatible(k)
      PROVE  \A m \in Lease : wait'[<<"launch", m>>][p] = "planned" =>
                wait[<<"launch", m>>][p] = "planned"
  BY <1>4, OnlyRetiring
<1>5. ASSUME NEW k \in Lease, AwaitRetirement(k), \A m \in Lease : ~RetireIncompatible(m)
      PROVE  /\ stop'[p] = "planned"
             /\ \A m \in Lease : wait'[<<"launch", m>>][p] = "planned" => m = l
  <2>1. PICK q \in Process :
          /\ wait' = [wait EXCEPT ![<<"launch", k>>][q] = "awaited"]
          /\ stop' = [stop EXCEPT ![q] = IF wait[<<"launch", k>>][q] = "planned" THEN "reaping"
                                         ELSE @]
    BY <1>5 DEF AwaitRetirement
  <2>2. wait'[<<"launch", k>>][q] = "awaited"
    BY <1>1, <2>1
  <2>3. wait[<<"launch", l>>][p] = "planned" /\ stop[p] = "planned"
        /\ \A m \in Lease : wait[<<"launch", m>>][p] = "planned" => m = l
    BY <1>1, <1>4, <1>5 DEF Plans
  <2>4. p = q => wait[<<"launch", k>>][q] # "planned"
    BY <2>2, <2>3
  <2>5. stop'[p] = stop[p]
    BY <1>1, <2>1, <2>4
  <2> QED
    BY <1>4, <1>5, <2>3, <2>5
<1>6. CASE ~Crash /\ \A k \in Lease : ~RetireIncompatible(k) /\ ~AwaitRetirement(k)
  <2>1. wait[<<"launch", l>>][p] = "planned" /\ stop[p] = "planned"
        /\ \A m \in Lease : wait[<<"launch", m>>][p] = "planned" => m = l
    BY <1>1, <1>4, <1>6 DEF Plans
  <2> QED
    BY <1>4, <1>6, <2>1, PlannedStays
<1> QED
  BY <1>2, <1>3, <1>5, <1>6

\* Every step keeps the invariant of the tables.
LEMMA HostStepKeeps ==
  ASSUME HostInv, Next
  PROVE  HostInv'
<1>1. Stage'
  BY Rows, StageStep
<1>2. LeaseBookkeeping'
  BY <1>1, LaunchTables, HandlerTables, CleanerTables, ProcessTables, FleetTables DEF Next
<1> QED
  BY <1>1, <1>2, TypeStep, RecordedStep, PlansStep DEF HostInv

\* A stuttering step keeps everything.
LEMMA HostStutter ==
  ASSUME HostInv, UNCHANGED vars
  PROVE  HostInv'
BY DEF HostInv, TypeOK, Stage, Recorded, LeaseBookkeeping, Plans, Present, vars, fleet, tasks,
       outside, disk, callers

\* The invariant holds at the start.
LEMMA HostInit ==
  ASSUME Init
  PROVE  HostInv
<1>1. ASSUME NEW p \in Process
      PROVE  entry[p] = Absent /\ Absent.state = "absent" /\ Absent.lease = None
             /\ Absent.scope = None
  BY DEF Init, Absent
<1>2. TypeOK
  <2>1. Absent \in ProcessEntry
    BY DEF Absent, ProcessEntry
  <2>2. NoRecord \in OwnerRecord
    BY DEF NoRecord, OwnerRecord
  <2>3. 0 \in 0..MaxRestart
    BY FleetAssumption DEF FleetAssumption
  <2> QED
    BY <2>1, <2>2, <2>3
    DEF Init, TypeOK, Startup, StopTask, Launch, Handler, Cleaner, Wait
<1>3. Stage
  BY <1>1 DEF Init, Stage, Unsettled, Unborn
<1>4. Recorded
  BY DEF Init, Recorded, NoRecord
<1>5. LeaseBookkeeping
  <2>1. None \notin Process
    BY FleetAssumption DEF FleetAssumption
  <2> QED
    BY <1>1, <2>1 DEF Init, LeaseBookkeeping, Present
<1>6. Plans
  BY Callers DEF Init, Plans
<1> QED
  BY <1>2, <1>3, <1>4, <1>5, <1>6 DEF HostInv

\* The tables of the fleet have their types and agree: what process_by_run, the entries and
\* idle_lru say of a lease and of a warm Host is the same, whatever stops, failed starts and
\* crashes come between.
THEOREM TypeCorrect == Spec => [](TypeOK /\ LeaseBookkeeping)
<1>1. Init => HostInv
  BY HostInit
<1>2. HostInv /\ [Next]_vars => HostInv'
  BY HostStepKeeps, HostStutter
<1>3. HostInv => TypeOK /\ LeaseBookkeeping
  BY DEF HostInv
<1> QED
  BY <1>1, <1>2, <1>3, PTL DEF Spec

-----------------------------------------------------------------------------
(* The end of the fleet, and fenced Threads.                               *)

\* What a row says of the states, whatever the action was.
LEMMA RowChanges ==
  ASSUME HostInv, NEW p \in Process, HostStep(p)
  PROVE  /\ ~Reserved(p) => Identity(p)
         /\ (p \in Present)' => p \in Present \/ Reserved(p)
         /\ entry'[p].state = "Starting" /\ ~Reserved(p) =>
              /\ entry[p].state = "Starting" /\ entry'[p].lease = entry[p].lease
              /\ entry[p].cancelled => entry'[p].cancelled
         /\ entry'[p].state = "Busy" /\ entry[p].state # "Busy" => Taken(p) \/ Committed(p)
         /\ entry'[p].state = "IdleWarm" => entry[p].state = "IdleWarm" \/ Warmed(p)
<1> USE DEF HostStep, Present
<1>1. CASE Rests(p) \/ Spawned(p) \/ StartMoves(p) \/ StopMoves(p)
  BY <1>1 DEF Rests, Spawned, StartMoves, StopMoves, Identity
<1>2. CASE Reserved(p)
  BY <1>2 DEF Reserved, Reserves
<1>3. CASE Taken(p)
  BY <1>3 DEF Taken, Takes, Marks
<1>4. CASE Warmed(p) \/ Marked(p) \/ Cancelled(p)
  BY <1>4 DEF Warmed, Marked, Cancelled, Marks
<1>5. CASE Stopped(p)
  BY <1>5 DEF Stopped, Marks
<1>6. CASE Committed(p)
  BY <1>6 DEF Committed, Marks
<1>7. CASE Failed(p) \/ Reaps(p)
  BY <1>7 DEF Failed, Reaps, Marks
<1>8. CASE Unreaped(p)
  <2>1. entry[p].state = "Starting"
    BY <1>8 DEF Unreaped, HostInv, Stage, Unsettled
  <2> QED
    BY <1>8, <2>1 DEF Unreaped, Marks
<1>9. CASE Lost(p)
  BY <1>9, EntryFields DEF Lost, Marks, HostInv
<1> QED
  BY <1>1, <1>2, <1>3, <1>4, <1>5, <1>6, <1>7, <1>8, <1>9

\* Once the fleet shuts down every reservation is cancelled.
ShutdownCancels ==
    shutdown => \A p \in Process : entry[p].state = "Starting" => entry[p].cancelled

\* Only the shutdown sets its flag.
LEMMA ShutdownChanges ==
  ASSUME Next
  PROVE  shutdown' => shutdown \/ ShutdownAll
<1>1. ASSUME NEW l \in Lease, LaunchStep(l) \/ HandlerStep(l) \/ CleanerStep(l)
      PROVE  shutdown' = shutdown
  <2>1. LaunchStep(l) => shutdown' = shutdown
    BY DEF LaunchStep, BeginLaunch, RetireIncompatible, AwaitRetirement, RetirementsAnswered,
           AcquireBlocked, AcquireReuse, RegisterReuse, AcquireReserve, StartAnswered, BindRoute,
           FailLaunch, ReplaceHost, HostReplaced, fleet
  <2>2. HandlerStep(l) => shutdown' = shutdown
    BY DEF HandlerStep, Release, FinishRelease, ReleaseAnswered, RetireRun, fleet
  <2>3. CleanerStep(l) => shutdown' = shutdown
    BY DEF CleanerStep, ReadLaunch, StopAgentRun, StopDelayed, StopAnswered, StopAfterLaunch,
           Acknowledge, fleet
  <2> QED
    BY <1>1, <2>1, <2>2, <2>3
<1>2. ASSUME NEW p \in Process, StartupStep(p) \/ StopStep(p) \/ ProcessStep(p)
      PROVE  shutdown' = shutdown
  <2>1. StartupStep(p) => shutdown' = shutdown
    BY DEF StartupStep, StartRefused, FailStart, Spawn, SpawnFails, SpawnReturns, CommitStart,
           AnswerStart, RetireStart, fleet
  <2>2. StopStep(p) \/ ProcessStep(p) => shutdown' = shutdown
    BY DEF StopStep, StopReaped, StopExpired, CompleteStop, ProcessStep, HostExit, BackgroundTasks,
           CleanupStale, fleet
  <2> QED
    BY <1>2, <2>1, <2>2
<1>3. ASSUME NEW c \in Camp, FenceStep(c)
      PROVE  shutdown' = shutdown
  BY <1>3 DEF FenceStep, MarkCampDeleting, ForceFence, FenceAnswered, FenceAttachments, fleet
<1>4. FleetStep => shutdown' = shutdown \/ ShutdownAll
  BY DEF FleetStep, Invalidate, SweepIdle, ForceKill, fleet
<1>5. Crash => shutdown' = FALSE
  BY DEF Crash
<1> QED
  BY <1>1, <1>2, <1>3, <1>4, <1>5 DEF Next

\* A step keeps the reservations cancelled.
LEMMA ShutdownCancelsStep ==
  ASSUME HostInv, ShutdownCancels, Next
  PROVE  ShutdownCancels'
<1> SUFFICES ASSUME shutdown', NEW p \in Process, entry'[p].state = "Starting"
             PROVE  entry'[p].cancelled
  BY DEF ShutdownCancels
<1>1. CASE ShutdownAll
  <2>1. /\ Halts(Present) /\ HostStep(p)
    BY <1>1, ShutdownRows DEF RowsKeep
  <2>2. p \in Present
    <3>1. entry[p].state # "absent"
      BY <1>1, <2>1 DEF Halts, PlanStop, Present, HostInv, TypeOK, Absent, Stage
    <3>2. entry[p].state # "removed"
      BY <2>1 DEF Halts, PlanStop, Present
    <3> QED
      BY <3>1, <3>2 DEF Present
  <2>3. /\ entry[p].state = "Starting" => Cancelled(p)
        /\ entry[p].state # "Starting" => Stopped(p)
    BY <2>1, <2>2, PlanStopRows DEF Halts
  <2> QED
    BY <2>3 DEF Cancelled, Stopped, Marks
<1>2. CASE shutdown
  <2>1. HostStep(p)
    BY Rows DEF RowsKeep
  <2>2. ~Reserved(p)
    BY <1>2 DEF Reserved, Reserves, Blocked
  <2> QED
    BY <1>2, <2>1, <2>2, RowChanges DEF ShutdownCancels
<1> QED
  BY <1>1, <1>2, ShutdownChanges

\* A Host that starts to work does so while neither the fleet nor its Thread ends.
LEMMA LateWork ==
  ASSUME HostInv, ShutdownCancels, NEW p \in Process, HostStep(p),
         entry'[p].state = "Busy", entry[p].state # "Busy"
  PROVE  /\ ~shutdown /\ CampOf[entry'[p].scope] \notin deleting
         /\ entry[p].state # "Stopping"
<1>1. CASE Taken(p)
  BY <1>1 DEF Taken, Takes, Blocked, Marks, Identity, CompatibleIdle
<1>2. CASE Committed(p)
  BY <1>2 DEF Committed, Marks, Identity, ShutdownCancels
<1> QED
  BY <1>1, <1>2, RowChanges

\* No Host starts to work for an execution once the fleet shuts down or its Thread is being
\* deleted, and a Host that is being stopped is never handed out again (plan_acquire,
\* the commit of drive_startup).
THEOREM NoLateWorkHolds == Spec => NoLateWork
<1> DEFINE Inv == HostInv /\ ShutdownCancels
<1> DEFINE Late == \A p \in Process :
                     entry'[p].state = "Busy" /\ entry[p].state # "Busy" =>
                         /\ ~shutdown /\ CampOf[entry'[p].scope] \notin deleting
                         /\ entry[p].state # "Stopping"
<1>1. Init => Inv
  <2>1. Init => ShutdownCancels
    BY DEF Init, ShutdownCancels
  <2> QED
    BY <2>1, HostInit
<1>2. Inv /\ [Next]_vars => Inv'
  <2>1. UNCHANGED vars /\ ShutdownCancels => ShutdownCancels'
    BY DEF ShutdownCancels, vars, fleet
  <2> QED
    BY <2>1, HostStepKeeps, HostStutter, ShutdownCancelsStep
<1>3. Inv /\ [Next]_vars => [Late]_vars
  BY Rows, LateWork DEF RowsKeep
<1>4. NoLateWork <=> [][Late]_vars
  BY PTL DEF NoLateWork
<1> QED
  BY <1>1, <1>2, <1>3, <1>4, PTL DEF Spec

-----------------------------------------------------------------------------
(* Fences. *)

\* A fence that was begun finds its Thread marked, and a fenced Thread has no Host.
FenceKept ==
    \A c \in Camp : /\ fence[c] # "idle" => c \in deleting
                    /\ fence[c] = "fenced" => InCamp(c) = {}

\* While the core runs, a process whose entry was removed is gone.
Reaped == restarts = 0 => \A p \in Process : entry[p].state = "removed" => os[p] # "alive"

\* A step removes no entry of a living process, unless the core crashes.
LEMMA ReapedStep ==
  ASSUME HostInv, Reaped, Next
  PROVE  Reaped'
<1>1. restarts \in Nat /\ restarts' \in Nat /\ restarts' \in {restarts, restarts + 1}
  <2>1. restarts \in Nat /\ restarts' \in Nat
    BY TypeStep, FleetAssumption DEF HostInv, TypeOK, FleetAssumption
  <2>2. ASSUME NEW l \in Lease, LaunchStep(l) \/ HandlerStep(l) \/ CleanerStep(l)
        PROVE  restarts' = restarts
    <3>1. LaunchStep(l) => restarts' = restarts
      BY DEF LaunchStep, BeginLaunch, RetireIncompatible, AwaitRetirement, RetirementsAnswered,
             AcquireBlocked, AcquireReuse, RegisterReuse, AcquireReserve, StartAnswered, BindRoute,
             FailLaunch, ReplaceHost, HostReplaced
    <3>2. HandlerStep(l) => restarts' = restarts
      BY DEF HandlerStep, Release, FinishRelease, ReleaseAnswered, RetireRun
    <3>3. CleanerStep(l) => restarts' = restarts
      BY DEF CleanerStep, ReadLaunch, StopAgentRun, StopDelayed, StopAnswered, StopAfterLaunch,
             Acknowledge
    <3> QED
      BY <2>2, <3>1, <3>2, <3>3
  <2>3. ASSUME NEW p \in Process, StartupStep(p) \/ StopStep(p) \/ ProcessStep(p)
        PROVE  restarts' = restarts
    <3>1. StartupStep(p) => restarts' = restarts
      BY DEF StartupStep, StartRefused, FailStart, Spawn, SpawnFails, SpawnReturns, CommitStart,
             AnswerStart, RetireStart
    <3>2. StopStep(p) \/ ProcessStep(p) => restarts' = restarts
      BY DEF StopStep, StopReaped, StopExpired, CompleteStop, ProcessStep, HostExit,
             BackgroundTasks, CleanupStale
    <3> QED
      BY <2>3, <3>1, <3>2
  <2>4. ASSUME NEW c \in Camp, FenceStep(c)
        PROVE  restarts' = restarts
    BY <2>4 DEF FenceStep, MarkCampDeleting, ForceFence, FenceAnswered, FenceAttachments
  <2>5. FleetStep => restarts' = restarts
    BY DEF FleetStep, Invalidate, SweepIdle, ShutdownAll, ForceKill
  <2>6. Crash => restarts' = restarts + 1
    BY DEF Crash
  <2> QED
    BY <2>1, <2>2, <2>3, <2>4, <2>5, <2>6 DEF Next
<1> SUFFICES ASSUME restarts' = 0, NEW p \in Process, entry'[p].state = "removed"
             PROVE  os'[p] # "alive"
  BY DEF Reaped
<1>2. restarts = 0 /\ HostStep(p)
  BY <1>1, Rows DEF RowsKeep
<1>3. CASE Rests(p) \/ StartMoves(p) \/ StopMoves(p)
  BY <1>2, <1>3 DEF Rests, StartMoves, StopMoves, Reaped
<1>4. CASE Failed(p) \/ Reaps(p)
  BY <1>4 DEF Failed, Reaps
<1>5. CASE Spawned(p)
  BY <1>5 DEF Spawned, HostInv, Stage, Unsettled, Unborn
<1>6. CASE Reserved(p) \/ Taken(p) \/ Warmed(p) \/ Marked(p) \/ Cancelled(p) \/ Stopped(p)
           \/ Committed(p) \/ Unreaped(p) \/ Lost(p)
  BY <1>6 DEF Reserved, Reserves, Taken, Takes, Warmed, Marked, Cancelled, Stopped, Committed,
              Unreaped, Lost, Marks
<1> QED
  BY <1>2, <1>3, <1>4, <1>5, <1>6 DEF HostStep

\* What a step does to the fences.
LEMMA FenceChanges ==
  ASSUME Next, TypeOK
  PROVE  /\ deleting \subseteq deleting'
         /\ \A c \in Camp : \/ fence'[c] = fence[c] \/ fence'[c] = "idle"
                            \/ c \in deleting /\ fence'[c] = "waiting"
                            \/ fence[c] = "waiting" /\ InCamp(c) = {} /\ entry' = entry
<1>1. ASSUME NEW l \in Lease, LaunchStep(l) \/ HandlerStep(l) \/ CleanerStep(l)
      PROVE  deleting' = deleting /\ fence' = fence
  <2>1. LaunchStep(l) => deleting' = deleting /\ fence' = fence
    BY DEF LaunchStep, BeginLaunch, RetireIncompatible, AwaitRetirement, RetirementsAnswered,
           AcquireBlocked, AcquireReuse, RegisterReuse, AcquireReserve, StartAnswered, BindRoute,
           FailLaunch, ReplaceHost, HostReplaced, fleet
  <2>2. HandlerStep(l) => deleting' = deleting /\ fence' = fence
    BY DEF HandlerStep, Release, FinishRelease, ReleaseAnswered, RetireRun, fleet, callers
  <2>3. CleanerStep(l) => deleting' = deleting /\ fence' = fence
    BY DEF CleanerStep, ReadLaunch, StopAgentRun, StopDelayed, StopAnswered, StopAfterLaunch,
           Acknowledge, fleet
  <2> QED
    BY <1>1, <2>1, <2>2, <2>3
<1>2. ASSUME NEW p \in Process, StartupStep(p) \/ StopStep(p) \/ ProcessStep(p)
      PROVE  deleting' = deleting /\ fence' = fence
  <2>1. StartupStep(p) => deleting' = deleting /\ fence' = fence
    BY DEF StartupStep, StartRefused, FailStart, Spawn, SpawnFails, SpawnReturns, CommitStart,
           AnswerStart, RetireStart, fleet, callers
  <2>2. StopStep(p) \/ ProcessStep(p) => deleting' = deleting /\ fence' = fence
    BY DEF StopStep, StopReaped, StopExpired, CompleteStop, ProcessStep, HostExit, BackgroundTasks,
           CleanupStale, fleet, callers
  <2> QED
    BY <1>2, <2>1, <2>2
<1>3. ASSUME NEW c \in Camp, FenceStep(c)
      PROVE  /\ deleting \subseteq deleting'
             /\ \A d \in Camp : \/ fence'[d] = fence[d] \/ fence'[d] = "idle"
                                \/ d \in deleting /\ fence'[d] = "waiting"
                                \/ fence[d] = "waiting" /\ InCamp(d) = {} /\ entry' = entry
  <2>1. CASE MarkCampDeleting(c) \/ FenceAttachments(c)
    BY <2>1 DEF MarkCampDeleting, FenceAttachments, callers
  <2>2. CASE ForceFence(c)
    BY <2>2 DEF ForceFence, TypeOK
  <2>3. CASE FenceAnswered(c)
    BY <2>3 DEF FenceAnswered, FenceHolds, TypeOK, fleet
  <2> QED
    BY <1>3, <2>1, <2>2, <2>3 DEF FenceStep
<1>4. FleetStep => deleting' = deleting /\ fence' = fence
  BY DEF FleetStep, Invalidate, SweepIdle, ShutdownAll, ForceKill, fleet, callers
<1>5. Crash => deleting' = deleting /\ \A c \in Camp : fence'[c] = "idle"
  BY DEF Crash
<1> QED
  BY <1>1, <1>2, <1>3, <1>4, <1>5 DEF Next

\* A step keeps the fences.
LEMMA FenceKeptStep ==
  ASSUME HostInv, FenceKept, Next
  PROVE  FenceKept'
<1> SUFFICES ASSUME NEW c \in Camp
             PROVE  /\ fence'[c] # "idle" => c \in deleting'
                    /\ fence'[c] = "fenced" => InCamp(c)' = {}
  BY DEF FenceKept
<1>1. /\ deleting \subseteq deleting'
      /\ \/ fence'[c] = fence[c] \/ fence'[c] = "idle"
         \/ c \in deleting /\ fence'[c] = "waiting"
         \/ fence[c] = "waiting" /\ InCamp(c) = {} /\ entry' = entry
  BY FenceChanges DEF HostInv
<1>2. CASE fence'[c] = fence[c]
  <2>1. ASSUME fence[c] = "fenced", NEW p \in InCamp(c)'
        PROVE  FALSE
    <3>1. p \in Process /\ (p \in Present)' /\ CampOf[entry'[p].scope] = c
      BY <2>1 DEF InCamp, Present
    <3>2. HostStep(p) /\ c \in deleting /\ InCamp(c) = {}
      BY <2>1, <3>1, Rows DEF RowsKeep, FenceKept
    <3>3. ~Reserved(p)
      BY <3>1, <3>2 DEF Reserved, Reserves, Blocked
    <3> QED
      BY <3>1, <3>2, <3>3, RowChanges DEF InCamp, Identity
  <2> QED
    BY <1>1, <1>2, <2>1 DEF FenceKept
<1>3. CASE fence[c] = "waiting" /\ InCamp(c) = {} /\ entry' = entry
  BY <1>1, <1>3 DEF FenceKept, InCamp, Present
<1> QED
  BY <1>1, <1>2, <1>3 DEF FenceKept

\* A fenced Thread is quiet.
LEMMA FencedQuietHolds ==
  ASSUME HostInv, FenceKept, Reaped
  PROVE  FencedQuiet
<1> SUFFICES ASSUME restarts = 0, NEW c \in Camp, NEW p \in Process, fence[c] = "fenced",
                    entry[p].scope # None, CampOf[entry[p].scope] = c
             PROVE  os[p] # "alive"
  BY DEF FencedQuiet
<1>1. p \notin Present
  BY DEF FenceKept, InCamp
<1>2. entry[p].state # "absent"
  BY DEF HostInv, Stage, Absent
<1> QED
  BY <1>1, <1>2 DEF Present, Reaped

-----------------------------------------------------------------------------
(* What a step does to one execution: its launch, its cleanup, its         *)
(* terminal, its lease and its evidence.                                   *)

Started == {"registering", "acquired", "waiting"}     \* a Host was asked for

LaunchMoves(l) ==
    \/ launch'[l] = launch[l]
    \/ /\ launch[l] = "idle" /\ Earlier[l] \subseteq acked
       /\ launch'[l] \in {"ensuring", "acquiring"}
    \/ launch[l] = "ensuring" /\ launch'[l] = "retiring"
    \/ launch[l] = "retiring" /\ launch'[l] \in {"failed", "acquiring"}
    \/ launch[l] = "acquiring" /\ launch'[l] \in {"failed"} \cup Started
    \/ launch[l] = "registering" /\ launch'[l] \in {"acquired", "failed"}
    \/ /\ launch[l] = "waiting" /\ launch'[l] \in {"failed", "acquired"}
       /\ Answered(<<"launch", l>>)
    \/ launch[l] = "acquired" /\ launch'[l] \in {"bound", "failed"}
    \/ launch[l] = "acquired" /\ ~Codex /\ launch'[l] \in {"ensuring", "acquiring", "replacing"}
    \/ launch[l] = "replacing" /\ launch'[l] \in {"ensuring", "acquiring"}
    \/ /\ launch[l] # "idle" /\ launch'[l] = "lost" /\ byRun'[l] = None /\ handler'[l] = "idle"
       /\ cleaner'[l] = "idle" /\ receipts' = {}

LeaseMoves(l) ==
    \/ byRun'[l] \in {byRun[l], None}
    \/ launch[l] = "acquiring" /\ launch'[l] \in Started

\* An attempt of the cleanup worker ends with a proof.
Proves(l) ==
    /\ ~before[l] /\ UNCHANGED <<entry, os, byRun, record, launch>>
    /\ \/ cleaner[l] = "read" /\ byRun[l] = None /\ NoLeaseIsStopped(l)
       \/ cleaner[l] = "stopping" /\ (l \in receipts \/ byRun[l] = None)

CleanerMoves(l) ==
    \/ cleaner'[l] = cleaner[l] /\ before'[l] = before[l]
    \/ cleaner'[l] = "idle"
    \/ /\ cleaner'[l] = "read" /\ launch'[l] = launch[l]
       /\ launch[l] # "idle" \/ cleaner[l] # "idle"
       /\ before'[l] \/ ~InProgress(l)
    \/ /\ cleaner[l] \in {"read", "stopping"} /\ cleaner'[l] = "relaunch"
       /\ launch'[l] = launch[l] /\ before'[l] = before[l]
    \/ /\ cleaner[l] = "read" /\ cleaner'[l] = "stopping" /\ byRun[l] # None
       /\ launch'[l] = launch[l] /\ before'[l] = before[l]
    \/ cleaner'[l] = "proven" /\ before'[l] = before[l] /\ Proves(l)

HandlerMoves(l) ==
    \/ handler'[l] = handler[l]
    \/ handler'[l] = "idle"
    \/ /\ launch[l] = "bound" \/ handler[l] # "idle"
       /\ launch'[l] = launch[l]
       /\ handler'[l] \in {"reusable", "reaped"} => byRun'[l] = None \/ l \in receipts

Acks(l) ==
    /\ UNCHANGED <<entry, os, byRun, launch>>
    /\ \/ cleaner[l] = "proven"
       \/ handler[l] \in {"reusable", "reaped"}
       \/ ~Codex /\ handler[l] = "other"
AckMoves(l) == (l \in acked => l \in acked') /\ (l \in acked' => l \in acked \/ Acks(l))

ReceiptMoves(l) ==
    l \in receipts' =>
        \/ l \in receipts
        \/ Codex /\ byRun[l] # None /\ byRun'[l] = None /\ launch'[l] = launch[l]

LeaseStep(l) ==
    /\ LaunchMoves(l) /\ LeaseMoves(l) /\ CleanerMoves(l) /\ HandlerMoves(l) /\ AckMoves(l)
    /\ ReceiptMoves(l)

\* An action that concerns other parts of the fleet.
LEMMA LeaseRests ==
  ASSUME UNCHANGED <<launch, handler, cleaner, before, acked, byRun, receipts>>
  PROVE  \A l \in Lease : LeaseStep(l)
BY DEF LeaseStep, LaunchMoves, LeaseMoves, CleanerMoves, HandlerMoves, AckMoves, ReceiptMoves

\* An action of the launch task that only moves it on.
LEMMA LaunchMoved ==
  ASSUME TypeOK, NEW k \in Lease, NEW v, launch' = [launch EXCEPT ![k] = v],
         LaunchMoves(k), LeaseMoves(k), \A l \in Lease \ {k} : byRun'[l] = byRun[l],
         UNCHANGED <<handler, cleaner, before, acked, receipts>>
  PROVE  \A l \in Lease : LeaseStep(l)
<1> SUFFICES ASSUME NEW l \in Lease
             PROVE  LeaseStep(l)
  OBVIOUS
<1>1. l # k => launch'[l] = launch[l]
  BY DEF TypeOK
<1> QED
  BY <1>1 DEF LeaseStep, LaunchMoves, LeaseMoves, CleanerMoves, HandlerMoves, AckMoves, ReceiptMoves

\* The launch task.
LEMMA LaunchLeases ==
  ASSUME HostInv, NEW k \in Lease, LaunchStep(k)
  PROVE  (\A l \in Lease : LeaseStep(l)) /\ kind' = kind
<1>1. TypeOK /\ launch \in [Lease -> Launch] /\ Ensure \in {"ensuring", "acquiring"}
  BY DEF HostInv, TypeOK, Ensure
<1>2. CASE BeginLaunch(k)
  <2>1. /\ launch' = [launch EXCEPT ![k] = Ensure] /\ byRun' = byRun /\ kind' = kind
        /\ UNCHANGED <<handler, cleaner, before, acked, receipts>>
    BY <1>2 DEF BeginLaunch, fleet
  <2>2. LaunchMoves(k)
    BY <1>1, <1>2, <2>1 DEF BeginLaunch, LaunchMoves
  <2> QED
    BY <1>1, <2>1, <2>2, LaunchMoved DEF LeaseMoves
<1>3. CASE RetireIncompatible(k)
  <2>1. /\ launch' = [launch EXCEPT ![k] = "retiring"] /\ byRun' = byRun /\ kind' = kind
        /\ UNCHANGED <<handler, cleaner, before, acked, receipts>>
    BY <1>3 DEF RetireIncompatible
  <2>2. LaunchMoves(k)
    BY <1>1, <1>3, <2>1 DEF RetireIncompatible, LaunchMoves
  <2> QED
    BY <1>1, <2>1, <2>2, LaunchMoved DEF LeaseMoves
<1>4. CASE RetirementsAnswered(k) \/ StartAnswered(k) \/ HostReplaced(k)
  <2>1. PICK v \in {"failed", "acquiring", "ensuring", "acquired"} :
             launch' = [launch EXCEPT ![k] = v]
    BY <1>1, <1>4 DEF RetirementsAnswered, StartAnswered, HostReplaced
  <2>2. byRun' = byRun /\ kind' = kind /\ UNCHANGED <<handler, cleaner, before, acked, receipts>>
    BY <1>4 DEF RetirementsAnswered, StartAnswered, HostReplaced, fleet
  <2>3. LaunchMoves(k)
    BY <1>1, <1>4 DEF RetirementsAnswered, StartAnswered, HostReplaced, LaunchMoves
  <2> QED
    BY <1>1, <2>1, <2>2, <2>3, LaunchMoved DEF LeaseMoves
<1>5. CASE AcquireBlocked(k) \/ BindRoute(k) \/ FailLaunch(k)
  <2>1. PICK v \in {"failed", "bound"} : launch' = [launch EXCEPT ![k] = v]
    BY <1>5 DEF AcquireBlocked, BindRoute, FailLaunch
  <2>2. byRun' = byRun /\ kind' = kind /\ UNCHANGED <<handler, cleaner, before, acked, receipts>>
    BY <1>5 DEF AcquireBlocked, BindRoute, FailLaunch, fleet
  <2>3. LaunchMoves(k)
    BY <1>1, <1>5 DEF AcquireBlocked, BindRoute, FailLaunch, LaunchMoves
  <2> QED
    BY <1>1, <2>1, <2>2, <2>3, LaunchMoved DEF LeaseMoves
<1>6. CASE RegisterReuse(k)
  <2>1. PICK v \in {"failed", "acquired"} : launch' = [launch EXCEPT ![k] = v]
    BY <1>6 DEF RegisterReuse
  <2>2. byRun' = byRun /\ kind' = kind /\ UNCHANGED <<handler, cleaner, before, acked, receipts>>
    BY <1>6 DEF RegisterReuse, fleet
  <2>3. LaunchMoves(k)
    BY <1>1, <1>6 DEF RegisterReuse, LaunchMoves
  <2> QED
    BY <1>1, <2>1, <2>2, <2>3, LaunchMoved DEF LeaseMoves
<1>7. CASE AcquireReuse(k)
  <2>1. PICK v \in Started : launch' = [launch EXCEPT ![k] = v]
    BY <1>7 DEF AcquireReuse, Started
  <2>2. kind' = kind /\ UNCHANGED <<handler, cleaner, before, acked, receipts>>
    BY <1>7 DEF AcquireReuse
  <2>3. LaunchMoves(k) /\ LeaseMoves(k)
    BY <1>1, <1>7, <2>1 DEF AcquireReuse, LaunchMoves, LeaseMoves
  <2>4. \A l \in Lease \ {k} : byRun'[l] = byRun[l]
    BY <1>1, <1>7, AcquireReuseRows DEF TypeOK
  <2> QED
    BY <1>1, <2>1, <2>2, <2>3, <2>4, LaunchMoved
<1>8. ASSUME NEW p \in Process, AcquireReserve(k, p)
      PROVE  (\A l \in Lease : LeaseStep(l)) /\ kind' = kind
  <2>1. launch' = [launch EXCEPT ![k] = "waiting"] /\ launch[k] = "acquiring"
    BY <1>8 DEF AcquireReserve
  <2>2. kind' = kind /\ UNCHANGED <<handler, cleaner, before, acked, receipts>>
    BY <1>8 DEF AcquireReserve
  <2>3. LaunchMoves(k) /\ LeaseMoves(k)
    BY <1>1, <2>1 DEF LaunchMoves, LeaseMoves, Started
  <2>4. \A l \in Lease \ {k} : byRun'[l] = byRun[l]
    BY <1>1, <1>8, AcquireReserveRows DEF TypeOK
  <2> QED
    BY <1>1, <2>1, <2>2, <2>3, <2>4, LaunchMoved
<1>9. CASE ReplaceHost(k)
  <2>1. PICK v \in {"ensuring", "acquiring", "replacing"} : launch' = [launch EXCEPT ![k] = v]
    BY <1>1, <1>9 DEF ReplaceHost
  <2>2. byRun' = byRun /\ kind' = kind /\ UNCHANGED <<handler, cleaner, before, acked, receipts>>
    BY <1>9 DEF ReplaceHost
  <2>3. LaunchMoves(k)
    BY <1>1, <1>9, <2>1 DEF ReplaceHost, LaunchMoves
  <2> QED
    BY <1>1, <2>1, <2>2, <2>3, LaunchMoved DEF LeaseMoves
<1>10. CASE AwaitRetirement(k)
  BY <1>10, LeaseRests DEF AwaitRetirement, fleet
<1> QED
  BY <1>2, <1>3, <1>4, <1>5, <1>6, <1>7, <1>8, <1>9, <1>10 DEF LaunchStep

\* The terminal handler.
LEMMA HandlerLeases ==
  ASSUME HostInv, NEW k \in Lease, HandlerStep(k)
  PROVE  (\A l \in Lease : LeaseStep(l)) /\ kind' = kind
<1>1. TypeOK /\ handler \in [Lease -> Handler] /\ byRun \in [Lease -> Process \cup {None}]
  BY DEF HostInv, TypeOK
<1>2. ASSUME NEW v, handler' = [handler EXCEPT ![k] = v], HandlerMoves(k), LeaseMoves(k),
             \A l \in Lease \ {k} : byRun'[l] = byRun[l],
             UNCHANGED <<launch, cleaner, before, acked, receipts>>
      PROVE  \A l \in Lease : LeaseStep(l)
  <2> SUFFICES ASSUME NEW l \in Lease
               PROVE  LeaseStep(l)
    OBVIOUS
  <2>1. l # k => handler'[l] = handler[l]
    BY <1>1, <1>2
  <2> QED
    BY <1>2, <2>1
    DEF LeaseStep, LaunchMoves, LeaseMoves, CleanerMoves, HandlerMoves, AckMoves, ReceiptMoves
<1>3. ASSUME NEW d, Release(k, d)
      PROVE  (\A l \in Lease : LeaseStep(l)) /\ kind' = kind
  <2>1. PICK v \in Handler : handler' = [handler EXCEPT ![k] = v]
    BY <1>3 DEF Release, NoLease, Handler
  <2>2. byRun' = byRun /\ kind' = kind /\ UNCHANGED <<launch, cleaner, before, acked, receipts>>
    BY <1>3 DEF Release
  <2>3. HandlerMoves(k)
    BY <1>1, <1>3, <2>2 DEF Release, NoLease, HandlerMoves
  <2> QED
    BY <1>2, <2>1, <2>2, <2>3 DEF LeaseMoves
<1>4. ASSUME NEW q, FinishRelease(k, q)
      PROVE  (\A l \in Lease : LeaseStep(l)) /\ kind' = kind
  <2>1. PICK v \in Handler : handler' = [handler EXCEPT ![k] = v]
    BY <1>4 DEF FinishRelease, NoLease, Handler
  <2>2. kind' = kind /\ UNCHANGED <<launch, cleaner, before, acked, receipts>>
    BY <1>4 DEF FinishRelease
  <2>3. byRun' = byRun \/ byRun' = [byRun EXCEPT ![k] = None]
    BY <1>4 DEF FinishRelease
  <2>4. HandlerMoves(k)
    BY <1>1, <1>4, <2>2 DEF FinishRelease, NoLease, HandlerMoves
  <2>5. LeaseMoves(k) /\ \A l \in Lease \ {k} : byRun'[l] = byRun[l]
    BY <1>1, <2>3 DEF LeaseMoves
  <2> QED
    BY <1>2, <2>1, <2>2, <2>4, <2>5
<1>5. CASE ReleaseAnswered(k)
  <2>1. PICK v \in Handler : handler' = [handler EXCEPT ![k] = v]
    BY <1>5 DEF ReleaseAnswered, StopOutcome, Handler
  <2>2. byRun' = byRun /\ kind' = kind /\ UNCHANGED <<launch, cleaner, before, acked, receipts>>
    BY <1>5 DEF ReleaseAnswered, fleet
  <2>3. HandlerMoves(k)
    BY <1>1, <1>5, <2>2 DEF ReleaseAnswered, StopOutcome, HandlerMoves
  <2> QED
    BY <1>2, <2>1, <2>2, <2>3 DEF LeaseMoves
<1>6. CASE RetireRun(k)
  BY <1>6, LeaseRests DEF RetireRun, callers
<1> QED
  BY <1>3, <1>4, <1>5, <1>6 DEF HandlerStep

\* The cleanup worker.
LEMMA CleanerLeases ==
  ASSUME HostInv, NEW k \in Lease, CleanerStep(k)
  PROVE  (\A l \in Lease : LeaseStep(l)) /\ kind' = kind
<1>1. /\ TypeOK /\ cleaner \in [Lease -> Cleaner] /\ before \in [Lease -> BOOLEAN]
      /\ byRun \in [Lease -> Process \cup {None}]
  BY DEF HostInv, TypeOK
<1>2. ASSUME \A l \in Lease \ {k} : cleaner'[l] = cleaner[l] /\ before'[l] = before[l],
             CleanerMoves(k), UNCHANGED <<launch, handler, byRun, acked, receipts>>
      PROVE  \A l \in Lease : LeaseStep(l)
  BY <1>2 DEF LeaseStep, LaunchMoves, LeaseMoves, CleanerMoves, HandlerMoves, AckMoves, ReceiptMoves
<1>3. CASE ReadLaunch(k) \/ StopDelayed(k) \/ StopAfterLaunch(k)
  <2>1. kind' = kind /\ UNCHANGED <<launch, handler, byRun, acked, receipts>>
    BY <1>3 DEF ReadLaunch, StopDelayed, StopAfterLaunch, fleet
  <2>2. \A l \in Lease \ {k} : cleaner'[l] = cleaner[l] /\ before'[l] = before[l]
    BY <1>1, <1>3 DEF ReadLaunch, StopDelayed, StopAfterLaunch
  <2>3. CleanerMoves(k)
    <3>1. CASE ReadLaunch(k)
      <4>1. cleaner'[k] = "read" /\ before'[k] = InProgress(k) /\ launch[k] # "idle"
        BY <1>1, <3>1 DEF ReadLaunch
      <4> QED
        BY <2>1, <4>1 DEF CleanerMoves
    <3>2. CASE StopDelayed(k)
      BY <1>1, <3>2 DEF StopDelayed, CleanerMoves
    <3>3. CASE StopAfterLaunch(k)
      <4>1. cleaner'[k] = "read" /\ ~InProgress(k) /\ cleaner[k] # "idle"
        BY <1>1, <3>3 DEF StopAfterLaunch
      <4> QED
        BY <2>1, <4>1 DEF CleanerMoves
    <3> QED
      BY <1>3, <3>1, <3>2, <3>3
  <2> QED
    BY <1>2, <2>1, <2>2, <2>3
<1>4. CASE StopAgentRun(k)
  <2>1. kind' = kind /\ UNCHANGED <<launch, handler, byRun, acked, receipts, before, os, record>>
    BY <1>4 DEF StopAgentRun, outside, disk
  <2>2. \A l \in Lease \ {k} : cleaner'[l] = cleaner[l]
    BY <1>1, <1>4 DEF StopAgentRun, Attempted
  <2>3. CleanerMoves(k)
    <3>1. CASE byRun[k] = None
      <4>1. entry' = entry /\ cleaner[k] = "read"
            /\ cleaner' = [cleaner EXCEPT ![k] = IF ~NoLeaseIsStopped(k) THEN "idle"
                                      ELSE IF before[k] THEN "relaunch" ELSE "proven"]
        BY <1>4, <3>1 DEF StopAgentRun, Attempted
      <4> QED
        BY <1>1, <2>1, <3>1, <4>1 DEF CleanerMoves, Proves
    <3>2. CASE byRun[k] # None
      BY <1>1, <1>4, <2>1, <3>2 DEF StopAgentRun, CleanerMoves
    <3> QED
      BY <3>1, <3>2
  <2> QED
    BY <1>2, <2>1, <2>2, <2>3
<1>5. CASE StopAnswered(k)
  <2>1. kind' = kind
        /\ UNCHANGED <<launch, handler, byRun, acked, receipts, before, os, record, entry>>
    BY <1>5 DEF StopAnswered, fleet, outside, disk
  <2>2. \A l \in Lease \ {k} : cleaner'[l] = cleaner[l]
    BY <1>1, <1>5 DEF StopAnswered, Attempted
  <2>3. CleanerMoves(k)
    BY <1>1, <1>5, <2>1 DEF StopAnswered, Attempted, StopOutcome, CleanerMoves, Proves
  <2> QED
    BY <1>2, <2>1, <2>2, <2>3
<1>6. CASE Acknowledge(k)
  <2>1. /\ kind' = kind /\ acked' = acked \cup {k} /\ receipts' \subseteq receipts
        /\ UNCHANGED <<launch, handler, byRun, before, os, entry>>
    BY <1>6 DEF Acknowledge, outside, fleet
  <2>2. Acks(k)
    BY <1>6, <2>1 DEF Acknowledge, Acks
  <2>3. \A l \in Lease : cleaner'[l] = cleaner[l] \/ cleaner'[l] = "idle"
    BY <1>1, <1>6 DEF Acknowledge
  <2> QED
    BY <2>1, <2>2, <2>3
    DEF LeaseStep, LaunchMoves, LeaseMoves, CleanerMoves, HandlerMoves, AckMoves, ReceiptMoves
<1> QED
  BY <1>3, <1>4, <1>5, <1>6 DEF CleanerStep

\* The start and the stop of a Host.
LEMMA ProcessLeases ==
  ASSUME HostInv, NEW p \in Process, StartupStep(p) \/ StopStep(p) \/ ProcessStep(p)
  PROVE  (\A l \in Lease : LeaseStep(l)) /\ kind' = kind
<1>1. ASSUME p \in Present, Remove(p), UNCHANGED <<launch, handler, cleaner, before, acked>>
      PROVE  \A l \in Lease : LeaseStep(l)
  <2> SUFFICES ASSUME NEW l \in Lease
               PROVE  LeaseStep(l)
    OBVIOUS
  <2>1. /\ byRun'[l] = IF entry[p].lease = l THEN None ELSE byRun[l]
        /\ receipts' = IF Codex /\ entry[p].lease # None THEN receipts \cup {entry[p].lease}
                       ELSE receipts
    BY <1>1, RemoveFields
  <2>2. entry[p].lease = l => byRun[l] # None
    <3>1. None \notin Process /\ p \in Process
      BY <1>1, FleetAssumption DEF FleetAssumption, Present
    <3> QED
      BY <1>1, <3>1 DEF HostInv, LeaseBookkeeping
  <2> QED
    BY <1>1, <2>1, <2>2
    DEF LeaseStep, LaunchMoves, LeaseMoves, CleanerMoves, HandlerMoves, AckMoves, ReceiptMoves
<1>2. CASE StartRefused(p) \/ SpawnFails(p)
  BY <1>1, <1>2, StartRefusedRows, SpawnFailsRows DEF StartRefused, SpawnFails, FailStart
<1>3. CASE StopReaped(p)
  BY <1>1, <1>3, StopReapedRows DEF StopReaped
<1>4. ASSUME NEW b \in BOOLEAN, RetireStart(p, b)
      PROVE  (\A l \in Lease : LeaseStep(l)) /\ kind' = kind
  <2>1. UNCHANGED <<launch, handler, cleaner, before, acked, kind>>
    BY <1>4 DEF RetireStart
  <2>2. CASE b
    BY <1>1, <1>4, <2>1, <2>2, RetireStartRows DEF RetireStart
  <2>3. CASE ~b
    BY <1>4, <2>1, <2>3, LeaseRests DEF RetireStart
  <2> QED
    BY <2>2, <2>3
<1>5. ASSUME NEW b \in BOOLEAN, SpawnReturns(p, b)
      PROVE  (\A l \in Lease : LeaseStep(l)) /\ kind' = kind
  BY <1>5, LeaseRests DEF SpawnReturns, fleet, callers
<1>6. CASE Spawn(p) \/ CommitStart(p) \/ AnswerStart(p) \/ StopExpired(p) \/ CompleteStop(p)
           \/ ProcessStep(p)
  <2>1. UNCHANGED <<launch, handler, cleaner, before, acked, byRun, receipts, kind>>
    BY <1>6 DEF Spawn, CommitStart, AnswerStart, StopExpired, CompleteStop, ProcessStep, HostExit,
                BackgroundTasks, CleanupStale, fleet, callers
  <2> QED
    BY <2>1, LeaseRests
<1> QED
  BY <1>2, <1>3, <1>4, <1>5, <1>6 DEF StartupStep, StopStep

\* Every step moves every execution so, and the adapter stays.
LEMMA LeaseSteps ==
  ASSUME HostInv, Next
  PROVE  (\A l \in Lease : LeaseStep(l)) /\ kind' = kind
<1>1. ASSUME NEW c \in Camp, FenceStep(c)
      PROVE  (\A l \in Lease : LeaseStep(l)) /\ kind' = kind
  <2>1. UNCHANGED <<launch, handler, cleaner, before, acked, byRun, receipts, kind>>
    BY <1>1
    DEF FenceStep, MarkCampDeleting, ForceFence, FenceAnswered, FenceAttachments, fleet, callers
  <2> QED
    BY <2>1, LeaseRests
<1>2. CASE FleetStep
  <2>1. UNCHANGED <<launch, handler, cleaner, before, acked, byRun, receipts, kind>>
    BY <1>2 DEF FleetStep, Invalidate, SweepIdle, ShutdownAll, ForceKill, fleet, callers
  <2> QED
    BY <2>1, LeaseRests
<1>3. CASE Crash
  <2>0. kind' = kind
    BY <1>3 DEF Crash
  <2> SUFFICES ASSUME NEW l \in Lease
               PROVE  LeaseStep(l)
    BY <2>0
  <2>1. /\ byRun'[l] = None /\ receipts' = {} /\ handler'[l] = "idle" /\ cleaner'[l] = "idle"
        /\ launch'[l] = IF launch[l] = "idle" THEN "idle" ELSE "lost"
        /\ acked' = acked
    BY <1>3 DEF Crash
  <2> QED
    BY <2>1
    DEF LeaseStep, LaunchMoves, LeaseMoves, CleanerMoves, HandlerMoves, AckMoves, ReceiptMoves
<1> QED
  BY <1>1, <1>2, <1>3, LaunchLeases, HandlerLeases, CleanerLeases, ProcessLeases DEF Next

-----------------------------------------------------------------------------
(* The stages of an execution.                                             *)

Early == {"idle", "ensuring", "retiring", "acquiring"}    \* no Host was asked for yet

\* The launch, the lease, the cleanup and the terminal of an execution fit together.
LaunchStages ==
    \A l \in Lease :
        /\ launch[l] # "idle" => Earlier[l] \subseteq acked
        /\ byRun[l] # None => launch[l] \notin {"idle", "lost"}
        /\ byRun[l] # None /\ Codex => launch[l] \notin Early
        /\ Codex => launch[l] # "replacing"
        /\ l \in acked \/ cleaner[l] # "idle" => launch[l] # "idle"
        /\ l \in acked \/ cleaner[l] = "proven" => ~InProgress(l)
        /\ cleaner[l] \in {"read", "stopping"} /\ ~before[l] => ~InProgress(l)
        /\ cleaner[l] = "stopping" => launch[l] # "lost"
        /\ handler[l] # "idle" => launch[l] = "bound"

\* What is over does not begin again.
LEMMA LaunchOver ==
  ASSUME NEW l \in Lease, LeaseStep(l), launch[l] # "idle", ~InProgress(l)
  PROVE  /\ launch'[l] # "idle" /\ ~InProgress(l)'
         /\ launch'[l] \in {launch[l], "lost"}
BY DEF LeaseStep, LaunchMoves, InProgress

\* A step keeps the stages of the executions.
LEMMA LaunchStagesStep ==
  ASSUME HostInv, LaunchStages, Next
  PROVE  LaunchStages'
<1> SUFFICES ASSUME NEW l \in Lease
             PROVE
        /\ launch'[l] # "idle" => Earlier[l] \subseteq acked'
        /\ byRun'[l] # None => launch'[l] \notin {"idle", "lost"}
        /\ byRun'[l] # None /\ Codex' => launch'[l] \notin Early
        /\ Codex' => launch'[l] # "replacing"
        /\ l \in acked' \/ cleaner'[l] # "idle" => launch'[l] # "idle"
        /\ l \in acked' \/ cleaner'[l] = "proven" => ~InProgress(l)'
        /\ cleaner'[l] \in {"read", "stopping"} /\ ~before'[l] => ~InProgress(l)'
        /\ cleaner'[l] = "stopping" => launch'[l] # "lost"
        /\ handler'[l] # "idle" => launch'[l] = "bound"
  BY DEF LaunchStages
<1>1. /\ launch[l] # "idle" => Earlier[l] \subseteq acked
      /\ byRun[l] # None => launch[l] \notin {"idle", "lost"}
      /\ byRun[l] # None /\ Codex => launch[l] \notin Early
      /\ Codex => launch[l] # "replacing"
      /\ l \in acked \/ cleaner[l] # "idle" => launch[l] # "idle"
      /\ l \in acked \/ cleaner[l] = "proven" => ~InProgress(l)
      /\ cleaner[l] \in {"read", "stopping"} /\ ~before[l] => ~InProgress(l)
      /\ cleaner[l] = "stopping" => launch[l] # "lost"
      /\ handler[l] # "idle" => launch[l] = "bound"
  BY DEF LaunchStages
<1>2. /\ LeaseStep(l) /\ Codex' = Codex /\ acked \subseteq acked'
      /\ launch[l] \in Launch /\ cleaner[l] \in Cleaner
  <2>1. \A k \in acked : k \in acked'
    BY LeaseSteps DEF LeaseStep, AckMoves, HostInv, TypeOK
  <2> QED
    BY <2>1, LeaseSteps DEF HostInv, TypeOK, Codex
<1>3. launch'[l] # "idle" => Earlier[l] \subseteq acked'
  BY <1>1, <1>2 DEF LeaseStep, LaunchMoves
<1>4. byRun'[l] # None => launch'[l] \notin {"idle", "lost"}
  BY <1>1, <1>2 DEF LeaseStep, LaunchMoves, LeaseMoves, Started
<1>5. byRun'[l] # None /\ Codex => launch'[l] \notin Early
  BY <1>1, <1>2 DEF LeaseStep, LaunchMoves, LeaseMoves, Started, Early
<1>6. Codex => launch'[l] # "replacing"
  BY <1>1, <1>2 DEF LeaseStep, LaunchMoves, Started
<1>7. launch'[l] = "idle" => launch[l] = "idle"
  BY <1>2 DEF LeaseStep, LaunchMoves, Started
<1>8. l \in acked' =>
          l \in acked \/ (launch'[l] = launch[l] /\ launch[l] # "idle" /\ ~InProgress(l))
  BY <1>1, <1>2 DEF LeaseStep, AckMoves, Acks, InProgress
<1>9. \/ cleaner'[l] = cleaner[l] /\ before'[l] = before[l]
      \/ cleaner'[l] = "idle"
      \/ /\ launch'[l] = launch[l] /\ launch[l] # "idle"
         /\ cleaner'[l] = "stopping" => launch[l] # "lost"
         /\ cleaner'[l] = "proven" => ~InProgress(l)
         /\ cleaner'[l] \in {"read", "stopping"} /\ ~before'[l] => ~InProgress(l)
  BY <1>1, <1>2 DEF LeaseStep, CleanerMoves, Proves
<1>10. l \in acked' \/ cleaner'[l] # "idle" => launch'[l] # "idle"
  BY <1>1, <1>7, <1>8, <1>9
<1>11. ~InProgress(l) /\ launch[l] # "idle" => ~InProgress(l)'
  BY <1>2, LaunchOver
<1>12. launch'[l] = launch[l] => InProgress(l)' = InProgress(l)
  BY DEF InProgress
<1>13. l \in acked' \/ cleaner'[l] = "proven" => ~InProgress(l)'
  BY <1>1, <1>8, <1>9, <1>11, <1>12
<1>14. cleaner'[l] \in {"read", "stopping"} /\ ~before'[l] => ~InProgress(l)'
  BY <1>1, <1>9, <1>11, <1>12
<1>15. cleaner'[l] = "stopping" => launch'[l] # "lost"
  BY <1>1, <1>2, <1>9 DEF LeaseStep, LaunchMoves, Started
<1>16. handler'[l] # "idle" => launch'[l] = "bound"
  BY <1>1, <1>2 DEF LeaseStep, LaunchMoves, HandlerMoves, Started
<1> QED
  BY <1>2, <1>3, <1>4, <1>5, <1>6, <1>10, <1>13, <1>14, <1>15, <1>16

\* One execution of a binding at a time is being launched.
LEMMA LaneAlone ==
  ASSUME LaunchStages, NEW l \in Lease, NEW m \in Lease, ScopeOf[l] = ScopeOf[m],
         InProgress(l), launch[m] # "idle", m \notin acked
  PROVE  l = m
<1>1. l = m \/ l \in Earlier[m] \/ m \in Earlier[l]
  BY FleetAssumption DEF FleetAssumption
<1>2. launch[l] # "idle" /\ l \notin acked
  BY DEF LaunchStages, InProgress
<1> QED
  BY <1>1, <1>2 DEF LaunchStages

-----------------------------------------------------------------------------
(* Cleanups.                                                               *)

\* Once a cleanup is proven, and for Codex once it is acknowledged, no Host is leased to the
\* execution; a receipt is kept of a Codex lease only, and after the Host.
CleanedUp ==
    \A l \in Lease :
        /\ cleaner[l] = "proven" => byRun[l] = None
        /\ Codex /\ l \in acked => byRun[l] = None
        /\ Codex /\ handler[l] \in {"reusable", "reaped"} => byRun[l] = None
        /\ l \in receipts => Codex /\ byRun[l] = None /\ launch[l] \notin Early \cup {"lost"}

\* A step keeps what was cleaned up.
LEMMA CleanedUpStep ==
  ASSUME HostInv, LaunchStages, CleanedUp, Next
  PROVE  CleanedUp'
<1> SUFFICES ASSUME NEW l \in Lease
             PROVE
        /\ cleaner'[l] = "proven" => byRun'[l] = None
        /\ Codex' /\ l \in acked' => byRun'[l] = None
        /\ Codex' /\ handler'[l] \in {"reusable", "reaped"} => byRun'[l] = None
        /\ l \in receipts' =>
             Codex' /\ byRun'[l] = None /\ launch'[l] \notin Early \cup {"lost"}
  BY DEF CleanedUp
<1>1. /\ cleaner[l] = "proven" => byRun[l] = None
      /\ Codex /\ l \in acked => byRun[l] = None
      /\ Codex /\ handler[l] \in {"reusable", "reaped"} => byRun[l] = None
      /\ l \in receipts => Codex /\ byRun[l] = None /\ launch[l] \notin Early \cup {"lost"}
  BY DEF CleanedUp
<1>2. /\ byRun[l] # None => launch[l] \notin {"idle", "lost"}
      /\ byRun[l] # None /\ Codex => launch[l] \notin Early
      /\ Codex => launch[l] # "replacing"
      /\ l \in acked \/ cleaner[l] = "proven" => ~InProgress(l)
      /\ handler[l] # "idle" => launch[l] = "bound"
  BY DEF LaunchStages
<1>3. LeaseStep(l) /\ Codex' = Codex
  BY LeaseSteps DEF Codex
<1>4. byRun'[l] # None /\ byRun[l] = None => launch[l] = "acquiring"
  BY <1>3 DEF LeaseStep, LeaseMoves
<1>5. launch[l] = "acquiring" => InProgress(l)
  BY DEF InProgress
<1>6. cleaner'[l] = "proven" => byRun'[l] = None
  <2>1. CASE cleaner[l] = "proven"
    BY <1>1, <1>2, <1>4, <1>5, <2>1
  <2>2. CASE cleaner[l] # "proven" /\ cleaner'[l] = "proven"
    <3>1. Proves(l)
      BY <1>3, <2>2 DEF LeaseStep, CleanerMoves
    <3> QED
      BY <1>1, <3>1 DEF Proves
  <2> QED
    BY <2>1, <2>2
<1>7. Codex /\ l \in acked' => byRun'[l] = None
  <2>1. CASE l \in acked
    BY <1>1, <1>2, <1>4, <1>5, <2>1
  <2>2. CASE l \notin acked /\ l \in acked'
    <3>1. Acks(l)
      BY <1>3, <2>2 DEF LeaseStep, AckMoves
    <3> QED
      BY <1>1, <3>1 DEF Acks
  <2> QED
    BY <2>1, <2>2
<1>8. Codex /\ handler'[l] \in {"reusable", "reaped"} => byRun'[l] = None
  <2>1. CASE handler'[l] = handler[l]
    BY <1>1, <1>2, <1>4, <2>1
  <2>2. CASE handler'[l] \in {"reusable", "reaped"} /\ handler'[l] # handler[l]
    <3>1. /\ launch[l] = "bound"
          /\ byRun'[l] = None \/ l \in receipts
      BY <1>2, <1>3, <2>2 DEF LeaseStep, HandlerMoves
    <3> QED
      BY <1>1, <1>4, <3>1
  <2> QED
    BY <2>1, <2>2
<1>9. l \in receipts' => Codex /\ byRun'[l] = None /\ launch'[l] \notin Early \cup {"lost"}
  <2>1. CASE l \in receipts /\ l \in receipts'
    <3>1. launch[l] \notin Early \cup {"lost"} /\ Codex /\ byRun[l] = None
      BY <1>1, <2>1
    <3>2. byRun'[l] = None
      BY <1>4, <3>1 DEF Early
    <3>3. launch'[l] \notin Early \cup {"lost"}
      BY <1>2, <1>3, <2>1, <3>1 DEF LeaseStep, LaunchMoves, Early
    <3> QED
      BY <3>1, <3>2, <3>3
  <2>2. CASE l \notin receipts /\ l \in receipts'
    <3>1. Codex /\ byRun[l] # None /\ byRun'[l] = None /\ launch'[l] = launch[l]
      BY <1>3, <2>2 DEF LeaseStep, ReceiptMoves
    <3> QED
      BY <1>2, <3>1
  <2> QED
    BY <2>1, <2>2
<1> QED
  BY <1>3, <1>6, <1>7, <1>8, <1>9

-----------------------------------------------------------------------------
(* Who is leased to whom.                                                  *)

\* What a row says of leases and lives.
LEMMA RowLeases ==
  ASSUME HostInv, NEW p \in Process, HostStep(p)
  PROVE  /\ \/ entry'[p].lease \in {entry[p].lease, None}
            \/ \E l \in Lease : /\ launch[l] = "acquiring" /\ entry'[p].lease = l
                                /\ (p \in Present)'
         /\ os'[p] = "alive" => os[p] = "alive" \/ Spawned(p)
         /\ entry'[p].state = "removed" /\ os'[p] = "alive" =>
              /\ entry'[p].lease = entry[p].lease /\ os[p] = "alive"
              /\ entry[p].state = "removed" \/ Lost(p)
<1> USE DEF HostStep
<1>1. CASE Rests(p) \/ StartMoves(p) \/ StopMoves(p)
  BY <1>1 DEF Rests, StartMoves, StopMoves
<1>2. CASE Spawned(p)
  BY <1>2 DEF Spawned, HostInv, Stage, Unsettled, Unborn
<1>3. CASE Reserved(p)
  <2>1. PICK l \in Lease : Reserves(l, p)
    BY <1>3 DEF Reserved
  <2>2. launch[l] = "acquiring" /\ entry'[p].lease = l /\ entry'[p].state = "Starting"
    BY <2>1 DEF Reserves
  <2> QED
    BY <1>3, <2>2 DEF Reserved, Present
<1>4. CASE Taken(p)
  <2>1. PICK l \in Lease : Takes(l, p)
    BY <1>4 DEF Taken
  <2>2. launch[l] = "acquiring" /\ entry'[p].lease = l /\ entry'[p].state = "Busy"
    BY <2>1 DEF Takes, Marks
  <2> QED
    BY <1>4, <2>2 DEF Taken, OnlyEntry, Present
<1>5. CASE Warmed(p) \/ Marked(p) \/ Cancelled(p)
  BY <1>5 DEF Warmed, Marked, Cancelled, Marks, OnlyEntry
<1>6. CASE Stopped(p)
  BY <1>6 DEF Stopped, Marks
<1>7. CASE Committed(p) \/ Unreaped(p)
  BY <1>7 DEF Committed, Unreaped, Marks
<1>8. CASE Failed(p) \/ Reaps(p)
  BY <1>8 DEF Failed, Reaps, Marks
<1>9. CASE Lost(p)
  BY <1>9 DEF Lost, Marks
<1> QED
  BY <1>1, <1>2, <1>3, <1>4, <1>5, <1>6, <1>7, <1>8, <1>9

\* A record names the lease it named, none, or the one in its entry.
RecordMoves(p) ==
    \/ record'[p].lease \in {record[p].lease, None}
    \/ record'[p].lease = entry[p].lease /\ entry' = entry

\* Every step moves every record so.
LEMMA RecordSteps ==
  ASSUME HostInv, Next
  PROVE  \A p \in Process : RecordMoves(p)
<1>1. TypeOK /\ record \in [Process -> OwnerRecord]
  BY DEF HostInv, TypeOK
<1>2. CASE record' = record
  BY <1>2 DEF RecordMoves
<1>3. ASSUME NEW q \in Process, record' = FinishedRecord(q)
      PROVE  \A p \in Process : RecordMoves(p)
  BY <1>1, <1>3, FinishedRecordFields DEF RecordMoves
<1>4. ASSUME NEW l \in Lease, LaunchStep(l) \/ HandlerStep(l) \/ CleanerStep(l)
      PROVE  \A p \in Process : RecordMoves(p)
  <2>1. CASE RegisterReuse(l)
    BY <1>1, <2>1 DEF RegisterReuse, RecordMoves, fleet
  <2>2. CASE Acknowledge(l)
    <3>1. ASSUME NEW p \in Process
          PROVE  NoRecord.lease = None /\ [record[p] EXCEPT !.lease = None].lease = None
      BY <1>1 DEF NoRecord, OwnerRecord
    <3> QED
      BY <2>2, <3>1 DEF Acknowledge, RecordMoves
  <2>3. LaunchStep(l) => RegisterReuse(l) \/ record' = record
    BY DEF LaunchStep, BeginLaunch, RetireIncompatible, AwaitRetirement, RetirementsAnswered,
           AcquireBlocked, AcquireReuse, AcquireReserve, StartAnswered, BindRoute, FailLaunch,
           ReplaceHost, HostReplaced, disk
  <2>4. HandlerStep(l) => record' = record
    BY DEF HandlerStep, Release, FinishRelease, ReleaseAnswered, RetireRun, disk
  <2>5. CleanerStep(l) => Acknowledge(l) \/ record' = record
    BY DEF CleanerStep, ReadLaunch, StopAgentRun, StopDelayed, StopAnswered, StopAfterLaunch, disk
  <2> QED
    BY <1>2, <1>4, <2>1, <2>2, <2>3, <2>4, <2>5
<1>5. ASSUME NEW q \in Process, StartupStep(q) \/ StopStep(q) \/ ProcessStep(q)
      PROVE  \A p \in Process : RecordMoves(p)
  <2>1. ASSUME NEW b \in BOOLEAN, SpawnReturns(q, b)
        PROVE  \A p \in Process : RecordMoves(p)
    BY <1>1, <2>1 DEF SpawnReturns, RecordMoves, fleet
  <2>2. ASSUME NEW b \in BOOLEAN, RetireStart(q, b)
        PROVE  record' = record \/ record' = FinishedRecord(q)
    BY <2>2 DEF RetireStart
  <2>3. CompleteStop(q) \/ CleanupStale(q) => record' = record \/ record' = FinishedRecord(q)
    BY DEF CompleteStop, CleanupStale
  <2> QED
    BY <1>2, <1>3, <1>5, <2>1, <2>2, <2>3
    DEF StartupStep, StopStep, ProcessStep, StartRefused, FailStart, Spawn, SpawnFails, CommitStart,
        AnswerStart, StopReaped, StopExpired, HostExit, BackgroundTasks, disk
<1>6. ASSUME NEW c \in Camp, FenceStep(c)
      PROVE  record' = record
  BY <1>6 DEF FenceStep, MarkCampDeleting, ForceFence, FenceAnswered, FenceAttachments, disk
<1>7. FleetStep \/ Crash => record' = record
  BY DEF FleetStep, Invalidate, SweepIdle, ShutdownAll, ForceKill, Crash, disk
<1> QED
  BY <1>2, <1>4, <1>5, <1>6, <1>7 DEF Next

\* The executions that entries and records name were launched; a living process without an
\* entry is of an execution that a crash ended.
LeasesKnown ==
    \A p \in Process :
        /\ entry[p].lease # None => launch[entry[p].lease] # "idle"
        /\ Codex /\ entry[p].lease # None => launch[entry[p].lease] \notin Early
        /\ Codex /\ record[p].lease # None => launch[record[p].lease] \notin Early
        /\ entry[p].lease # None /\ entry[p].state = "removed" /\ os[p] = "alive" =>
                launch[entry[p].lease] = "lost"

\* A Codex execution has one Host, and one record.
OneHost ==
    Codex => \A p, q \in Process : p # q /\ entry[p].lease # None =>
        entry[q].lease # entry[p].lease /\ record[q].lease # entry[p].lease

\* A launch that left its early stages does not come back to them, for Codex.
LEMMA EarlyOver ==
  ASSUME LaunchStages, NEW l \in Lease, LeaseStep(l)
  PROVE  /\ launch[l] # "idle" => launch'[l] # "idle"
         /\ Codex /\ launch[l] \notin Early => launch'[l] \notin Early
         /\ launch[l] = "lost" => launch'[l] = "lost"
BY DEF LaunchStages, LeaseStep, LaunchMoves, Early, Started

\* The lease of a Host that is present.
LEMMA PresentLaunched ==
  ASSUME HostInv, LaunchStages, NEW p \in Present, NEW l \in Lease, entry[p].lease = l
  PROVE  byRun[l] = p /\ launch[l] \notin {"idle", "lost"} /\ (Codex => launch[l] \notin Early)
<1>1. p \in Process /\ None \notin Process
  BY FleetAssumption DEF FleetAssumption, Present
<1>2. byRun[l] = p
  BY <1>1 DEF HostInv, LeaseBookkeeping
<1> QED
  BY <1>1, <1>2 DEF LaunchStages

\* A step keeps what is known of the leases.
LEMMA LeasesKnownStep ==
  ASSUME HostInv, LaunchStages, LeasesKnown, Next
  PROVE  LeasesKnown'
<1> SUFFICES ASSUME NEW p \in Process
             PROVE
        /\ entry'[p].lease # None => launch'[entry'[p].lease] # "idle"
        /\ Codex' /\ entry'[p].lease # None => launch'[entry'[p].lease] \notin Early
        /\ Codex' /\ record'[p].lease # None => launch'[record'[p].lease] \notin Early
        /\ entry'[p].lease # None /\ entry'[p].state = "removed" /\ os'[p] = "alive" =>
                launch'[entry'[p].lease] = "lost"
  BY DEF LeasesKnown
<1>1. /\ entry[p].lease # None => launch[entry[p].lease] # "idle"
      /\ Codex /\ entry[p].lease # None => launch[entry[p].lease] \notin Early
      /\ Codex /\ record[p].lease # None => launch[record[p].lease] \notin Early
      /\ entry[p].lease # None /\ entry[p].state = "removed" /\ os[p] = "alive" =>
              launch[entry[p].lease] = "lost"
  BY DEF LeasesKnown
<1>2. HostInv' /\ LaunchStages' /\ Codex' = Codex /\ HostStep(p)
  BY HostStepKeeps, LaunchStagesStep, LeaseSteps, Rows DEF Codex, RowsKeep
<1>3. /\ \/ entry'[p].lease \in {entry[p].lease, None}
         \/ \E l \in Lease : /\ launch[l] = "acquiring" /\ entry'[p].lease = l
                             /\ (p \in Present)'
      /\ entry'[p].state = "removed" /\ os'[p] = "alive" =>
              /\ entry'[p].lease = entry[p].lease /\ os[p] = "alive"
              /\ entry[p].state = "removed" \/ Lost(p)
  BY <1>2, RowLeases
<1>4. ASSUME NEW l \in Lease
      PROVE  /\ launch[l] # "idle" => launch'[l] # "idle"
             /\ Codex /\ launch[l] \notin Early => launch'[l] \notin Early
             /\ launch[l] = "lost" => launch'[l] = "lost"
  BY LeaseSteps, EarlyOver
<1>5. entry[p].lease \in Lease \cup {None} /\ record[p].lease \in Lease \cup {None}
      /\ None \notin Lease
  BY EntryFields, FleetAssumption DEF HostInv, TypeOK, OwnerRecord, FleetAssumption
<1>6. ASSUME NEW l \in Lease, entry'[p].lease = l, (p \in Present)'
      PROVE  launch'[l] \notin {"idle", "lost"} /\ (Codex => launch'[l] \notin Early)
  <2>1. byRun'[l] = p
    BY <1>2, <1>6 DEF HostInv, LeaseBookkeeping
  <2>2. p # None
    BY FleetAssumption DEF FleetAssumption
  <2> QED
    BY <1>2, <2>1, <2>2 DEF LaunchStages
<1>7. /\ entry'[p].lease # None => launch'[entry'[p].lease] # "idle"
      /\ Codex /\ entry'[p].lease # None => launch'[entry'[p].lease] \notin Early
  BY <1>1, <1>3, <1>4, <1>5, <1>6
<1>8. Codex /\ record'[p].lease # None => launch'[record'[p].lease] \notin Early
  <2>1. RecordMoves(p)
    BY RecordSteps
  <2> QED
    BY <1>1, <1>4, <1>5, <2>1 DEF RecordMoves
<1>9. entry'[p].lease # None /\ entry'[p].state = "removed" /\ os'[p] = "alive" =>
                launch'[entry'[p].lease] = "lost"
  BY <1>1, <1>3, <1>4, <1>5 DEF Lost
<1> QED
  BY <1>2, <1>7, <1>8, <1>9

\* A step gives no execution a second Host.
LEMMA OneHostStep ==
  ASSUME HostInv, LaunchStages, LeasesKnown, OneHost, Next
  PROVE  OneHost'
<1> SUFFICES ASSUME Codex', NEW p \in Process, NEW q \in Process, p # q, entry'[p].lease # None
             PROVE  entry'[q].lease # entry'[p].lease /\ record'[q].lease # entry'[p].lease
  BY DEF OneHost
<1>1. HostInv' /\ Codex /\ HostStep(p) /\ HostStep(q) /\ RecordMoves(q)
  BY HostStepKeeps, LeaseSteps, Rows, RecordSteps DEF Codex, RowsKeep
<1>2. /\ \/ entry'[p].lease \in {entry[p].lease, None}
         \/ \E l \in Lease : /\ launch[l] = "acquiring" /\ entry'[p].lease = l
                             /\ (p \in Present)'
      /\ \/ entry'[q].lease \in {entry[q].lease, None}
         \/ \E l \in Lease : /\ launch[l] = "acquiring" /\ entry'[q].lease = l
                             /\ (q \in Present)'
  BY <1>1, RowLeases
<1>3. /\ entry[q].lease # None => launch[entry[q].lease] \notin Early
      /\ record[q].lease # None => launch[record[q].lease] \notin Early
      /\ entry[p].lease # None => launch[entry[p].lease] \notin Early
  BY <1>1 DEF LeasesKnown
<1>4. CASE entry'[p].lease = entry[p].lease
  <2>1. entry[q].lease # entry[p].lease /\ record[q].lease # entry[p].lease
    BY <1>1, <1>4 DEF OneHost
  <2>2. launch[entry[p].lease] # "acquiring"
    BY <1>3, <1>4 DEF Early
  <2> QED
    BY <1>1, <1>2, <1>4, <2>1, <2>2 DEF RecordMoves
<1>5. ASSUME NEW l \in Lease, launch[l] = "acquiring", entry'[p].lease = l, (p \in Present)'
      PROVE  entry'[q].lease # l /\ record'[q].lease # l
  <2>1. entry[q].lease # l /\ record[q].lease # l /\ l # None
    BY <1>3, <1>5, FleetAssumption DEF Early, FleetAssumption
  <2>2. byRun'[l] = p
    BY <1>1, <1>5 DEF HostInv, LeaseBookkeeping
  <2>3. (q \in Present)' => entry'[q].lease # l
    BY <1>1, <2>2 DEF HostInv, LeaseBookkeeping
  <2> QED
    BY <1>1, <1>2, <2>1, <2>3 DEF RecordMoves
<1> QED
  BY <1>2, <1>4, <1>5

\* A proof of a cleanup stays the truth.
LEMMA CleanupProvenStep ==
  ASSUME HostInv, LaunchStages, CleanedUp, LeasesKnown, OneHost, Reaped, CleanupProven, Next
  PROVE  CleanupProven'
<1>1. /\ HostInv' /\ CleanedUp' /\ LeasesKnown' /\ Reaped' /\ Codex' = Codex
  BY HostStepKeeps, CleanedUpStep, LeasesKnownStep, ReapedStep, LeaseSteps DEF Codex
<1> SUFFICES ASSUME Codex \/ restarts' = 0, NEW l \in Lease, NEW p \in Process,
                    cleaner'[l] = "proven" \/ (Codex /\ l \in acked'),
                    entry'[p].lease = l, os'[p] = "alive"
             PROVE  FALSE
  BY <1>1 DEF CleanupProven
<1>2. byRun'[l] = None /\ l # None /\ None \notin Process
  BY <1>1, FleetAssumption DEF CleanedUp, FleetAssumption
<1>3. entry'[p].state = "removed"
  <2>1. (p \notin Present)'
    BY <1>1, <1>2 DEF HostInv, LeaseBookkeeping
  <2>2. entry'[p].state # "absent"
    BY <1>1, <1>2 DEF HostInv, Stage, Absent
  <2> QED
    BY <2>1, <2>2 DEF Present
<1>4. Codex /\ launch'[l] = "lost"
  BY <1>1, <1>2, <1>3 DEF Reaped, LeasesKnown
<1>5. /\ entry'[p].lease = entry[p].lease /\ os[p] = "alive"
  BY <1>3, Rows, RowLeases DEF RowsKeep
<1>6. cleaner[l] # "proven" /\ l \notin acked
  BY <1>4, <1>5 DEF CleanupProven
<1>7. LeaseStep(l)
  BY LeaseSteps
<1>8. CASE cleaner'[l] = "proven"
  <2>1. Proves(l)
    BY <1>6, <1>7, <1>8 DEF LeaseStep, CleanerMoves
  <2>2. launch[l] = "lost" /\ entry' = entry /\ os' = os /\ ~before[l]
    BY <1>4, <2>1 DEF Proves
  <2>3. l \notin receipts /\ cleaner[l] # "stopping"
    BY <2>2 DEF CleanedUp, LaunchStages
  <2>4. ConfirmedStop(l)
    BY <1>4, <2>1, <2>2, <2>3 DEF Proves, NoLeaseIsStopped
  <2>5. PICK q \in Process : record[q].lease = l /\ record[q].state = "reaped"
    BY <2>4 DEF ConfirmedStop
  <2>6. p = q
    BY <1>2, <1>4, <1>5, <2>5 DEF OneHost
  <2> QED
    BY <1>5, <2>5, <2>6 DEF HostInv, Recorded
<1>9. CASE l \in acked'
  <2>1. Acks(l)
    BY <1>6, <1>7, <1>9 DEF LeaseStep, AckMoves
  <2>2. launch[l] = "lost" /\ handler[l] # "idle"
    BY <1>4, <1>6, <2>1 DEF Acks
  <2> QED
    BY <2>2 DEF LaunchStages
<1> QED
  BY <1>8, <1>9

-----------------------------------------------------------------------------
(* The inductive invariant of the cleanups.                                *)

CleanupInv ==
    /\ HostInv /\ ShutdownCancels /\ FenceKept /\ Reaped
    /\ LaunchStages /\ CleanedUp /\ LeasesKnown /\ OneHost /\ CleanupProven

\* It holds at the start.
LEMMA CleanupInit ==
  ASSUME Init
  PROVE  CleanupInv
<1>1. ASSUME NEW p \in Process
      PROVE  entry[p].state = "absent" /\ entry[p].lease = None /\ record[p].lease = None
  BY DEF Init, Absent, NoRecord
<1>2. HostInv
  BY HostInit
<1>3. ShutdownCancels /\ FenceKept /\ Reaped
  BY <1>1 DEF Init, ShutdownCancels, FenceKept, Reaped
<1>4. LaunchStages
  BY DEF Init, LaunchStages, InProgress, Early
<1>5. CleanedUp /\ LeasesKnown /\ OneHost /\ CleanupProven
  BY <1>1 DEF Init, CleanedUp, LeasesKnown, OneHost, CleanupProven
<1> QED
  BY <1>2, <1>3, <1>4, <1>5 DEF CleanupInv

\* It is kept.
LEMMA CleanupKept ==
  ASSUME CleanupInv, [Next]_vars
  PROVE  CleanupInv'
<1>1. CASE Next
  BY <1>1, HostStepKeeps, ShutdownCancelsStep, FenceKeptStep, ReapedStep, LaunchStagesStep,
     CleanedUpStep, LeasesKnownStep, OneHostStep, CleanupProvenStep DEF CleanupInv
<1>2. CASE UNCHANGED vars
  <2>1. HostInv'
    BY <1>2, HostStutter DEF CleanupInv
  <2>2. ShutdownCancels' /\ FenceKept' /\ Reaped' /\ LaunchStages'
    BY <1>2 DEF CleanupInv, ShutdownCancels, FenceKept, InCamp, Present, Reaped, LaunchStages,
                InProgress, Codex, vars, fleet, outside, callers
  <2>3. CleanedUp' /\ LeasesKnown' /\ OneHost' /\ CleanupProven'
    BY <1>2 DEF CleanupInv, CleanedUp, LeasesKnown, OneHost, CleanupProven, Codex, vars, fleet,
                outside, disk, callers
  <2> QED
    BY <2>1, <2>2, <2>3 DEF CleanupInv
<1> QED
  BY <1>1, <1>2

\* The inductive invariant of the cleanups holds always.
THEOREM CleanupInvHolds == Spec => []CleanupInv
BY CleanupInit, CleanupKept, PTL DEF Spec

\* A cleanup that is proven is the truth about the processes, whatever timeout, late start,
\* exit, replacement or, for Codex, crash came between (cleanup_agent_run_runtime and
\* acknowledge_cleanup against drive_startup, drive_stop and the records).
THEOREM CleanupProvenHolds == Spec => []CleanupProven
BY CleanupInvHolds, PTL DEF CleanupInv

-----------------------------------------------------------------------------
(* What a launch hears while it waits.                                     *)

\* A launch that waits hears of a start that is over, or of a Host that is gone or not.
Hears(c, p) ==
    \/ wait'[c][p] = wait[c][p]
    \/ wait[c][p] \in {"start", "cancel"} /\ entry'[p].state # "Starting"
    \/ /\ wait[c][p] \in {"retire", "stop", "planned", "awaited"}
       /\ wait'[c][p] \in {"awaited", "no", "failed", "kept"} \/ entry'[p].state = "removed"

\* What others wait for does not change with it.
LEMMA OthersWait ==
  ASSUME TypeOK, NEW c \in Caller, NEW d \in Caller, c # d
  PROVE  /\ Forget(d)[c] = wait[c]
         /\ \A P : Waits(d, P)[c] = wait[c]
         /\ \A f : [wait EXCEPT ![d] = f][c] = wait[c]
BY DEF TypeOK, Forget, Waits

\* A launch that goes on waiting hears nothing else.
LEMMA WaitSteps ==
  ASSUME HostInv, Next, NEW l \in Lease, launch[l] \in {"retiring", "waiting"},
         launch'[l] = launch[l], NEW p \in Process
  PROVE  Hears(<<"launch", l>>, p)
<1> DEFINE c == <<"launch", l>>
<1>1. /\ TypeOK /\ c \in Caller /\ launch \in [Lease -> Launch]
      /\ \A k \in Lease : /\ k # l => <<"launch", k>> \in Caller /\ <<"launch", k>> # c
                          /\ <<"handler", k>> \in Caller /\ <<"handler", k>> # c
                          /\ <<"cleaner", k>> \in Caller /\ <<"cleaner", k>> # c
      /\ \A k \in Camp : <<"fence", k>> \in Caller /\ <<"fence", k>> # c
  BY DEF HostInv, TypeOK, Caller
<1> HIDE DEF c
<1>2. CASE wait'[c] = wait[c]
  BY <1>2 DEF Hears, c
<1>0. ASSUME AwaitRetirement(l)
      PROVE  Hears(c, p)
  <2>1. PICK q \in Process : /\ wait[c][q] \in {"planned", "stop"}
                             /\ wait' = [wait EXCEPT ![c][q] = "awaited"]
    BY <1>0 DEF AwaitRetirement, c
  <2> QED
    BY <1>1, <2>1 DEF TypeOK, Hears
<1>3. ASSUME NEW k \in Lease, LaunchStep(k), ~AwaitRetirement(l)
      PROVE  wait'[c] = wait[c]
  <2>1. CASE k = l
    BY <1>1, <1>3, <2>1
    DEF LaunchStep, BeginLaunch, RetireIncompatible, RetirementsAnswered, AcquireBlocked,
        AcquireReuse, RegisterReuse, AcquireReserve, StartAnswered, BindRoute, FailLaunch,
        ReplaceHost, HostReplaced
  <2>2. CASE k # l
    <3>1. <<"launch", k>> \in Caller /\ <<"launch", k>> # c
      BY <1>1, <2>2
    <3>2. /\ Forget(<<"launch", k>>)[c] = wait[c]
          /\ \A P : Waits(<<"launch", k>>, P)[c] = wait[c]
          /\ \A f : [wait EXCEPT ![<<"launch", k>>] = f][c] = wait[c]
      BY <1>1, <3>1, OthersWait
    <3>3. RetireIncompatible(k) => wait'[c] = wait[c]
      BY ZenonT(30), <3>2 DEF RetireIncompatible
    <3>4. ASSUME NEW q \in Process, AcquireReserve(k, q)
          PROVE  wait'[c] = wait[c]
      BY <3>2, <3>4 DEF AcquireReserve
    <3>5. ReplaceHost(k) => wait'[c] = wait[c]
      BY <3>2 DEF ReplaceHost
    <3>6. RetirementsAnswered(k) \/ StartAnswered(k) \/ HostReplaced(k) => wait'[c] = wait[c]
      BY <3>2 DEF RetirementsAnswered, StartAnswered, HostReplaced
    <3>7. AwaitRetirement(k) => wait'[c] = wait[c]
      BY <1>1, <3>1 DEF AwaitRetirement, TypeOK
    <3> QED
      BY <1>3, <3>3, <3>4, <3>5, <3>6, <3>7
      DEF LaunchStep, BeginLaunch, AcquireBlocked, AcquireReuse, RegisterReuse, BindRoute,
          FailLaunch
  <2> QED
    BY <2>1, <2>2
<1>4. ASSUME NEW k \in Lease, HandlerStep(k)
      PROVE  wait'[c] = wait[c]
  <2>1. <<"handler", k>> \in Caller /\ <<"handler", k>> # c
    BY <1>1
  <2>2. /\ Forget(<<"handler", k>>)[c] = wait[c]
        /\ \A P : Waits(<<"handler", k>>, P)[c] = wait[c]
    BY <1>1, <2>1, OthersWait
  <2>3. ASSUME NEW d, Release(k, d)
        PROVE  wait'[c] = wait[c]
    BY <2>2, <2>3 DEF Release
  <2>4. ASSUME NEW q, FinishRelease(k, q)
        PROVE  wait'[c] = wait[c]
    BY <2>2, <2>4 DEF FinishRelease
  <2> QED
    BY <1>4, <2>2, <2>3, <2>4 DEF HandlerStep, ReleaseAnswered, RetireRun, callers
<1>5. ASSUME NEW k \in Lease, CleanerStep(k)
      PROVE  wait'[c] = wait[c]
  <2>1. <<"cleaner", k>> \in Caller /\ <<"cleaner", k>> # c
    BY <1>1
  <2>2. /\ Forget(<<"cleaner", k>>)[c] = wait[c]
        /\ \A P : Waits(<<"cleaner", k>>, P)[c] = wait[c]
    BY <1>1, <2>1, OthersWait
  <2>3. StopAgentRun(k) => wait'[c] = wait[c]
    BY <2>2 DEF StopAgentRun
  <2> QED
    BY <1>5, <2>2, <2>3
    DEF CleanerStep, ReadLaunch, StopDelayed, StopAnswered, StopAfterLaunch, Acknowledge
<1>6. ASSUME NEW k \in Camp, FenceStep(k)
      PROVE  wait'[c] = wait[c]
  <2>1. <<"fence", k>> \in Caller /\ <<"fence", k>> # c
    BY <1>1
  <2>2. /\ Forget(<<"fence", k>>)[c] = wait[c]
        /\ \A P : Waits(<<"fence", k>>, P)[c] = wait[c]
    BY <1>1, <2>1, OthersWait
  <2>3. ForceFence(k) => wait'[c] = wait[c]
    BY <2>2 DEF ForceFence
  <2> QED
    BY <1>6, <2>2, <2>3 DEF FenceStep, MarkCampDeleting, FenceAnswered, FenceAttachments, callers
<1>7. ASSUME NEW q \in Process, NEW answers, wait' = Answer(q, answers),
             DOMAIN answers \subseteq Waiting,
             \A w \in DOMAIN answers : answers[w] \in Answers
      PROVE  /\ q # p => Hears(c, p)
             /\ wait[c][q] \in DOMAIN answers => wait'[c][q] = answers[wait[c][q]]
             /\ wait[c][q] \notin DOMAIN answers => wait'[c][q] = wait[c][q]
  BY <1>1, <1>7, AnswerHears DEF Hears
<1>8. ASSUME NEW q \in Process, StartupStep(q)
      PROVE  Hears(c, p)
  <2>1. CASE wait' = Answer(q, StartFailed) /\ entry'[q].state # "Starting"
    BY <1>7, <2>1, StartFailedHeard DEF Hears
  <2>2. StartRefused(q) \/ SpawnFails(q) => wait' = Answer(q, StartFailed)
                                            /\ entry'[q].state # "Starting"
    BY StartRefusedRows, SpawnFailsRows DEF StartRefused, SpawnFails, FailStart, Failed, Marks
  <2>3. ASSUME NEW b \in BOOLEAN, RetireStart(q, b)
        PROVE  wait' = Answer(q, StartFailed) /\ entry'[q].state # "Starting"
    BY <2>3, RetireStartRows DEF RetireStart, Failed, Unreaped, Marks
  <2>4. CASE AnswerStart(q)
    <3>1. wait' = Answer(q, StartDone) /\ entry' = entry
      BY <2>4, AnswerStartRows DEF AnswerStart, StartDone
    <3>2. entry[q].state # "Starting"
      BY <2>4 DEF AnswerStart, HostInv, Stage, Unsettled, Unborn
    <3> QED
      BY <1>7, <3>1, <3>2, StartDoneHeard DEF Hears
  <2>5. ASSUME NEW b \in BOOLEAN, SpawnReturns(q, b)
        PROVE  Hears(c, p)
    BY <2>5 DEF SpawnReturns, callers, Hears
  <2>6. Spawn(q) \/ CommitStart(q) => Hears(c, p)
    BY DEF Spawn, CommitStart, callers, Hears
  <2> QED
    BY <1>8, <2>1, <2>2, <2>3, <2>4, <2>5, <2>6 DEF StartupStep
<1>9. ASSUME NEW q \in Process, StopStep(q) \/ ProcessStep(q)
      PROVE  Hears(c, p)
  <2>1. CASE StopReaped(q)
    <3>1. wait' = Answer(q, [retire |-> "yes"]) /\ entry'[q].state = "removed"
      BY <2>1, StopReapedRows DEF StopReaped, Reaps, Marks
    <3>2. "yes" \in Answers
      BY DEF Answers
    <3> QED
      BY <1>7, <3>1, <3>2, RetireHeard DEF Hears
  <2>2. CASE StopExpired(q)
    <3>1. wait' = Answer(q, [retire |-> "kept"]) /\ "kept" \in Answers
      BY <2>2 DEF StopExpired, Answers
    <3> QED
      BY <1>7, <3>1, RetireHeard DEF Hears
  <2>3. CASE CompleteStop(q)
    <3>1. wait' = Answer(q, StopDone(q))
      BY <2>3 DEF CompleteStop, StopDone
    <3>2. stop[q] = "removed" => entry'[q].state = "removed"
      BY <2>3, CompleteStopRows DEF HostInv, Stage
    <3> QED
      BY <1>7, <3>1, <3>2, StopHeard DEF Hears
  <2>4. ProcessStep(q) => Hears(c, p)
    BY DEF ProcessStep, HostExit, BackgroundTasks, CleanupStale, callers, Hears
  <2> QED
    BY <1>9, <2>1, <2>2, <2>3, <2>4 DEF StopStep
<1>10. CASE FleetStep
  BY <1>2, <1>10 DEF FleetStep, Invalidate, SweepIdle, ShutdownAll, ForceKill, callers
<1>11. ~Crash
  BY <1>1 DEF Crash
<1> QED
  BY <1>0, <1>2, <1>3, <1>4, <1>5, <1>6, <1>8, <1>9, <1>10, <1>11 DEF Next, c

\* A reservation is waited for by the launch that made it.
StartsWaited ==
    \A p \in Process : entry[p].state = "Starting" =>
        /\ launch[entry[p].lease] = "waiting"
        /\ wait[<<"launch", entry[p].lease>>][p] = "start"

\* A step keeps the launches waiting.
LEMMA StartsWaitedStep ==
  ASSUME HostInv, StartsWaited, Next
  PROVE  StartsWaited'
<1> SUFFICES ASSUME NEW p \in Process, entry'[p].state = "Starting"
             PROVE  /\ launch'[entry'[p].lease] = "waiting"
                    /\ wait'[<<"launch", entry'[p].lease>>][p] = "start"
  BY DEF StartsWaited
<1>1. HostStep(p)
  BY Rows DEF RowsKeep
<1>2. CASE Reserved(p)
  BY <1>2 DEF Reserved, Reserves
<1>3. CASE ~Reserved(p)
  <2> DEFINE l == entry[p].lease
  <2>1. entry[p].state = "Starting" /\ entry'[p].lease = l
    BY <1>1, <1>3, RowChanges
  <2>2. launch[l] = "waiting" /\ wait[<<"launch", l>>][p] = "start"
    BY <2>1 DEF StartsWaited
  <2>3. l \in Lease
    BY <2>1, EntryFields DEF HostInv, Stage
  <2>4. launch'[l] = "waiting"
    <3>1. LeaseStep(l)
      BY <2>3, LeaseSteps
    <3>2. ~Answered(<<"launch", l>>)
      BY <2>2 DEF Answered, Waiting
    <3>3. launch'[l] \in {"waiting", "lost"}
      BY <2>2, <3>1, <3>2 DEF LeaseStep, LaunchMoves
    <3>4. launch'[l] = "lost" => byRun'[l] = None
      BY <2>2, <3>1, <3>2 DEF LeaseStep, LaunchMoves
    <3>5. byRun'[l] = p
      BY <2>1, <2>3, HostStepKeeps DEF HostInv, LeaseBookkeeping, Present
    <3>6. p # None
      BY FleetAssumption DEF FleetAssumption
    <3> QED
      BY <3>3, <3>4, <3>5, <3>6
  <2>5. Hears(<<"launch", l>>, p)
    BY <2>2, <2>3, <2>4, WaitSteps
  <2> QED
    BY <2>1, <2>2, <2>4, <2>5 DEF Hears
<1> QED
  BY <1>2, <1>3

-----------------------------------------------------------------------------
(* One writer of a binding.                                                *)

Guarded == kind \in {"codex", "dsh"}     \* Hosts of another policy retire first

\* What does not let a launch go on to acquire.
Unanswered == {"retire", "stop", "planned", "awaited", "no", "failed", "kept"}

\* A launch that came to acquire has heard of every Host of another policy; until then it
\* waits for each of them.
PolicyRetired ==
    Guarded =>
        \A l \in Lease, p \in Process :
            p \in InScope(ScopeOf[l]) /\ entry[p].policy # policy[l] =>
                /\ launch[l] = "retiring" => wait[<<"launch", l>>][p] \in Unanswered
                /\ launch[l] # "acquiring"

\* What a step does to the policy of a launch and to what it waits for.
PolicyMoves(l) ==
    /\ policy'[l] = policy[l] \/ launch'[l] = "ensuring"
    /\ launch'[l] = "acquiring" =>
         \/ launch[l] = "acquiring"
         \/ /\ launch[l] = "retiring" /\ entry' = entry
            /\ \A p \in Process : wait[<<"launch", l>>][p] \notin Unanswered
    /\ launch'[l] = "retiring" =>
         \/ launch[l] = "retiring"
         \/ /\ launch[l] = "ensuring"
            /\ \A p \in InScope(ScopeOf[l]) : entry[p].policy # policy[l] =>
                   wait'[<<"launch", l>>][p] \in {"retire", "planned", StopWait(p)}

\* Every step does so.
LEMMA PolicySteps ==
  ASSUME HostInv, Next, Guarded, NEW l \in Lease
  PROVE  PolicyMoves(l)
<1>1. /\ TypeOK /\ launch \in [Lease -> Launch] /\ Ensure = "ensuring"
      /\ policy \in [Lease -> Policy \cup {None}] /\ <<"launch", l>> \in Caller
      /\ wait \in [Caller -> [Process -> Wait]]
  BY DEF HostInv, TypeOK, Ensure, Guarded, Caller
<1>2. CASE policy'[l] = policy[l] /\ launch'[l] \in {launch[l], "lost"}
  BY <1>2 DEF PolicyMoves
<1>3. ASSUME NEW k \in Lease, LaunchStep(k)
      PROVE  PolicyMoves(l)
  <2>1. CASE k # l
    <3>1. launch'[l] = launch[l] /\ policy'[l] = policy[l]
      BY <1>1, <1>3, <2>1
      DEF LaunchStep, BeginLaunch, RetireIncompatible, AwaitRetirement, RetirementsAnswered,
          AcquireBlocked, AcquireReuse, RegisterReuse, AcquireReserve, StartAnswered, BindRoute,
          FailLaunch, ReplaceHost, HostReplaced
    <3> QED
      BY <1>2, <3>1
  <2>2. CASE k = l /\ RetireIncompatible(l)
    <3>1. /\ launch'[l] = "retiring" /\ launch[l] = "ensuring" /\ policy' = policy
      BY <1>1, <2>2 DEF RetireIncompatible
    <3>2. ASSUME NEW p \in InScope(ScopeOf[l]), entry[p].policy # policy[l]
          PROVE  wait'[<<"launch", l>>][p] \in {"retire", "planned", StopWait(p)}
      <4>1. p \in Process
        BY DEF InScope, Present
      <4> QED
        BY <1>1, <2>2, <3>2, <4>1 DEF RetireIncompatible
    <3> QED
      BY <3>1, <3>2 DEF PolicyMoves
  <2>3. CASE k = l /\ RetirementsAnswered(l)
    <3>1. /\ launch[l] = "retiring" /\ entry' = entry /\ policy'[l] = policy[l]
          /\ launch'[l] \in {"failed", "acquiring"}
      BY <1>1, <2>3 DEF RetirementsAnswered, fleet
    <3>2. ASSUME launch'[l] = "acquiring", NEW p \in Process
          PROVE  wait[<<"launch", l>>][p] \notin Unanswered
      <4>1. ~Unretired(l) /\ Answered(<<"launch", l>>)
        BY <1>1, <2>3, <3>2 DEF RetirementsAnswered
      <4>2. wait[<<"launch", l>>][p] \notin {"no", "failed", "kept"}
        BY <4>1 DEF Unretired, Answered, Waiting
      <4> QED
        BY <4>1, <4>2 DEF Answered, Waiting, Unanswered
    <3> QED
      BY <3>1, <3>2 DEF PolicyMoves
  <2>6. CASE k = l /\ AwaitRetirement(l)
    BY <2>6 DEF AwaitRetirement, PolicyMoves
  <2>4. CASE k = l /\ BeginLaunch(l)
    <3>1. launch'[l] = "ensuring"
      BY <1>1, <2>4 DEF BeginLaunch
    <3> QED
      BY <3>1 DEF PolicyMoves
  <2>5. CASE /\ k = l /\ ~RetireIncompatible(l) /\ ~AwaitRetirement(l)
             /\ ~RetirementsAnswered(l) /\ ~BeginLaunch(l)
    <3>1. policy' = policy /\ launch'[l] \notin {"acquiring", "retiring"}
      BY <1>1, <1>3, <2>5
      DEF LaunchStep, AcquireBlocked, AcquireReuse, RegisterReuse, AcquireReserve, StartAnswered,
          BindRoute, FailLaunch, ReplaceHost, HostReplaced
    <3> QED
      BY <3>1 DEF PolicyMoves
  <2> QED
    BY <2>1, <2>2, <2>3, <2>4, <2>5, <2>6
<1>4. ASSUME NEW k \in Lease, HandlerStep(k) \/ CleanerStep(k)
      PROVE  policy' = policy /\ launch' = launch
  <2>1. HandlerStep(k) => policy' = policy /\ launch' = launch
    BY DEF HandlerStep, Release, FinishRelease, ReleaseAnswered, RetireRun, callers
  <2>2. CleanerStep(k) => policy' = policy /\ launch' = launch
    BY DEF CleanerStep, ReadLaunch, StopAgentRun, StopDelayed, StopAnswered, StopAfterLaunch,
           Acknowledge
  <2> QED
    BY <1>4, <2>1, <2>2
<1>5. ASSUME NEW q \in Process, StartupStep(q) \/ StopStep(q) \/ ProcessStep(q)
      PROVE  policy' = policy /\ launch' = launch
  <2>1. StartupStep(q) => policy' = policy /\ launch' = launch
    BY DEF StartupStep, StartRefused, FailStart, Spawn, SpawnFails, SpawnReturns, CommitStart,
           AnswerStart, RetireStart, callers
  <2>2. StopStep(q) \/ ProcessStep(q) => policy' = policy /\ launch' = launch
    BY DEF StopStep, StopReaped, StopExpired, CompleteStop, ProcessStep, HostExit, BackgroundTasks,
           CleanupStale, callers
  <2> QED
    BY <1>5, <2>1, <2>2
<1>6. ASSUME NEW c \in Camp, FenceStep(c)
      PROVE  policy' = policy /\ launch' = launch
  BY <1>6 DEF FenceStep, MarkCampDeleting, ForceFence, FenceAnswered, FenceAttachments, callers
<1>7. FleetStep => policy' = policy /\ launch' = launch
  BY DEF FleetStep, Invalidate, SweepIdle, ShutdownAll, ForceKill, callers
<1>8. Crash => policy' = policy /\ launch'[l] \in {launch[l], "lost"}
  BY DEF Crash
<1> QED
  BY <1>2, <1>3, <1>4, <1>5, <1>6, <1>7, <1>8 DEF Next

\* A step keeps the policies apart.
LEMMA PolicyRetiredStep ==
  ASSUME HostInv, LaunchStages, StartsWaited, PolicyRetired, Next
  PROVE  PolicyRetired'
<1>1. kind' = kind
  BY LeaseSteps
<1> SUFFICES ASSUME Guarded, NEW l \in Lease, NEW p \in Process,
                    (p \in InScope(ScopeOf[l]))', entry'[p].policy # policy'[l],
                    launch'[l] \in {"retiring", "acquiring"}
             PROVE  /\ launch'[l] = "retiring" =>
                           wait'[<<"launch", l>>][p] \in Unanswered
                    /\ launch'[l] # "acquiring"
  BY <1>1 DEF PolicyRetired, Guarded
<1>2. PolicyMoves(l) /\ policy'[l] = policy[l]
  BY PolicySteps DEF PolicyMoves
<1>3. InProgress(l) /\ launch[l] # "waiting"
  BY <1>2 DEF PolicyMoves, InProgress
<1>4. HostStep(p) /\ (p \in Present)' /\ entry'[p].scope = ScopeOf[l]
  BY Rows DEF RowsKeep, InScope
<1>5. ~Reserved(p)
  <2> SUFFICES ASSUME Reserved(p)
               PROVE  FALSE
    OBVIOUS
  <2>1. PICK k \in Lease : Reserves(k, p)
    BY DEF Reserved
  <2>2. /\ launch[k] = "acquiring" /\ launch'[k] = "waiting" /\ ScopeOf[k] = ScopeOf[l]
    BY <1>4, <2>1 DEF Reserves
  <2>3. launch[k] # "idle" /\ k \notin acked
    BY <2>2 DEF LaunchStages, InProgress
  <2>4. l = k
    BY <1>3, <2>2, <2>3, LaneAlone
  <2> QED
    BY <2>2, <2>4
<1>6. /\ p \in InScope(ScopeOf[l]) /\ entry[p].policy # policy[l]
  BY <1>2, <1>4, <1>5, RowChanges DEF Identity, InScope
<1>7. /\ launch[l] = "retiring" => wait[<<"launch", l>>][p] \in Unanswered
      /\ launch[l] # "acquiring"
  BY <1>6 DEF PolicyRetired
<1>8. launch'[l] # "acquiring"
  <2>1. p \in Process
    OBVIOUS
  <2> QED
    BY <1>2, <1>7, <2>1 DEF PolicyMoves
<1>9. ASSUME launch'[l] = "retiring", launch[l] = "retiring"
      PROVE  wait'[<<"launch", l>>][p] \in Unanswered
  <2>1. Hears(<<"launch", l>>, p)
    BY <1>9, WaitSteps
  <2>2. entry'[p].state # "removed"
    BY <1>4 DEF Present
  <2> QED
    BY <1>7, <1>9, <2>1, <2>2 DEF Hears, Unanswered
<1>10. ASSUME launch'[l] = "retiring", launch[l] = "ensuring"
       PROVE  wait'[<<"launch", l>>][p] \in Unanswered
  <2>1. wait'[<<"launch", l>>][p] \in {"retire", "planned", StopWait(p)}
    BY <1>2, <1>6, <1>10 DEF PolicyMoves
  <2>2. entry[p].state # "Starting"
    <3> SUFFICES ASSUME entry[p].state = "Starting"
                 PROVE  FALSE
      OBVIOUS
    <3> DEFINE m == entry[p].lease
    <3>1. m \in Lease /\ ScopeOf[m] = entry[p].scope
      BY EntryFields DEF HostInv, Stage
    <3>2. launch[m] = "waiting" /\ ScopeOf[m] = ScopeOf[l]
      BY <1>6, <3>1 DEF StartsWaited, InScope
    <3> HIDE DEF m
    <3>3. launch[m] # "idle" /\ m \notin acked
      BY <3>1, <3>2 DEF LaunchStages, InProgress
    <3>4. l = m
      BY <1>3, <3>1, <3>2, <3>3, LaneAlone
    <3> QED
      BY <1>3, <3>2, <3>4
  <2> QED
    BY <2>1, <2>2 DEF StopWait, Unanswered
<1> QED
  BY <1>2, <1>8, <1>9, <1>10 DEF PolicyMoves

\* Of two Hosts of a Codex binding that are in the table one is dead; of two of a Hermes
\* binding one is not leased; those of a DSH binding have the same policy.
OneWriter ==
    \A p, q \in Present : p # q /\ entry[p].scope = entry[q].scope =>
        /\ Codex => "dead" \in {os[p], os[q]}
        /\ kind = "hermes" => None \in {entry[p].lease, entry[q].lease}
        /\ kind = "dsh" => entry[p].policy = entry[q].policy

\* What a new reservation finds in its binding.
LEMMA ReserveAlone ==
  ASSUME HostInv, LaunchStages, CleanedUp, StartsWaited, PolicyRetired,
         NEW l \in Lease, launch[l] = "acquiring", ~Blocked(l), NEW q \in InScope(ScopeOf[l])
  PROVE  /\ Codex /\ CompatibleIdle(l) = {} => os[q] = "dead"
         /\ kind = "hermes" => entry[q].lease = None
         /\ kind = "dsh" => entry[q].policy = policy[l]
<1>1. /\ q \in Process /\ q \in Present /\ entry[q].scope = ScopeOf[l]
      /\ entry[q].state \in {"Starting", "Busy", "IdleWarm", "Stopping"}
  BY EntryFields DEF InScope, Present, HostInv
<1>2. ASSUME NEW m \in Lease, entry[q].lease = m, m \notin acked
      PROVE  FALSE
  <2>1. ScopeOf[m] = ScopeOf[l]
    BY <1>1, <1>2, FleetAssumption DEF HostInv, Stage, FleetAssumption
  <2>2. byRun[m] = q /\ launch[m] # "idle"
    BY <1>1, <1>2, PresentLaunched
  <2>3. InProgress(l)
    BY DEF InProgress
  <2>4. l = m
    BY <1>2, <2>1, <2>2, <2>3, LaneAlone
  <2>5. q # None
    BY <1>1, FleetAssumption DEF FleetAssumption
  <2> QED
    BY <2>2, <2>4, <2>5 DEF Blocked
<1>3. ASSUME Codex, CompatibleIdle(l) = {}
      PROVE  os[q] = "dead"
  <2>1. entry[q].lease = None
    <3>1. ASSUME NEW m \in Lease, entry[q].lease = m
          PROVE  FALSE
      <4>1. m \notin acked
        <5>1. byRun[m] = q /\ q # None
          BY <1>1, <3>1, PresentLaunched, FleetAssumption DEF FleetAssumption
        <5> QED
          BY <1>3, <5>1 DEF CleanedUp
      <4> QED
        BY <1>2, <3>1, <4>1
    <3> QED
      BY <1>1, <3>1, EntryFields DEF HostInv
  <2>2. entry[q].state = "IdleWarm"
    BY <1>1, <1>3, <2>1 DEF HostInv, Stage, Blocked
  <2>3. entry[q].policy = policy[l]
    BY <1>1, <1>3 DEF PolicyRetired, Guarded, Codex
  <2>4. ~Healthy(q)
    BY <1>1, <1>3, <2>2, <2>3 DEF CompatibleIdle, HostInv, LeaseBookkeeping
  <2> QED
    BY <1>1, <2>2, <2>4, EntryFields DEF Healthy, HostInv, Stage
<1>4. kind = "hermes" => entry[q].lease = None
  BY <1>1 DEF Blocked, HostInv, Stage
<1>5. kind = "dsh" => entry[q].policy = policy[l]
  BY <1>1 DEF PolicyRetired, Guarded
<1> QED
  BY <1>3, <1>4, <1>5


\* A lease that is new in its entry.
Asks(l, p) == /\ launch[l] = "acquiring" /\ ~Blocked(l)
              /\ entry'[p].lease = l /\ entry'[p].scope = ScopeOf[l]

\* What a row says of the Host and its lease.
LEMMA RowWriter ==
  ASSUME HostInv, NEW p \in Process, HostStep(p), (p \in Present)'
  PROVE  /\ p \in InScope(entry'[p].scope) \/ Reserved(p)
         /\ Reserved(p) => os'[p] # "alive"
         /\ ~Reserved(p) => Identity(p) /\ (os[p] = "dead" => os'[p] = "dead")
         /\ \/ ~Reserved(p) /\ entry'[p].lease \in {entry[p].lease, None}
            \/ \E l \in Lease : Asks(l, p)
<1>1. /\ ~Reserved(p) => Identity(p)
      /\ p \in Present \/ Reserved(p)
  BY RowChanges
<1>2. Reserved(p) => os'[p] # "alive"
  BY DEF Reserved, HostInv, Stage
<1>3. ~Reserved(p) => (os[p] = "dead" => os'[p] = "dead")
  BY DEF HostStep, Rests, Taken, Warmed, Marked, Cancelled, Stopped, Spawned, StartMoves,
         Committed, Failed, Unreaped, Reaps, StopMoves, Lost, OnlyEntry, Marks, Present,
         HostInv, Stage, Unborn
<1>4. \/ ~Reserved(p) /\ entry'[p].lease \in {entry[p].lease, None}
      \/ \E l \in Lease : Asks(l, p)
  <2>1. CASE Reserved(p)
    BY <2>1 DEF Reserved, Reserves, Asks
  <2>2. CASE Taken(p)
    BY <2>2 DEF Taken, Takes, Asks, Marks, Identity, CompatibleIdle
  <2>3. CASE ~Reserved(p) /\ ~Taken(p)
    BY <2>3 DEF HostStep, Rests, Warmed, Marked, Cancelled, Stopped, Spawned, StartMoves,
                Committed, Failed, Unreaped, Reaps, StopMoves, Lost, Marks
  <2> QED
    BY <2>1, <2>2, <2>3
<1> QED
  BY <1>1, <1>2, <1>3, <1>4 DEF InScope, Identity

\* One launch of a binding asks for a Host at a time.
LEMMA OneAsks ==
  ASSUME HostInv', LaunchStages, NEW p \in Process, NEW q \in Process,
         (p \in Present)', (q \in Present)', entry'[p].scope = entry'[q].scope,
         NEW l \in Lease, NEW k \in Lease, Asks(l, p), Asks(k, q)
  PROVE  p = q
<1>1. ScopeOf[l] = ScopeOf[k] /\ InProgress(l) /\ InProgress(k)
  BY DEF Asks, InProgress
<1>2. launch[k] # "idle" /\ k \notin acked
  BY <1>1 DEF LaunchStages, InProgress
<1>3. l = k
  BY <1>1, <1>2, LaneAlone
<1>4. byRun'[l] = p /\ byRun'[l] = q
  BY <1>3 DEF Asks, HostInv, LeaseBookkeeping
<1> QED
  BY <1>4

\* What a Host of a binding is to another one that a launch asks for.
LEMMA AsksAlone ==
  ASSUME HostInv, LaunchStages, CleanedUp, StartsWaited, PolicyRetired, HostInv',
         NEW p \in Process, NEW q \in Process, p # q, HostStep(p), HostStep(q),
         (p \in Present)', (q \in Present)', entry'[p].scope = entry'[q].scope
  PROVE  /\ Reserved(p) /\ Codex => os'[q] = "dead"
         /\ Reserved(p) /\ kind = "dsh" => entry'[p].policy = entry'[q].policy
         /\ kind = "hermes" /\ (\E l \in Lease : Asks(l, p)) => entry'[q].lease = None
<1>1. ASSUME NEW l \in Lease, Asks(l, p)
      PROVE  /\ ~Reserved(q) /\ entry'[q].lease \in {entry[q].lease, None}
             /\ q \in InScope(ScopeOf[l])
  <2>1. ~\E k \in Lease : Asks(k, q)
    BY <1>1, OneAsks
  <2> QED
    BY <1>1, <2>1, RowWriter DEF Asks
<1>2. ASSUME Reserved(p)
      PROVE  /\ Codex => os'[q] = "dead"
             /\ kind = "dsh" => entry'[p].policy = entry'[q].policy
  <2>1. PICK l \in Lease : Reserves(l, p)
    BY <1>2 DEF Reserved
  <2>2. Asks(l, p) /\ entry'[p].policy = policy[l] /\ CompatibleIdle(l) = {}
    BY <2>1 DEF Reserves, Asks
  <2>3. ~Reserved(q) /\ q \in InScope(ScopeOf[l])
    BY <1>1, <2>2
  <2>4. /\ Codex => os[q] = "dead"
        /\ kind = "dsh" => entry[q].policy = policy[l]
    BY <2>2, <2>3, ReserveAlone DEF Asks
  <2>5. Identity(q) /\ (os[q] = "dead" => os'[q] = "dead")
    BY <2>3, RowWriter
  <2> QED
    BY <2>2, <2>4, <2>5 DEF Identity
<1>3. ASSUME kind = "hermes", NEW l \in Lease, Asks(l, p)
      PROVE  entry'[q].lease = None
  <2>1. entry'[q].lease \in {entry[q].lease, None} /\ q \in InScope(ScopeOf[l])
    BY <1>1, <1>3
  <2>2. entry[q].state = "IdleWarm"
    BY <1>3, <2>1 DEF Asks, Blocked
  <2> QED
    BY <2>1, <2>2 DEF HostInv, Stage
<1> QED
  BY <1>2, <1>3

\* A step gives no binding a second writer.
LEMMA OneWriterStep ==
  ASSUME HostInv, LaunchStages, CleanedUp, StartsWaited, PolicyRetired, OneWriter, Next
  PROVE  OneWriter'
<1>1. HostInv' /\ kind' = kind /\ Codex' = Codex
  BY HostStepKeeps, LeaseSteps DEF Codex
<1> SUFFICES ASSUME NEW p \in Process, NEW q \in Process, p # q,
                    (p \in Present)', (q \in Present)', entry'[p].scope = entry'[q].scope
             PROVE  /\ Codex => "dead" \in {os'[p], os'[q]}
                    /\ kind = "hermes" => None \in {entry'[p].lease, entry'[q].lease}
                    /\ kind = "dsh" => entry'[p].policy = entry'[q].policy
  BY <1>1 DEF OneWriter, Present
<1>2. HostStep(p) /\ HostStep(q)
  BY Rows DEF RowsKeep
<1>3. /\ Reserved(p) /\ Codex => os'[q] = "dead"
      /\ Reserved(p) /\ kind = "dsh" => entry'[p].policy = entry'[q].policy
      /\ kind = "hermes" /\ (\E l \in Lease : Asks(l, p)) => entry'[q].lease = None
  BY <1>1, <1>2, AsksAlone
<1>4. /\ Reserved(q) /\ Codex => os'[p] = "dead"
      /\ Reserved(q) /\ kind = "dsh" => entry'[p].policy = entry'[q].policy
      /\ kind = "hermes" /\ (\E l \in Lease : Asks(l, q)) => entry'[p].lease = None
  BY <1>1, <1>2, AsksAlone
<1>5. /\ p \in InScope(entry'[p].scope) \/ Reserved(p)
      /\ q \in InScope(entry'[q].scope) \/ Reserved(q)
      /\ ~Reserved(p) => Identity(p) /\ (os[p] = "dead" => os'[p] = "dead")
      /\ ~Reserved(q) => Identity(q) /\ (os[q] = "dead" => os'[q] = "dead")
      /\ \/ ~Reserved(p) /\ entry'[p].lease \in {entry[p].lease, None}
         \/ \E l \in Lease : Asks(l, p)
      /\ \/ ~Reserved(q) /\ entry'[q].lease \in {entry[q].lease, None}
         \/ \E l \in Lease : Asks(l, q)
  BY <1>2, RowWriter
<1>6. ASSUME ~Reserved(p), ~Reserved(q)
      PROVE  /\ Codex => "dead" \in {os[p], os[q]}
             /\ kind = "hermes" => None \in {entry[p].lease, entry[q].lease}
             /\ kind = "dsh" => entry[p].policy = entry[q].policy
  <2>1. p \in Present /\ q \in Present /\ entry[p].scope = entry[q].scope
    BY <1>5, <1>6 DEF InScope
  <2> QED
    BY <2>1 DEF OneWriter
<1>7. Codex => "dead" \in {os'[p], os'[q]}
  BY <1>3, <1>4, <1>5, <1>6
<1>8. kind = "hermes" => None \in {entry'[p].lease, entry'[q].lease}
  BY <1>3, <1>4, <1>5, <1>6
<1>9. kind = "dsh" => entry'[p].policy = entry'[q].policy
  BY <1>3, <1>4, <1>5, <1>6 DEF Identity
<1> QED
  BY <1>7, <1>8, <1>9

\* Without a crash the living processes are in the table.
LEMMA SingleWriterFollows ==
  ASSUME HostInv, Reaped, OneWriter
  PROVE  SingleWriter
<1> SUFFICES ASSUME restarts = 0, NEW p \in Process, NEW q \in Process, p # q,
                    os[p] = "alive", os[q] = "alive", entry[p].scope = entry[q].scope
             PROVE  /\ ~Codex
                    /\ kind = "hermes" => None \in {entry[p].lease, entry[q].lease}
                    /\ kind = "dsh" => entry[p].policy = entry[q].policy
  BY DEF SingleWriter
<1>1. p \in Present /\ q \in Present
  BY DEF HostInv, Stage, Reaped, Present
<1> QED
  BY <1>1 DEF OneWriter

-----------------------------------------------------------------------------
(* The inductive invariant of the bindings.                                *)

WriterInv == CleanupInv /\ StartsWaited /\ PolicyRetired /\ OneWriter

\* It holds at the start.
LEMMA WriterInit ==
  ASSUME Init
  PROVE  WriterInv
<1>1. \A p \in Process : entry[p].state = "absent"
  BY DEF Init, Absent
<1>2. Present = {} /\ CleanupInv
  BY <1>1, CleanupInit DEF Present
<1>3. StartsWaited
  BY <1>1 DEF Init, StartsWaited
<1>4. PolicyRetired /\ OneWriter
  BY <1>2 DEF PolicyRetired, OneWriter, InScope
<1> QED
  BY <1>2, <1>3, <1>4 DEF WriterInv

\* It is kept.
LEMMA WriterKept ==
  ASSUME WriterInv, [Next]_vars
  PROVE  WriterInv'
<1>1. CASE Next
  <2>1. CleanupInv'
    BY CleanupKept DEF WriterInv
  <2> QED
    BY <1>1, <2>1, StartsWaitedStep, PolicyRetiredStep, OneWriterStep DEF WriterInv, CleanupInv
<1>2. CASE UNCHANGED vars
  <2>1. CleanupInv'
    BY CleanupKept DEF WriterInv
  <2>2. StartsWaited' /\ PolicyRetired' /\ OneWriter'
    BY <1>2 DEF WriterInv, StartsWaited, PolicyRetired, OneWriter, Guarded, InScope, Present, Codex,
                vars, fleet, outside, callers
  <2> QED
    BY <2>1, <2>2 DEF WriterInv
<1> QED
  BY <1>1, <1>2

\* The inductive invariant of the bindings holds always.
THEOREM WriterInvHolds == Spec => []WriterInv
BY WriterInit, WriterKept, PTL DEF Spec

\* One native session has one writer: a Codex binding has one live process at most, one live
\* process of a Hermes binding is leased at most, and those of a DSH binding were started with
\* the same policy, whatever retires, is evicted, expires or is replaced (plan_acquire and
\* retire_incompatible_hosts).
THEOREM SingleWriterHolds == Spec => []SingleWriter
<1>1. WriterInv => SingleWriter
  BY SingleWriterFollows DEF WriterInv, CleanupInv
<1> QED
  BY <1>1, WriterInvHolds, PTL

-----------------------------------------------------------------------------
(* The resident capacity: what a step does to it.                          *)

Pending == {"evicting", "denied"}        \* starts that hold the capacity of another Host

\* The terminal handler is giving it back.
GivenBack(p) == \E l \in Lease : handler[l] = "checking" /\ byRun[l] = p

\* What counts for the capacity stays as it is, or is given up.
Calm(p) ==
    /\ Identity(p)
    /\ (p \in Present)' <=> p \in Present
    /\ \/ stop'[p] = stop[p]
       \/ stop[p] \in {"none", "over"} /\ stop'[p] \in {"planned", "reaping"}
       \/ stop[p] = "planned" /\ stop'[p] = "reaping"
    /\ \/ startup'[p] = startup[p]
       \/ startup[p] \notin Pending /\ startup'[p] \notin Pending
    /\ entry[p].state \in {"Stopping", "removed"} => entry'[p].state \in {"Stopping", "removed"}
    /\ entry'[p].state = "IdleWarm" => entry[p].state = "IdleWarm" \/ GivenBack(p)

\* Most rows are calm.
LEMMA CalmRows ==
  ASSUME HostInv, NEW p \in Process,
         \/ Rests(p) \/ Taken(p) \/ Marked(p) \/ Cancelled(p) \/ Stopped(p)
         \/ Warmed(p) /\ GivenBack(p)
         \/ StartMoves(p) /\ startup[p] # "evicting"
         \/ Spawned(p) \/ Committed(p) \/ Unreaped(p)
  PROVE  Calm(p)
<1>1. CASE Rests(p)
  BY <1>1 DEF Rests, Calm, Identity, Present
<1>2. CASE Spawned(p) \/ (StartMoves(p) /\ startup[p] # "evicting")
  BY <1>2 DEF Spawned, StartMoves, Calm, Identity, Present, Pending
<1>3. CASE Taken(p)
  BY <1>3 DEF Taken, Takes, OnlyEntry, Marks, Calm, Present
<1>4. CASE (Warmed(p) /\ GivenBack(p)) \/ Marked(p) \/ Cancelled(p)
  BY <1>4 DEF Warmed, Marked, Cancelled, OnlyEntry, Marks, Calm, Present
<1>5. CASE Stopped(p)
  <2>1. stop[p] \in StopTask /\ stop[p] # "removed"
    BY <1>5, EntryFields DEF HostInv, Stage, Stopped
  <2>2. \/ stop'[p] = stop[p]
        \/ stop[p] \in {"none", "over"} /\ stop'[p] \in {"planned", "reaping"}
    BY <1>5, <2>1 DEF Stopped, Launches, Unfinished, HostInv, Stage, StopTask
  <2> QED
    BY <1>5, <2>2 DEF Stopped, Marks, Calm, Present
<1>6. CASE Committed(p) \/ Unreaped(p)
  <2>1. entry[p].state = "Starting"
    BY <1>6 DEF Committed, Unreaped, HostInv, Stage, Unsettled
  <2> QED
    BY <1>6, <2>1 DEF Committed, Unreaped, Marks, Calm, Present, Pending
<1> QED
  BY <1>1, <1>2, <1>3, <1>4, <1>5, <1>6

\* An action that leaves the table and the tasks alone.
LEMMA CalmRest ==
  ASSUME UNCHANGED <<entry, startup, stop>>
  PROVE  \A p \in Process : Calm(p)
BY DEF Calm, Identity, Present

\* Nothing of the capacity is taken.
Quiet == residents' = residents /\ \A p \in Process : Calm(p)

\* A Host leaves the table.
Gone(p) ==
    /\ p \in Present /\ entry'[p].state = "removed" /\ residents' = residents \ {p} /\ Identity(p)
    /\ startup[p] # "evicting" /\ startup'[p] \notin Pending
    /\ \/ stop'[p] = stop[p]
       \/ stop[p] = "reaping" /\ stop'[p] = "removed"
    /\ \A q \in Process \ {p} : Calm(q)

\* Stops and retirements are quiet.
LEMMA QuietStops ==
  ASSUME HostInv, NEW P \in SUBSET Present,
         PlanStop(P) \/ \E how \in {"planned", "reaping"} : RetireHosts(P, how),
         UNCHANGED <<startup, os, residents>>
  PROVE  Quiet
<1>1. CASE PlanStop(P)
  <2>1. \A p \in Process : Cancelled(p) \/ Stopped(p) \/ Rests(p)
    BY <1>1, PlanStopRows
  <2> QED
    BY <2>1, CalmRows DEF Quiet
<1>2. CASE \E how \in {"planned", "reaping"} : RetireHosts(P, how)
  <2>1. \A p \in Process : Marked(p) \/ Cancelled(p) \/ Stopped(p) \/ Rests(p)
    BY <1>2, RetireRows
  <2> QED
    BY <2>1, CalmRows DEF Quiet
<1> QED
  BY <1>1, <1>2

\* The launch task takes capacity only with a new reservation.
LEMMA LaunchCapacity ==
  ASSUME HostInv, NEW l \in Lease, LaunchStep(l)
  PROVE  Quiet \/ \E p \in Process : AcquireReserve(l, p)
<1>1. CASE UNCHANGED <<entry, startup, stop, residents>>
  BY <1>1, CalmRest DEF Quiet
<1>2. CASE RetireIncompatible(l)
  <2>1. startup' = startup /\ os' = os /\ residents' = residents
    BY <1>2 DEF RetireIncompatible, outside
  <2> QED
    BY <1>2, <2>1, RetiresOld, QuietStops
<1>5. CASE AwaitRetirement(l)
  <2>1. UNCHANGED <<entry, startup, residents>>
    BY <1>5 DEF AwaitRetirement, fleet
  <2>2. \A p \in Process : stop'[p] = stop[p] \/ (stop[p] = "planned" /\ stop'[p] = "reaping")
    BY <1>5 DEF AwaitRetirement, HostInv, Plans, TypeOK
  <2> QED
    BY <2>1, <2>2 DEF Quiet, Calm, Identity, Present
<1>3. CASE AcquireReuse(l)
  <2>1. \A q \in Process : Rests(q) \/ Taken(q)
    <3>1. PICK p \in CompatibleIdle(l) : Takes(l, p) /\ \A q \in Process \ {p} : Rests(q)
      BY <1>3, AcquireReuseRows
    <3>2. startup' = startup /\ stop' = stop /\ os' = os
      BY <1>3 DEF AcquireReuse, tasks, outside
    <3>3. entry[p].state = "IdleWarm"
      BY DEF CompatibleIdle
    <3> QED
      BY <3>1, <3>2, <3>3 DEF Taken, OnlyEntry
  <2>2. residents' = residents
    BY <1>3 DEF AcquireReuse
  <2> QED
    BY <2>1, <2>2, CalmRows DEF Quiet
<1>4. CASE ReplaceHost(l)
  <2>1. startup' = startup /\ os' = os /\ residents' = residents
    BY <1>4 DEF ReplaceHost, outside
  <2>2. CASE byRun[l] = None
    BY <1>1, <1>4, <2>1, <2>2 DEF ReplaceHost
  <2>3. CASE byRun[l] # None
    <3>1. PlanStop({byRun[l]}) /\ {byRun[l]} \subseteq Present
      BY <1>4, <2>3, LeasedPresent DEF ReplaceHost
    <3> QED
      BY <2>1, <3>1, QuietStops
  <2> QED
    BY <2>2, <2>3
<1> QED
  BY <1>1, <1>2, <1>3, <1>4, <1>5
  DEF LaunchStep, BeginLaunch, RetirementsAnswered, AcquireBlocked, RegisterReuse, StartAnswered,
      BindRoute, FailLaunch, HostReplaced, fleet, tasks

\* The terminal handler and the cleanup worker take none.
LEMMA ReleaseCapacity ==
  ASSUME HostInv, NEW l \in Lease, HandlerStep(l) \/ CleanerStep(l)
  PROVE  Quiet
<1>1. CASE UNCHANGED <<entry, startup, stop, residents>>
  BY <1>1, CalmRest DEF Quiet
<1>2. CASE byRun[l] # None /\ PlanStop({byRun[l]}) /\ UNCHANGED <<startup, os, residents>>
  <2>1. {byRun[l]} \subseteq Present
    BY <1>2, LeasedPresent
  <2> QED
    BY <1>2, <2>1, QuietStops
<1>3. ASSUME NEW d, Release(l, d)
      PROVE  Quiet
  BY <1>1, <1>2, <1>3 DEF Release, outside
<1>4. ASSUME NEW q, FinishRelease(l, q)
      PROVE  Quiet
  <2>1. UNCHANGED <<startup, os, residents>>
    BY <1>4 DEF FinishRelease, outside
  <2>2. CASE Warmed(byRun[l]) /\ \A p \in Process \ {byRun[l]} : Rests(p)
    <3>1. GivenBack(byRun[l])
      BY <1>4 DEF FinishRelease, GivenBack
    <3> QED
      BY <2>1, <2>2, <3>1, CalmRows DEF Quiet
  <2>3. CASE byRun[l] # None /\ PlanStop({byRun[l]})
    BY <1>2, <2>1, <2>3
  <2>4. CASE byRun[l] = None
    BY <1>1, <1>4, <2>1, <2>4 DEF FinishRelease
  <2> QED
    BY <1>4, <2>2, <2>3, <2>4, FinishReleaseRows
<1>5. CASE RetireRun(l)
  <2>1. residents' = residents
    BY <1>5 DEF RetireRun
  <2>2. Marked(byRun[l]) /\ \A q \in Process \ {byRun[l]} : Rests(q)
    BY <1>5, RetireRunRows
  <2> QED
    BY <2>1, <2>2, CalmRows DEF Quiet
<1>6. CASE StopAgentRun(l)
  <2>1. residents' = residents /\ startup' = startup
    BY <1>6 DEF StopAgentRun
  <2>2. CASE byRun[l] = None
    BY <1>1, <1>6, <2>1, <2>2 DEF StopAgentRun
  <2>3. CASE byRun[l] # None
    <3>1. /\ Cancelled(byRun[l]) \/ Stopped(byRun[l])
          /\ \A q \in Process \ {byRun[l]} : Rests(q)
      BY <1>6, <2>3, StopAgentRunRows
    <3> QED
      BY <2>1, <3>1, CalmRows DEF Quiet
  <2> QED
    BY <2>2, <2>3
<1>7. HandlerStep(l) => Quiet
  BY <1>1, <1>3, <1>4, <1>5 DEF HandlerStep, ReleaseAnswered, fleet, tasks
<1>8. CleanerStep(l) => Quiet
  BY <1>1, <1>6 DEF CleanerStep, ReadLaunch, StopDelayed, StopAnswered, StopAfterLaunch,
                    Acknowledge, fleet, tasks
<1> QED
  BY <1>7, <1>8

\* The start of a Host gives its capacity back when it fails; so does the end of a process.
LEMMA ProcessCapacity ==
  ASSUME HostInv, NEW p \in Process, StartupStep(p) \/ StopStep(p) \/ ProcessStep(p)
  PROVE  Quiet \/ Gone(p) \/ StopExpired(p) \/ CompleteStop(p)
<1>1. CASE UNCHANGED <<entry, startup, stop, residents>>
  BY <1>1, CalmRest DEF Quiet
<1>2. ASSUME p \in Present, Remove(p), startup[p] # "evicting", startup'[p] \notin Pending,
             \/ stop'[p] = stop[p]
             \/ stop[p] = "reaping" /\ stop'[p] = "removed",
             \A q \in Process \ {p} : Rests(q)
      PROVE  Gone(p)
  <2>1. \A q \in Process \ {p} : Calm(q)
    BY <1>2, CalmRows
  <2>2. residents' = residents \ {p} /\ Identity(p) /\ entry'[p].state = "removed"
    BY <1>2, RemoveFields DEF Marks
  <2> QED
    BY <1>2, <2>1, <2>2 DEF Gone
<1>3. CASE StartRefused(p) \/ SpawnFails(p)
  <2>1. p \in Present /\ Failed(p) /\ Remove(p) /\ \A q \in Process \ {p} : Rests(q)
    BY <1>3, StartRefusedRows, SpawnFailsRows
  <2>2. startup[p] # "evicting"
    BY <1>3 DEF StartRefused, SpawnFails
  <2> QED
    BY <1>2, <2>1, <2>2 DEF Failed, Pending
<1>4. CASE StopReaped(p)
  <2>1. p \in Present /\ Reaps(p) /\ Remove(p) /\ \A q \in Process \ {p} : Rests(q)
    BY <1>4, StopReapedRows
  <2>2. startup[p] \notin Pending
    BY <2>1 DEF Reaps, HostInv, Stage, Unsettled, Unborn, Pending
  <2> QED
    BY <1>2, <2>1, <2>2 DEF Reaps, Pending
<1>5. ASSUME NEW b \in BOOLEAN, RetireStart(p, b)
      PROVE  Quiet \/ Gone(p)
  <2>1. /\ p \in Present /\ startup[p] = "retiring"
        /\ \/ b /\ Failed(p) /\ Remove(p) /\ os'[p] = "dead"
           \/ ~b /\ Unreaped(p)
        /\ \A q \in Process \ {p} : Rests(q)
    BY <1>5, RetireStartRows
  <2>2. CASE b
    BY <1>2, <2>1, <2>2 DEF Failed, Pending
  <2>3. CASE ~b
    <3>1. residents' = residents
      BY <1>5, <2>3 DEF RetireStart
    <3> QED
      BY <2>1, <2>3, <3>1, CalmRows DEF Quiet
  <2> QED
    BY <2>2, <2>3
<1>6. CASE Spawn(p)
  BY <1>6, SpawnRows, CalmRows DEF Quiet, Spawn, fleet
<1>7. ASSUME NEW b \in BOOLEAN, SpawnReturns(p, b)
      PROVE  Quiet
  <2>1. /\ entry' = entry /\ os' = os /\ residents' = residents /\ stop' = stop
        /\ startup[p] = "spawning" /\ startup'[p] \in {"spawned", "retiring"}
        /\ \A q \in Process \ {p} : Rests(q)
    BY <1>7, SpawnReturnsRows DEF SpawnReturns, fleet
  <2>2. StartMoves(p)
    BY <2>1 DEF StartMoves
  <2> QED
    BY <2>1, <2>2, CalmRows DEF Quiet
<1>8. CASE CommitStart(p)
  <2>1. /\ Committed(p) \/ StartMoves(p)
        /\ \A q \in Process \ {p} : Rests(q)
    BY <1>8, CommitStartRows
  <2>2. residents' = residents /\ startup[p] = "spawned"
    BY <1>8 DEF CommitStart
  <2> QED
    BY <2>1, <2>2, CalmRows DEF Quiet
<1>9. CASE AnswerStart(p)
  <2>1. \A q \in Process : startup'[q] = startup[q]
                           \/ (startup[q] = "committed" /\ startup'[q] = "over")
    BY <1>9 DEF AnswerStart, HostInv, TypeOK
  <2>2. UNCHANGED <<entry, stop, residents>>
    BY <1>9 DEF AnswerStart, fleet
  <2> QED
    BY <2>1, <2>2 DEF Quiet, Calm, Identity, Present, Pending
<1> QED
  BY <1>1, <1>3, <1>4, <1>5, <1>6, <1>7, <1>8, <1>9
  DEF StartupStep, StopStep, ProcessStep, HostExit, BackgroundTasks, CleanupStale, fleet, tasks

\* Fences and the steps of the whole fleet take none.
LEMMA FleetCapacity ==
  ASSUME HostInv, FleetStep \/ \E c \in Camp : FenceStep(c)
  PROVE  Quiet
<1>1. CASE UNCHANGED <<entry, startup, stop, residents>>
  BY <1>1, CalmRest DEF Quiet
<1>2. ASSUME NEW P \in SUBSET Present, Halts(P), residents' = residents
      PROVE  Quiet
  BY <1>2, QuietStops DEF Halts
<1>3. ASSUME NEW c \in Camp, FenceStep(c)
      PROVE  Quiet
  <2>1. CASE FenceAnswered(c)
    BY <1>1, <2>1 DEF FenceAnswered, fleet, tasks
  <2>2. CASE MarkCampDeleting(c) \/ ForceFence(c) \/ FenceAttachments(c)
    <3>1. residents' = residents /\ InCamp(c) \subseteq Present
      BY <2>2 DEF MarkCampDeleting, ForceFence, FenceAttachments, InCamp
    <3> QED
      BY <1>2, <2>2, <3>1, FenceRows
  <2> QED
    BY <1>3, <2>1, <2>2 DEF FenceStep
<1>4. ASSUME NEW P \in Matching, Invalidate(P)
      PROVE  Quiet
  <2>1. P \subseteq Present
    BY <1>4, InvalidateRows
  <2>2. RetireHosts(P, "reaping") /\ startup' = startup /\ os' = os /\ residents' = residents
    BY <1>4 DEF Invalidate, outside, RetireHosts, BusyOf
  <2> QED
    BY <2>1, <2>2, QuietStops
<1>5. ASSUME NEW expired \in SUBSET idleLru, SweepIdle(expired)
      PROVE  Quiet
  BY <1>2, <1>5, SweepRows DEF SweepIdle
<1>6. CASE ShutdownAll
  BY <1>2, <1>6, ShutdownRows DEF ShutdownAll
<1> QED
  BY <1>1, <1>3, <1>4, <1>5, <1>6 DEF FleetStep, ForceKill, fleet, tasks

\* What a step does to the capacity.
LEMMA CapacitySteps ==
  ASSUME HostInv, Next
  PROVE  \/ Quiet
         \/ \E l \in Lease, p \in Process : AcquireReserve(l, p)
         \/ \E p \in Process : Gone(p) \/ StopExpired(p) \/ CompleteStop(p)
         \/ Crash
BY LaunchCapacity, ReleaseCapacity, ProcessCapacity, FleetCapacity DEF Next

\* A reservation within the capacity, in the place of an idle Host, or as a burst.
Fits(l, p) ==
    /\ HasResidentCapacity(MemberOf[ScopeOf[l]])
    /\ residents' = residents \cup {p} /\ startup'[p] = "begin" /\ entry'[p].resident
    /\ \A q \in Process \ {p} : Calm(q)
Evicting(l, p, v) ==
    /\ v \in Evictable(MemberOf[ScopeOf[l]]) /\ ~HasResidentCapacity(MemberOf[ScopeOf[l]])
    /\ residents' = (residents \ {v}) \cup {p} /\ startup'[p] = "evicting" /\ entry'[p].resident
    /\ entry'[p].evicts = v /\ entry'[v].state = "Stopping" /\ stop'[v] = "reaping"
    /\ \A q \in Process \ {p} : Calm(q)
Bursts(p) ==
    /\ residents' = residents /\ startup'[p] = "begin" /\ entry'[p].resident = FALSE
    /\ \A q \in Process \ {p} : Calm(q)

\* A new reservation is one of these.
LEMMA ReserveCapacity ==
  ASSUME HostInv, NEW l \in Lease, NEW p \in Process, AcquireReserve(l, p)
  PROVE  /\ entry[p].state = "absent" /\ startup[p] = "none"
         /\ stop[p] = "none" /\ stop'[p] = "none"
         /\ entry'[p].state = "Starting" /\ entry'[p].scope = ScopeOf[l]
         /\ Fits(l, p) \/ Bursts(p) \/ \E v \in Process \ {p} : Evicting(l, p, v)
<1>1. /\ entry[p].state = "absent" /\ Reserves(l, p)
      /\ \A q \in Process \ {p} : Rests(q) \/ Stopped(q)
  BY AcquireReserveRows
<1>2. /\ entry \in [Process -> ProcessEntry] /\ startup \in [Process -> Startup]
      /\ stop \in [Process -> StopTask] /\ idleLru \subseteq Process
      /\ idleLru = {q \in Process : entry[q].state = "IdleWarm"}
  BY DEF HostInv, TypeOK, LeaseBookkeeping
<1>3. startup[p] = "none" /\ stop[p] = "none"
  BY <1>1 DEF HostInv, Stage
<1>4. \A q \in Process \ {p} : Calm(q)
  BY <1>1, CalmRows
<1>5. ASSUME NEW r \in BOOLEAN, NEW v, entry'[p] = Reservation(l, r, v)
      PROVE  entry'[p].resident = r /\ entry'[p].evicts = v
  BY <1>5 DEF Reservation
<1>6. entry'[p].state = "Starting" /\ entry'[p].scope = ScopeOf[l]
  BY <1>1 DEF Reserves
<1>7. CASE /\ HasResidentCapacity(MemberOf[ScopeOf[l]])
           /\ entry' = [entry EXCEPT ![p] = Reservation(l, TRUE, None)]
           /\ residents' = residents \cup {p}
           /\ startup' = [startup EXCEPT ![p] = "begin"] /\ stop' = stop
  <2>1. entry'[p] = Reservation(l, TRUE, None) /\ startup'[p] = "begin"
    BY <1>2, <1>7
  <2> QED
    BY <1>1, <1>3, <1>4, <1>5, <1>6, <1>7, <2>1 DEF Fits
<1>8. CASE /\ entry' = [entry EXCEPT ![p] = Reservation(l, FALSE, None)] /\ residents' = residents
           /\ startup' = [startup EXCEPT ![p] = "begin"] /\ stop' = stop
  <2>1. entry'[p] = Reservation(l, FALSE, None) /\ startup'[p] = "begin"
    BY <1>2, <1>8
  <2> QED
    BY <1>1, <1>3, <1>4, <1>5, <1>6, <1>8, <2>1 DEF Bursts
<1>9. ASSUME NEW v \in Evictable(MemberOf[ScopeOf[l]]),
             ~HasResidentCapacity(MemberOf[ScopeOf[l]]),
             entry' = [entry EXCEPT ![p] = Reservation(l, TRUE, v), ![v].state = "Stopping"],
             residents' = (residents \ {v}) \cup {p},
             stop' = [stop EXCEPT ![v] = "reaping"], startup' = [startup EXCEPT ![p] = "evicting"]
      PROVE  v \in Process \ {p} /\ Evicting(l, p, v) /\ stop'[p] = "none"
  <2>1. v \in Process \ {p}
    BY <1>1, <1>2 DEF Evictable, OfMember
  <2>2. entry'[p] = Reservation(l, TRUE, v) /\ startup'[p] = "evicting" /\ stop'[v] = "reaping"
        /\ stop'[p] = "none"
    BY <1>2, <1>3, <1>9, <2>1
  <2>3. entry'[v].state = "Stopping"
    <3>1. entry[v] \in ProcessEntry /\ entry'[v] = [entry[v] EXCEPT !.state = "Stopping"]
      BY <1>2, <1>9, <2>1
    <3> QED
      BY <3>1 DEF ProcessEntry
  <2> QED
    BY <1>4, <1>5, <1>9, <2>1, <2>2, <2>3 DEF Evicting
<1>10. CASE \E v \in Evictable(MemberOf[ScopeOf[l]]) :
              /\ ~HasResidentCapacity(MemberOf[ScopeOf[l]])
              /\ entry' = [entry EXCEPT ![p] = Reservation(l, TRUE, v), ![v].state = "Stopping"]
              /\ residents' = (residents \ {v}) \cup {p}
              /\ stop' = [stop EXCEPT ![v] = "reaping"]
              /\ startup' = [startup EXCEPT ![p] = "evicting"]
  BY <1>1, <1>3, <1>6, <1>9, <1>10
<1> QED
  BY <1>7, <1>8, <1>10 DEF AcquireReserve

-----------------------------------------------------------------------------
(* The table of the residents.                                             *)

\* Every resident Host counts, itself or as the Host that a start evicts.
ResidentTable ==
    /\ residents \subseteq Present /\ IsFiniteSet(residents)
    /\ \A p \in residents : entry[p].resident
    /\ \A p \in Process : startup[p] \in Pending =>
          /\ p \in residents /\ entry[p].evicts \in Process
          /\ entry[entry[p].evicts].state \in {"Stopping", "removed"}
    /\ \A p, q \in Process :
          startup[p] \in Pending /\ startup[q] \in Pending /\ entry[p].evicts = entry[q].evicts
          => p = q
    /\ \A p \in Process : startup[p] = "evicting" =>
          /\ stop[entry[p].evicts] \in {"reaping", "removed", "expired"}
          /\ stop[entry[p].evicts] # "expired" => entry[p].evicts \notin residents
    /\ \A p \in Present : entry[p].resident =>
          \/ p \in residents
          \/ \E q \in Process : startup[q] = "evicting" /\ entry[q].evicts = p
                               /\ stop[p] = "reaping"

\* Its parts, one by one.
LEMMA TableParts ==
  ASSUME HostInv, ResidentTable, NEW p \in Process
  PROVE  /\ p \in residents => p \in Present /\ entry[p].resident
         /\ startup[p] \in Pending =>
              /\ p \in residents /\ entry[p].evicts \in Process /\ entry[p].evicts # p
              /\ entry[entry[p].evicts].state \in {"Stopping", "removed"}
              /\ \A q \in Process :
                    startup[q] \in Pending /\ entry[p].evicts = entry[q].evicts => p = q
         /\ startup[p] = "evicting" =>
              /\ stop[entry[p].evicts] \in {"reaping", "removed", "expired"}
              /\ stop[entry[p].evicts] # "expired" => entry[p].evicts \notin residents
         /\ p \in Present /\ entry[p].resident =>
              \/ p \in residents
              \/ \E q \in Process : startup[q] = "evicting" /\ entry[q].evicts = p
                                    /\ stop[p] = "reaping"
         /\ startup[p] \in Pending => entry[p].state = "Starting"
<1>1. startup[p] \in Pending => entry[p].state = "Starting"
  BY DEF HostInv, Stage, Pending, Unsettled, Unborn
<1>2. startup[p] \in Pending => entry[p].evicts # p
  BY <1>1 DEF ResidentTable
<1> QED
  BY <1>1, <1>2 DEF ResidentTable

\* A quiet step keeps it.
LEMMA QuietTable ==
  ASSUME HostInv, ResidentTable, Quiet
  PROVE  ResidentTable'
<1>1. residents' = residents
  BY DEF Quiet
<1>2. ASSUME NEW p \in Process
      PROVE  /\ entry'[p].resident = entry[p].resident /\ entry'[p].evicts = entry[p].evicts
             /\ (p \in Present)' <=> p \in Present
             /\ \/ startup'[p] = startup[p]
                \/ startup[p] \notin Pending /\ startup'[p] \notin Pending
             /\ stop[p] \in {"reaping", "removed", "expired"} => stop'[p] = stop[p]
             /\ entry[p].state \in {"Stopping", "removed"} =>
                    entry'[p].state \in {"Stopping", "removed"}
  BY DEF Quiet, Calm, Identity
<1>3. residents' \subseteq Present' /\ IsFiniteSet(residents')
  BY <1>1, <1>2 DEF ResidentTable, Present
<1>4. \A p \in residents' : entry'[p].resident
  BY <1>1, <1>2 DEF ResidentTable, Present
<1>5. ASSUME NEW p \in Process, startup'[p] \in Pending
      PROVE  /\ p \in residents' /\ entry'[p].evicts \in Process
             /\ entry'[entry'[p].evicts].state \in {"Stopping", "removed"}
             /\ startup[p] = startup'[p]
             /\ startup'[p] = "evicting" =>
                  /\ stop'[entry'[p].evicts] \in {"reaping", "removed", "expired"}
                  /\ stop'[entry'[p].evicts] # "expired" => entry'[p].evicts \notin residents'
  BY <1>1, <1>2, <1>5, TableParts
<1>6. ASSUME NEW p \in Process, NEW q \in Process, startup'[p] \in Pending, startup'[q] \in Pending,
             entry'[p].evicts = entry'[q].evicts
      PROVE  p = q
  BY <1>2, <1>5, <1>6, TableParts
<1>7. ASSUME NEW p \in Process, (p \in Present)', entry'[p].resident, p \notin residents'
      PROVE  \E q \in Process : startup'[q] = "evicting" /\ entry'[q].evicts = p
                                /\ stop'[p] = "reaping"
  <2>1. PICK q \in Process : startup[q] = "evicting" /\ entry[q].evicts = p /\ stop[p] = "reaping"
    BY <1>1, <1>2, <1>7, TableParts
  <2> QED
    BY <1>2, <2>1 DEF Pending
<1>8. \A p \in Process : startup'[p] = "evicting" => startup'[p] \in Pending
  BY DEF Pending
<1> QED
  BY <1>3, <1>4, <1>5, <1>6, <1>7, <1>8 DEF ResidentTable, Present

\* So does the end of a Host.
LEMMA GoneTable ==
  ASSUME HostInv, ResidentTable, NEW g \in Process, Gone(g)
  PROVE  ResidentTable'
<1>1. /\ residents' = residents \ {g} /\ g \in Present /\ entry'[g].state = "removed"
      /\ startup[g] # "evicting" /\ startup'[g] \notin Pending
      /\ stop'[g] = stop[g] \/ (stop[g] = "reaping" /\ stop'[g] = "removed")
      /\ entry'[g].evicts = entry[g].evicts
  BY DEF Gone, Identity
<1>2. ASSUME NEW p \in Process, p # g
      PROVE  /\ entry'[p].resident = entry[p].resident /\ entry'[p].evicts = entry[p].evicts
             /\ (p \in Present)' <=> p \in Present
             /\ \/ startup'[p] = startup[p]
                \/ startup[p] \notin Pending /\ startup'[p] \notin Pending
             /\ stop[p] \in {"reaping", "removed", "expired"} => stop'[p] = stop[p]
             /\ entry[p].state \in {"Stopping", "removed"} =>
                    entry'[p].state \in {"Stopping", "removed"}
  BY <1>2 DEF Gone, Calm, Identity
<1>3. residents' \subseteq Present' /\ IsFiniteSet(residents')
  <2>1. IsFiniteSet(residents \ {g})
    BY FS_RemoveElement DEF ResidentTable
  <2> QED
    BY <1>1, <1>2, <2>1 DEF ResidentTable, Present
<1>4. \A p \in residents' : entry'[p].resident
  BY <1>1, <1>2 DEF ResidentTable, Present
<1>5. ASSUME NEW p \in Process, startup'[p] \in Pending
      PROVE  /\ p \in residents' /\ entry'[p].evicts \in Process /\ p # g
             /\ entry'[entry'[p].evicts].state \in {"Stopping", "removed"}
             /\ startup[p] = startup'[p]
             /\ startup'[p] = "evicting" =>
                  /\ stop'[entry'[p].evicts] \in {"reaping", "removed", "expired"}
                  /\ stop'[entry'[p].evicts] # "expired" => entry'[p].evicts \notin residents'
  <2>1. p # g
    BY <1>1, <1>5
  <2> QED
    BY <1>1, <1>2, <1>5, <2>1, TableParts
<1>6. ASSUME NEW p \in Process, NEW q \in Process, startup'[p] \in Pending, startup'[q] \in Pending,
             entry'[p].evicts = entry'[q].evicts
      PROVE  p = q
  BY <1>2, <1>5, <1>6, TableParts
<1>7. ASSUME NEW p \in Process, (p \in Present)', entry'[p].resident, p \notin residents'
      PROVE  \E q \in Process : startup'[q] = "evicting" /\ entry'[q].evicts = p
                                /\ stop'[p] = "reaping"
  <2>0. p # g
    BY <1>1, <1>7 DEF Present
  <2>1. PICK q \in Process : startup[q] = "evicting" /\ entry[q].evicts = p /\ stop[p] = "reaping"
    BY <1>1, <1>2, <1>7, <2>0, TableParts
  <2>2. q # g
    BY <1>1, <2>1
  <2> QED
    BY <1>2, <2>0, <2>1, <2>2 DEF Pending
<1>8. \A p \in Process : startup'[p] = "evicting" => startup'[p] \in Pending
  BY DEF Pending
<1> QED
  BY <1>3, <1>4, <1>5, <1>6, <1>7, <1>8 DEF ResidentTable, Present

\* A stop that expires gives a resident Host its place back.
LEMMA ExpiredTable ==
  ASSUME HostInv, ResidentTable, NEW v \in Process, StopExpired(v)
  PROVE  ResidentTable'
<1>1. /\ stop[v] = "reaping" /\ entry' = entry /\ startup' = startup /\ stop'[v] = "expired"
      /\ residents' = IF entry[v].resident THEN residents \cup {v} ELSE residents
      /\ \A p \in Process \ {v} : stop'[p] = stop[p]
  BY DEF StopExpired, HostInv, TypeOK
<1>2. v \in Present
  BY <1>1 DEF HostInv, Stage, Present
<1>3. residents' \subseteq Present' /\ IsFiniteSet(residents')
  <2>1. IsFiniteSet(residents \cup {v}) /\ IsFiniteSet(residents)
    BY FS_AddElement DEF ResidentTable
  <2> QED
    BY <1>1, <1>2, <2>1 DEF ResidentTable, Present
<1>4. \A p \in residents' : entry'[p].resident
  BY <1>1 DEF ResidentTable
<1>5. ASSUME NEW p \in Process, startup'[p] \in Pending
      PROVE  /\ p \in residents' /\ entry'[p].evicts \in Process
             /\ entry'[entry'[p].evicts].state \in {"Stopping", "removed"}
             /\ startup'[p] = "evicting" =>
                  /\ stop'[entry'[p].evicts] \in {"reaping", "removed", "expired"}
                  /\ stop'[entry'[p].evicts] # "expired" => entry'[p].evicts \notin residents'
  BY <1>1, <1>5, TableParts
<1>6. ASSUME NEW p \in Process, NEW q \in Process, startup'[p] \in Pending, startup'[q] \in Pending,
             entry'[p].evicts = entry'[q].evicts
      PROVE  p = q
  BY <1>1, <1>6, TableParts
<1>7. ASSUME NEW p \in Process, (p \in Present)', entry'[p].resident, p \notin residents'
      PROVE  \E q \in Process : startup'[q] = "evicting" /\ entry'[q].evicts = p
                                /\ stop'[p] = "reaping"
  <2>1. p # v /\ p \notin residents /\ p \in Present
    BY <1>1, <1>7 DEF Present
  <2>2. PICK q \in Process : startup[q] = "evicting" /\ entry[q].evicts = p /\ stop[p] = "reaping"
    BY <1>1, <1>7, <2>1, TableParts
  <2> QED
    BY <1>1, <2>1, <2>2
<1>8. \A p \in Process : startup'[p] = "evicting" => startup'[p] \in Pending
  BY DEF Pending
<1> QED
  BY <1>3, <1>4, <1>5, <1>6, <1>7, <1>8 DEF ResidentTable, Present

\* The completion of a stop lets the start that waits for it go on.
LEMMA CompletedTable ==
  ASSUME HostInv, ResidentTable, NEW v \in Process, CompleteStop(v)
  PROVE  ResidentTable'
<1>1. /\ stop[v] \in {"removed", "expired"} /\ entry' = entry /\ residents' = residents
      /\ \A p \in Process \ {v} : stop'[p] = stop[p]
      /\ \A p \in Process :
           IF startup[p] = "evicting" /\ entry[p].evicts = v
           THEN startup'[p] = IF stop[v] = "removed" THEN "begin" ELSE "denied"
           ELSE startup'[p] = startup[p]
  BY CompleteStopRows DEF CompleteStop, fleet
<1>2. ASSUME NEW p \in Process
      PROVE  /\ startup'[p] \in Pending => startup[p] \in Pending
             /\ startup'[p] = "evicting" <=> startup[p] = "evicting" /\ entry[p].evicts # v
  BY <1>1 DEF Pending
<1>3. residents' \subseteq Present' /\ IsFiniteSet(residents')
  BY <1>1 DEF ResidentTable, Present
<1>4. \A p \in residents' : entry'[p].resident
  BY <1>1 DEF ResidentTable
<1>5. ASSUME NEW p \in Process, startup'[p] \in Pending
      PROVE  /\ p \in residents' /\ entry'[p].evicts \in Process
             /\ entry'[entry'[p].evicts].state \in {"Stopping", "removed"}
             /\ startup'[p] = "evicting" =>
                  /\ stop'[entry'[p].evicts] \in {"reaping", "removed", "expired"}
                  /\ stop'[entry'[p].evicts] # "expired" => entry'[p].evicts \notin residents'
  <2>1. startup[p] \in Pending
    BY <1>2, <1>5
  <2> QED
    BY <1>1, <1>2, <2>1, TableParts
<1>6. ASSUME NEW p \in Process, NEW q \in Process, startup'[p] \in Pending, startup'[q] \in Pending,
             entry'[p].evicts = entry'[q].evicts
      PROVE  p = q
  BY <1>1, <1>2, <1>6, TableParts
<1>7. ASSUME NEW p \in Process, (p \in Present)', entry'[p].resident, p \notin residents'
      PROVE  \E q \in Process : startup'[q] = "evicting" /\ entry'[q].evicts = p
                                /\ stop'[p] = "reaping"
  <2>1. p \notin residents /\ p \in Present
    BY <1>1, <1>7 DEF Present
  <2>2. PICK q \in Process : startup[q] = "evicting" /\ entry[q].evicts = p /\ stop[p] = "reaping"
    BY <1>1, <1>7, <2>1, TableParts
  <2>3. p # v
    BY <1>1, <2>2
  <2> QED
    BY <1>1, <1>2, <2>2, <2>3
<1>8. \A p \in Process : startup'[p] = "evicting" => startup'[p] \in Pending
  BY DEF Pending
<1> QED
  BY <1>3, <1>4, <1>5, <1>6, <1>7, <1>8 DEF ResidentTable, Present

\* What an idle Host that may be evicted is.
LEMMA EvictableIdle ==
  ASSUME HostInv, NEW m, NEW v \in Evictable(m)
  PROVE  /\ v \in Process /\ v \in Present /\ entry[v].state = "IdleWarm" /\ stop[v] = "none"
         /\ startup[v] \notin Pending /\ v \notin background
<1>1. v \in Process /\ entry[v].state = "IdleWarm" /\ v \notin background
  BY DEF Evictable, OfMember, HostInv, TypeOK
<1> QED
  BY <1>1 DEF Present, HostInv, Stage, Pending, Unsettled, Unborn

\* A new reservation enters it.
LEMMA ReservedTable ==
  ASSUME HostInv, ResidentTable, NEW l \in Lease, NEW n \in Process, AcquireReserve(l, n)
  PROVE  ResidentTable'
<1>1. /\ entry[n].state = "absent" /\ startup[n] = "none" /\ stop[n] = "none"
      /\ entry'[n].state = "Starting"
      /\ Fits(l, n) \/ Bursts(n) \/ \E v \in Process \ {n} : Evicting(l, n, v)
  BY ReserveCapacity
<1>2. n \notin residents /\ n \notin Present /\ (n \in Present)' /\ n \in Process
  BY <1>1 DEF ResidentTable, Present
<1>3. ASSUME NEW p \in Process, p # n
      PROVE  /\ entry'[p].resident = entry[p].resident /\ entry'[p].evicts = entry[p].evicts
             /\ (p \in Present)' <=> p \in Present
             /\ \/ startup'[p] = startup[p]
                \/ startup[p] \notin Pending /\ startup'[p] \notin Pending
             /\ stop[p] \in {"reaping", "removed", "expired"} => stop'[p] = stop[p]
             /\ entry[p].state \in {"Stopping", "removed"} =>
                    entry'[p].state \in {"Stopping", "removed"}
  BY <1>1, <1>3 DEF Fits, Bursts, Evicting, Calm, Identity
<1>4. ASSUME residents' \in {residents, residents \cup {n}}, startup'[n] = "begin",
             n \in residents' <=> entry'[n].resident
      PROVE  ResidentTable'
  <2>1. residents' \subseteq Present' /\ IsFiniteSet(residents')
    <3>1. IsFiniteSet(residents \cup {n}) /\ IsFiniteSet(residents)
      BY FS_AddElement DEF ResidentTable
    <3>2. \A p \in residents' : (p \in Present)' /\ p \in Process
      BY <1>2, <1>3, <1>4 DEF ResidentTable, Present
    <3> QED
      BY <1>4, <3>1, <3>2
  <2>2. \A p \in residents' : entry'[p].resident
    BY <1>2, <1>3, <1>4 DEF ResidentTable, Present
  <2>3. ASSUME NEW p \in Process, startup'[p] \in Pending
        PROVE  /\ p \in residents' /\ entry'[p].evicts \in Process /\ p # n
               /\ entry'[entry'[p].evicts].state \in {"Stopping", "removed"}
               /\ startup[p] = startup'[p]
               /\ startup'[p] = "evicting" =>
                    /\ stop'[entry'[p].evicts] \in {"reaping", "removed", "expired"}
                    /\ stop'[entry'[p].evicts] # "expired" => entry'[p].evicts \notin residents'
    <3>1. p # n
      BY <1>4, <2>3 DEF Pending
    <3>2. startup[p] \in Pending /\ startup[p] = startup'[p]
      BY <1>3, <2>3, <3>1
    <3>3. entry[p].evicts \in Process \ {n}
      BY <1>1, <3>2, TableParts
    <3> QED
      BY <1>3, <1>4, <3>1, <3>2, <3>3, TableParts
  <2>4. ASSUME NEW p \in Process, NEW q \in Process, startup'[p] \in Pending,
               startup'[q] \in Pending, entry'[p].evicts = entry'[q].evicts
        PROVE  p = q
    BY <1>3, <2>3, <2>4, TableParts
  <2>5. ASSUME NEW p \in Process, (p \in Present)', entry'[p].resident, p \notin residents'
        PROVE  \E q \in Process : startup'[q] = "evicting" /\ entry'[q].evicts = p
                                  /\ stop'[p] = "reaping"
    <3>1. p # n /\ p \notin residents /\ p \in Present /\ entry[p].resident
      BY <1>3, <1>4, <2>5
    <3>2. PICK q \in Process : startup[q] = "evicting" /\ entry[q].evicts = p /\ stop[p] = "reaping"
      BY <3>1, TableParts
    <3>3. q # n
      BY <1>1, <3>2
    <3> QED
      BY <1>3, <3>1, <3>2, <3>3 DEF Pending
  <2>6. \A p \in Process : startup'[p] = "evicting" => startup'[p] \in Pending
    BY DEF Pending
  <2> QED
    BY <2>1, <2>2, <2>3, <2>4, <2>5, <2>6 DEF ResidentTable, Present
<1>5. CASE Fits(l, n)
  BY <1>4, <1>5 DEF Fits
<1>6. CASE Bursts(n)
  <2>1. ~entry'[n].resident
    BY <1>6, ZenonT(30) DEF Bursts
  <2> QED
    BY <1>2, <1>4, <1>6, <2>1 DEF Bursts
<1>7. ASSUME NEW v \in Process \ {n}, Evicting(l, n, v)
      PROVE  ResidentTable'
  <2>1. /\ residents' = (residents \ {v}) \cup {n} /\ startup'[n] = "evicting"
        /\ entry'[n].resident /\ entry'[n].evicts = v
        /\ entry'[v].state = "Stopping" /\ stop'[v] = "reaping"
    BY <1>7 DEF Evicting
  <2>2. entry[v].state = "IdleWarm"
    BY <1>7, EvictableIdle DEF Evicting
  <2>3. residents' \subseteq Present' /\ IsFiniteSet(residents')
    <3>1. IsFiniteSet(residents \ {v})
      BY FS_RemoveElement DEF ResidentTable
    <3>2. IsFiniteSet((residents \ {v}) \cup {n})
      BY <3>1, FS_AddElement
    <3>3. \A p \in residents' : (p \in Present)' /\ p \in Process
      BY <1>2, <1>3, <2>1 DEF ResidentTable, Present
    <3> QED
      BY <2>1, <3>2, <3>3
  <2>4. \A p \in residents' : entry'[p].resident
    BY <1>2, <1>3, <2>1 DEF ResidentTable, Present
  <2>5. ASSUME NEW p \in Process, p # n, startup'[p] \in Pending
        PROVE  /\ p \in residents' /\ entry'[p].evicts \in Process \ {v}
               /\ entry'[entry'[p].evicts].state \in {"Stopping", "removed"}
               /\ startup[p] = startup'[p]
               /\ startup'[p] = "evicting" =>
                    /\ stop'[entry'[p].evicts] \in {"reaping", "removed", "expired"}
                    /\ stop'[entry'[p].evicts] # "expired" => entry'[p].evicts \notin residents'
    <3>1. startup[p] \in Pending /\ startup[p] = startup'[p]
      BY <1>3, <2>5
    <3>2. entry[p].evicts \in Process \ {n, v} /\ p # v
      BY <1>1, <2>2, <3>1, TableParts
    <3> QED
      BY <1>3, <2>1, <2>5, <3>1, <3>2, TableParts
  <2>6. ASSUME NEW p \in Process, NEW q \in Process, startup'[p] \in Pending,
               startup'[q] \in Pending, entry'[p].evicts = entry'[q].evicts
        PROVE  p = q
    <3>1. CASE p = n \/ q = n
      BY <2>1, <2>5, <2>6, <3>1
    <3>2. CASE p # n /\ q # n
      BY <1>3, <2>5, <2>6, <3>2, TableParts
    <3> QED
      BY <3>1, <3>2
  <2>7. ASSUME NEW p \in Process, (p \in Present)', entry'[p].resident, p \notin residents'
        PROVE  \E q \in Process : startup'[q] = "evicting" /\ entry'[q].evicts = p
                                  /\ stop'[p] = "reaping"
    <3>1. CASE p = v
      BY <2>1, <3>1
    <3>2. CASE p # v
      <4>1. p # n /\ p \notin residents /\ p \in Present /\ entry[p].resident
        BY <1>3, <2>1, <2>7, <3>2
      <4>2. PICK q \in Process : startup[q] = "evicting" /\ entry[q].evicts = p
                                 /\ stop[p] = "reaping"
        BY <4>1, TableParts
      <4>3. q # n
        BY <1>1, <4>2
      <4> QED
        BY <1>3, <4>1, <4>2, <4>3 DEF Pending
    <3> QED
      BY <3>1, <3>2
  <2>8. /\ n \in residents' /\ entry'[n].evicts \in Process
        /\ entry'[entry'[n].evicts].state \in {"Stopping", "removed"}
        /\ stop'[entry'[n].evicts] \in {"reaping", "removed", "expired"}
        /\ entry'[n].evicts \notin residents'
    BY <1>7, <2>1
  <2>9. \A p \in Process : startup'[p] = "evicting" => startup'[p] \in Pending
    BY DEF Pending
  <2> QED
    BY <2>3, <2>4, <2>5, <2>6, <2>7, <2>8, <2>9 DEF ResidentTable, Present
<1> QED
  BY <1>1, <1>5, <1>6, <1>7

\* Every step keeps it.
LEMMA ResidentTableStep ==
  ASSUME HostInv, ResidentTable, Next
  PROVE  ResidentTable'
<1>1. CASE Crash
  <2>1. residents' = {}
    BY <1>1 DEF Crash
  <2>2. ASSUME NEW p \in Process
        PROVE  (p \notin Present)' /\ startup'[p] \notin Pending
    <3>1. Lost(p)
      BY <1>1, CrashRows
    <3> QED
      BY <3>1 DEF Lost, Marks, Present, Pending
  <2>3. \A p \in Process : startup'[p] # "evicting"
    BY <2>2 DEF Pending
  <2>4. IsFiniteSet(residents')
    BY <2>1, FS_EmptySet
  <2> QED
    BY <2>1, <2>2, <2>3, <2>4 DEF ResidentTable, Present
<1> QED
  BY <1>1, CapacitySteps, QuietTable, GoneTable, ExpiredTable, CompletedTable, ReservedTable

-----------------------------------------------------------------------------
(* The quotas.                                                             *)

Evictors == {p \in Process : startup[p] \in Pending}
Victims == {entry[p].evicts : p \in Evictors}
Counted == (residents \ Evictors) \cup Victims

\* The residents that work or wait for work are in the table of the residents.
LEMMA ServingResident ==
  ASSUME HostInv, ResidentTable
  PROVE  /\ Serving \subseteq residents /\ IsFiniteSet(Serving) /\ IsFiniteSet(residents)
         /\ \A m : /\ IsFiniteSet(OfMember(Serving, m)) /\ IsFiniteSet(OfMember(residents, m))
                   /\ Cardinality(OfMember(Serving, m)) \in Nat
                   /\ Cardinality(OfMember(residents, m)) \in Nat
                   /\ Cardinality(OfMember(Serving, m)) <= Cardinality(OfMember(residents, m))
<1>1. IsFiniteSet(residents)
  BY DEF ResidentTable
<1>2. ASSUME NEW p \in Serving
      PROVE  p \in residents
  <2>1. p \in Process /\ p \in Present /\ entry[p].resident /\ stop[p] # "reaping"
    BY DEF Serving, Present, HostInv, Stage
  <2> QED
    BY <2>1, TableParts
<1>3. IsFiniteSet(Serving)
  BY <1>1, <1>2, FS_Subset
<1>4. ASSUME NEW m
      PROVE  /\ IsFiniteSet(OfMember(Serving, m)) /\ IsFiniteSet(OfMember(residents, m))
             /\ Cardinality(OfMember(Serving, m)) \in Nat
             /\ Cardinality(OfMember(residents, m)) \in Nat
             /\ Cardinality(OfMember(Serving, m)) <= Cardinality(OfMember(residents, m))
  <2>1. /\ OfMember(residents, m) \subseteq residents
        /\ OfMember(Serving, m) \subseteq OfMember(residents, m)
    BY <1>2 DEF OfMember
  <2>2. IsFiniteSet(OfMember(residents, m))
    BY <1>1, <2>1, FS_Subset
  <2>3. /\ IsFiniteSet(OfMember(Serving, m))
        /\ Cardinality(OfMember(Serving, m)) <= Cardinality(OfMember(residents, m))
    BY <2>1, <2>2, FS_Subset
  <2> QED
    BY <2>2, <2>3, FS_CardinalityType
<1> QED
  BY <1>1, <1>2, <1>3, <1>4

\* What counts is no more than the residents: a start counts for the Host that it evicts.
LEMMA CountedBound ==
  ASSUME HostInv, ResidentTable
  PROVE  /\ IsFiniteSet(Counted) /\ Cardinality(Counted) \in Nat
         /\ Cardinality(residents) \in Nat /\ Cardinality(Counted) <= Cardinality(residents)
<1>1. IsFiniteSet(residents) /\ Evictors \subseteq residents
  BY TableParts DEF ResidentTable, Evictors
<1>2. IsFiniteSet(Evictors)
  BY <1>1, FS_Subset
<1>3. IsFiniteSet(Victims) /\ Cardinality(Victims) <= Cardinality(Evictors)
  <2> DEFINE f == [p \in Evictors |-> entry[p].evicts]
  <2>1. f \in Surjection(Evictors, Victims)
    BY DEF Surjection, Victims
  <2> HIDE DEF f
  <2> QED
    BY <1>2, <2>1, FS_Surjection
<1>4. /\ IsFiniteSet(residents \ Evictors)
      /\ Cardinality(residents \ Evictors) = Cardinality(residents) - Cardinality(Evictors)
  <2>1. residents \cap Evictors = Evictors
    BY <1>1
  <2> QED
    BY <1>1, <2>1, FS_Difference
<1>5. /\ IsFiniteSet((residents \ Evictors) \cup Victims)
      /\ Cardinality((residents \ Evictors) \cup Victims)
            = Cardinality(residents \ Evictors) + Cardinality(Victims)
              - Cardinality((residents \ Evictors) \cap Victims)
  BY <1>3, <1>4, FS_Union
<1>6. IsFiniteSet((residents \ Evictors) \cap Victims)
  BY <1>3, FS_Subset
<1>7. /\ Cardinality(residents) \in Nat /\ Cardinality(Evictors) \in Nat
      /\ Cardinality(Victims) \in Nat /\ Cardinality((residents \ Evictors) \cap Victims) \in Nat
      /\ Cardinality((residents \ Evictors) \cup Victims) \in Nat
  BY <1>1, <1>2, <1>3, <1>5, <1>6, FS_CardinalityType
<1> HIDE DEF Evictors, Victims
<1>8. Cardinality((residents \ Evictors) \cup Victims) <= Cardinality(residents)
  BY <1>3, <1>4, <1>5, <1>7
<1> QED
  BY <1>5, <1>7, <1>8 DEF Counted

\* The living residents count.
LEMMA LiveCounted ==
  ASSUME HostInv, ResidentTable
  PROVE  LiveResident \subseteq Counted
<1> SUFFICES ASSUME NEW p \in LiveResident
             PROVE  p \in Counted
  OBVIOUS
<1>1. p \in Process /\ p \in Present /\ entry[p].resident /\ os[p] = "alive"
  BY DEF LiveResident, Present
<1>2. CASE p \in residents
  BY <1>1, <1>2 DEF Counted, Evictors, HostInv, Stage, Pending, Unborn
<1>3. CASE p \notin residents
  <2>1. PICK q \in Process : startup[q] = "evicting" /\ entry[q].evicts = p
    BY <1>1, <1>3, TableParts
  <2> QED
    BY <2>1 DEF Counted, Victims, Evictors, Pending
<1> QED
  BY <1>2, <1>3

\* A set that shrinks counts no more.
LEMMA Shrinks ==
  ASSUME NEW S, NEW T, IsFiniteSet(S), T \subseteq S, NEW n \in Nat, Cardinality(S) <= n
  PROVE  Cardinality(T) <= n
<1>1. IsFiniteSet(T) /\ Cardinality(T) <= Cardinality(S)
  BY FS_Subset
<1>2. Cardinality(S) \in Nat /\ Cardinality(T) \in Nat
  BY <1>1, FS_CardinalityType
<1> QED
  BY <1>1, <1>2

\* So does one that gets an element for another.
LEMMA Exchanges ==
  ASSUME NEW S, NEW T, NEW v \in S, NEW x, IsFiniteSet(S), T \subseteq (S \ {v}) \cup {x},
         NEW n \in Nat, Cardinality(S) <= n
  PROVE  Cardinality(T) <= n
<1>1. IsFiniteSet(S \ {v}) /\ Cardinality(S \ {v}) = Cardinality(S) - 1
  BY FS_RemoveElement
<1>2. /\ IsFiniteSet((S \ {v}) \cup {x})
      /\ Cardinality((S \ {v}) \cup {x})
            = IF x \in S \ {v} THEN Cardinality(S \ {v}) ELSE Cardinality(S \ {v}) + 1
  BY <1>1, FS_AddElement
<1>3. Cardinality(S) \in Nat /\ Cardinality((S \ {v}) \cup {x}) \in Nat
  BY <1>2, FS_CardinalityType
<1>4. Cardinality((S \ {v}) \cup {x}) <= n
  BY <1>1, <1>2, <1>3
<1> QED
  BY <1>2, <1>4, Shrinks

\* One more element counts one more.
LEMMA Grows ==
  ASSUME NEW S, NEW T, NEW x, IsFiniteSet(S), T \subseteq S \cup {x},
         NEW n \in Nat, Cardinality(S) < n
  PROVE  Cardinality(T) <= n
<1>1. /\ IsFiniteSet(S \cup {x})
      /\ Cardinality(S \cup {x}) = IF x \in S THEN Cardinality(S) ELSE Cardinality(S) + 1
  BY FS_AddElement
<1>2. Cardinality(S) \in Nat /\ Cardinality(S \cup {x}) \in Nat
  BY <1>1, FS_CardinalityType
<1>3. Cardinality(S \cup {x}) <= n
  BY <1>1, <1>2
<1> QED
  BY <1>1, <1>3, Shrinks

\* What counts shrinks with every step that takes no capacity.
LEMMA CountedShrinks ==
  ASSUME HostInv, ResidentTable,
         \A p \in residents' : p \in residents \/ p \in Victims,
         \A p \in Process :
            /\ startup'[p] \in Pending =>
                  startup[p] \in Pending /\ entry'[p].evicts = entry[p].evicts
            /\ startup[p] \in Pending /\ startup'[p] \notin Pending => p \notin residents'
  PROVE  Counted' \subseteq Counted
<1> SUFFICES ASSUME NEW p \in Counted'
             PROVE  p \in Counted
  OBVIOUS
<1>1. CASE p \in residents' /\ p \notin Evictors'
  <2>1. CASE p \in Victims
    BY <2>1 DEF Counted
  <2>2. CASE p \in residents
    <3>1. p \in Process
      BY <2>2 DEF ResidentTable, Present
    <3>2. p \notin Evictors
      BY <1>1, <3>1 DEF Evictors
    <3> QED
      BY <2>2, <3>2 DEF Counted
  <2> QED
    BY <1>1, <2>1, <2>2
<1>2. CASE p \in Victims'
  <2>1. PICK q \in Process : startup'[q] \in Pending /\ entry'[q].evicts = p
    BY <1>2 DEF Victims, Evictors
  <2>2. startup[q] \in Pending /\ entry[q].evicts = p
    BY <2>1
  <2> QED
    BY <2>2 DEF Counted, Victims, Evictors
<1> QED
  BY <1>1, <1>2 DEF Counted

\* What counts stays within the limit.
LEMMA CountedStep ==
  ASSUME HostInv, ResidentTable, Next, Cardinality(Counted) <= MaxGlobal,
         \A p \in Process : entry[p].state = "IdleWarm" => entry[p].resident
  PROVE  Cardinality(Counted') <= MaxGlobal
<1>1. /\ IsFiniteSet(Counted) /\ Cardinality(Counted) \in Nat
      /\ Cardinality(residents) \in Nat /\ Cardinality(Counted) <= Cardinality(residents)
      /\ MaxGlobal \in Nat
  BY CountedBound, FleetAssumption DEF FleetAssumption
<1>2. CASE Counted' \subseteq Counted
  BY <1>1, <1>2, Shrinks
<1>3. CASE Quiet
  <2>1. \A p \in residents' : p \in residents
    BY <1>3 DEF Quiet
  <2>2. ASSUME NEW p \in Process
        PROVE  /\ startup'[p] \in Pending =>
                    startup[p] \in Pending /\ entry'[p].evicts = entry[p].evicts
               /\ startup[p] \in Pending => startup'[p] \in Pending
    BY <1>3 DEF Quiet, Calm, Identity
  <2> QED
    BY <1>2, <2>1, <2>2, CountedShrinks
<1>4. ASSUME NEW g \in Process, Gone(g)
      PROVE  Counted' \subseteq Counted
  <2>1. residents' = residents \ {g} /\ startup'[g] \notin Pending
    BY <1>4 DEF Gone
  <2>2. ASSUME NEW p \in Process, p # g
        PROVE  /\ startup'[p] \in Pending =>
                    startup[p] \in Pending /\ entry'[p].evicts = entry[p].evicts
               /\ startup[p] \in Pending => startup'[p] \in Pending
    BY <1>4, <2>2 DEF Gone, Calm, Identity
  <2> QED
    BY <2>1, <2>2, CountedShrinks
<1>5. ASSUME NEW v \in Process, StopExpired(v)
      PROVE  Counted' \subseteq Counted
  <2>1. /\ entry' = entry /\ startup' = startup /\ stop[v] = "reaping"
        /\ residents' = IF entry[v].resident THEN residents \cup {v} ELSE residents
    BY <1>5 DEF StopExpired
  <2>2. v \in Present
    BY <2>1 DEF HostInv, Stage, Present
  <2>3. ASSUME entry[v].resident, v \notin residents
        PROVE  v \in Victims
    <3>1. PICK q \in Process : startup[q] = "evicting" /\ entry[q].evicts = v
      BY <2>2, <2>3, TableParts
    <3> QED
      BY <3>1 DEF Victims, Evictors, Pending
  <2> QED
    BY <2>1, <2>3, CountedShrinks
<1>6. ASSUME NEW v \in Process, CompleteStop(v)
      PROVE  Cardinality(Counted') <= MaxGlobal
  <2>1. /\ stop[v] \in {"removed", "expired"} /\ entry' = entry /\ residents' = residents
        /\ \A p \in Process :
             IF startup[p] = "evicting" /\ entry[p].evicts = v
             THEN startup'[p] = IF stop[v] = "removed" THEN "begin" ELSE "denied"
             ELSE startup'[p] = startup[p]
    BY <1>6, CompleteStopRows DEF CompleteStop, fleet
  <2>2. CASE /\ stop[v] = "removed"
              /\ \E q \in Process : startup[q] = "evicting" /\ entry[q].evicts = v
    <3>1. PICK q \in Process : startup[q] = "evicting" /\ entry[q].evicts = v
      BY <2>2
    <3>2. q \in residents /\ v \notin residents /\ v \in Counted /\ startup[q] \in Pending
      BY <2>2, <3>1, TableParts DEF Counted, Victims, Evictors, Pending
    <3>3. ASSUME NEW p \in Process, p # q
          PROVE  startup'[p] = startup[p]
      BY <2>1, <3>1, <3>2, <3>3, TableParts DEF Pending
    <3>4. startup'[q] = "begin"
      BY <2>1, <2>2, <3>1
    <3>5. ASSUME NEW p \in Counted'
          PROVE  p \in (Counted \ {v}) \cup {q}
      <4>1. CASE p \in residents' /\ p \notin Evictors' /\ p # q
        <5>1. p \in residents /\ p \in Process
          BY <2>1, <4>1 DEF ResidentTable, Present
        <5>2. p \notin Evictors
          BY <3>3, <4>1, <5>1 DEF Evictors
        <5> QED
          BY <3>2, <5>1, <5>2 DEF Counted
      <4>2. CASE p \in Victims'
        <5>1. PICK r \in Process : startup'[r] \in Pending /\ entry'[r].evicts = p
          BY <4>2 DEF Victims, Evictors
        <5>2. r # q
          BY <3>4, <5>1 DEF Pending
        <5>3. startup[r] \in Pending /\ entry[r].evicts = p
          BY <2>1, <3>3, <5>1, <5>2
        <5>4. p # v
          BY <3>1, <3>2, <5>2, <5>3, TableParts
        <5> QED
          BY <5>3, <5>4 DEF Counted, Victims, Evictors
      <4> QED
        BY <3>5, <4>1, <4>2 DEF Counted
    <3>6. Counted' \subseteq (Counted \ {v}) \cup {q}
      BY <3>5
    <3> QED
      BY <1>1, <3>2, <3>6, Exchanges
  <2>3. CASE /\ stop[v] = "removed"
              /\ ~\E q \in Process : startup[q] = "evicting" /\ entry[q].evicts = v
    <3>1. \A p \in Process : startup'[p] = startup[p]
      BY <2>1, <2>3
    <3> QED
      BY <1>2, <2>1, <3>1, CountedShrinks
  <2>4. CASE stop[v] = "expired"
    <3>1. \A p \in Process : /\ startup'[p] \in Pending => startup[p] \in Pending
                             /\ startup[p] \in Pending => startup'[p] \in Pending
      BY <2>1, <2>4 DEF Pending
    <3> QED
      BY <1>2, <2>1, <3>1, CountedShrinks
  <2> QED
    BY <2>1, <2>2, <2>3, <2>4
<1>7. ASSUME NEW l \in Lease, NEW n \in Process, AcquireReserve(l, n)
      PROVE  Cardinality(Counted') <= MaxGlobal
  <2>1. /\ entry[n].state = "absent" /\ startup[n] = "none"
        /\ Fits(l, n) \/ Bursts(n) \/ \E v \in Process \ {n} : Evicting(l, n, v)
    BY <1>7, ReserveCapacity
  <2>2. ASSUME NEW p \in Process, p # n
        PROVE  /\ startup'[p] \in Pending =>
                    startup[p] \in Pending /\ entry'[p].evicts = entry[p].evicts
               /\ startup[p] \in Pending => startup'[p] \in Pending
    BY <2>1, <2>2 DEF Fits, Bursts, Evicting, Calm, Identity
  <2>3. startup[n] \notin Pending
    BY <2>1 DEF Pending
  <2>4. CASE Bursts(n)
    <3>1. residents' = residents /\ startup'[n] \notin Pending
      BY <2>4 DEF Bursts, Pending
    <3> QED
      BY <1>2, <2>2, <2>3, <3>1, CountedShrinks
  <2>5. CASE Fits(l, n)
    <3>1. /\ residents' = residents \cup {n} /\ startup'[n] \notin Pending
          /\ Cardinality(residents) < MaxGlobal
      BY <2>5 DEF Fits, Pending, HasResidentCapacity
    <3>2. ASSUME NEW p \in Counted'
          PROVE  p \in Counted \cup {n}
      <4>1. CASE p \in residents /\ p \notin Evictors' /\ p # n
        <5>1. p \in Process
          BY <4>1 DEF ResidentTable, Present
        <5>2. p \notin Evictors
          BY <2>2, <4>1, <5>1 DEF Evictors
        <5> QED
          BY <4>1, <5>2 DEF Counted
      <4>2. CASE p \in Victims'
        <5>1. PICK r \in Process : startup'[r] \in Pending /\ entry'[r].evicts = p
          BY <4>2 DEF Victims, Evictors
        <5>2. startup[r] \in Pending /\ entry[r].evicts = p
          BY <2>2, <3>1, <5>1
        <5> QED
          BY <5>2 DEF Counted, Victims, Evictors
      <4> QED
        BY <3>1, <3>2, <4>1, <4>2 DEF Counted
    <3>3. Counted' \subseteq Counted \cup {n} /\ Cardinality(Counted) < MaxGlobal
      BY <1>1, <3>1, <3>2
    <3> QED
      BY <1>1, <3>3, Grows
  <2>6. ASSUME NEW v \in Process \ {n}, Evicting(l, n, v)
        PROVE  Counted' \subseteq Counted
    <3>1. /\ residents' = (residents \ {v}) \cup {n} /\ startup'[n] = "evicting"
          /\ entry'[n].evicts = v
      BY <2>6 DEF Evicting
    <3>2. v \in residents /\ v \notin Evictors
      <4>1. /\ v \in Present /\ entry[v].state = "IdleWarm" /\ stop[v] = "none"
            /\ startup[v] \notin Pending
        BY <2>6, EvictableIdle DEF Evicting
      <4> QED
        BY <4>1, TableParts DEF Evictors
    <3>3. ASSUME NEW p \in Counted'
          PROVE  p \in Counted
      <4>1. CASE p \in residents' /\ p \notin Evictors'
        <5>1. n \in Evictors'
          BY <3>1 DEF Evictors, Pending
        <5>2. p \in residents /\ p \in Process /\ p # n
          BY <3>1, <4>1, <5>1 DEF ResidentTable, Present
        <5>3. p \notin Evictors
          BY <2>2, <4>1, <5>2 DEF Evictors
        <5> QED
          BY <5>2, <5>3 DEF Counted
      <4>2. CASE p \in Victims'
        <5>1. PICK r \in Process : startup'[r] \in Pending /\ entry'[r].evicts = p
          BY <4>2 DEF Victims, Evictors
        <5>2. CASE r = n
          BY <3>1, <3>2, <5>1, <5>2 DEF Counted
        <5>3. CASE r # n
          <6>1. startup[r] \in Pending /\ entry[r].evicts = p
            BY <2>2, <5>1, <5>3
          <6> QED
            BY <6>1 DEF Counted, Victims, Evictors
        <5> QED
          BY <5>2, <5>3
      <4> QED
        BY <3>3, <4>1, <4>2 DEF Counted
    <3> QED
      BY <3>3
  <2> QED
    BY <1>2, <2>1, <2>4, <2>5, <2>6
<1>8. CASE Crash
  <2>1. residents' = {}
    BY <1>8 DEF Crash
  <2>2. ASSUME NEW p \in Process
        PROVE  startup'[p] \notin Pending
    <3>1. Lost(p)
      BY <1>8, CrashRows
    <3> QED
      BY <3>1 DEF Lost, Pending
  <2>3. Counted' = {}
    BY <2>1, <2>2 DEF Counted, Victims, Evictors
  <2> QED
    BY <1>2, <2>3
<1> QED
  BY <1>2, <1>3, <1>4, <1>5, <1>6, <1>7, <1>8, CapacitySteps

-----------------------------------------------------------------------------
(* The quota: what is warm or given back is resident, and the residents    *)
(* stay within the limits.                                                 *)

\* Only ZCode Hosts have background tasks.
LEMMA BackgroundSteps ==
  ASSUME Next
  PROVE  background' = background \/ kind = "zcode"
<1>1. ASSUME NEW l \in Lease, LaunchStep(l)
      PROVE  background' = background
  BY <1>1 DEF LaunchStep, BeginLaunch, RetireIncompatible, AwaitRetirement, RetirementsAnswered,
              AcquireBlocked, AcquireReuse, RegisterReuse, AcquireReserve, StartAnswered, BindRoute,
              FailLaunch, ReplaceHost, HostReplaced, outside
<1>2. ASSUME NEW l \in Lease, HandlerStep(l) \/ CleanerStep(l)
      PROVE  background' = background
  BY <1>2 DEF HandlerStep, CleanerStep, Release, FinishRelease, ReleaseAnswered, RetireRun,
              ReadLaunch, StopAgentRun, StopDelayed, StopAnswered, StopAfterLaunch, Acknowledge,
              outside
<1>3. ASSUME NEW p \in Process, StartupStep(p) \/ StopStep(p) \/ ProcessStep(p)
      PROVE  background' = background \/ kind = "zcode"
  BY <1>3 DEF StartupStep, StopStep, ProcessStep, StartRefused, Spawn, SpawnFails, CommitStart,
              AnswerStart, SpawnReturns, RetireStart, FailStart, StopReaped, StopExpired,
              CompleteStop, HostExit, BackgroundTasks, CleanupStale, outside
<1>4. ASSUME (\E c \in Camp : FenceStep(c)) \/ FleetStep \/ Crash
      PROVE  background' = background
  BY <1>4 DEF FenceStep, FleetStep, Crash, MarkCampDeleting, ForceFence, FenceAnswered,
              FenceAttachments, Invalidate, SweepIdle, ShutdownAll, ForceKill, outside
<1> QED
  BY <1>1, <1>2, <1>3, <1>4 DEF Next

\* A Host is given back when the handler asks for its reuse and nothing is against it.
Offers(l, d) == Release(l, d) /\ byRun[l] # None /\ ~ShouldStop(byRun[l], d)

\* Only a release begins to give a Host back.
LEMMA Checks ==
  ASSUME HostInv, Next, NEW l \in Lease, handler'[l] = "checking", handler[l] # "checking"
  PROVE  \E d \in {"Reusable", "Stop"} : Release(l, d) /\ (byRun[l] = None \/ Offers(l, d))
<1>0. handler \in [Lease -> Handler] /\ handler' # handler
  BY DEF HostInv, TypeOK
<1>1. ASSUME NEW k \in Lease, LaunchStep(k)
      PROVE  FALSE
  BY <1>0, <1>1 DEF LaunchStep, BeginLaunch, RetireIncompatible, AwaitRetirement,
              RetirementsAnswered, AcquireBlocked, AcquireReuse, RegisterReuse, AcquireReserve,
              StartAnswered, BindRoute, FailLaunch, ReplaceHost, HostReplaced
<1>2. ASSUME NEW k \in Lease, CleanerStep(k)
      PROVE  FALSE
  BY <1>0, <1>2 DEF CleanerStep, ReadLaunch, StopAgentRun, StopDelayed, StopAnswered,
                    StopAfterLaunch, Acknowledge
<1>3. ASSUME NEW p \in Process, StartupStep(p) \/ StopStep(p) \/ ProcessStep(p)
      PROVE  FALSE
  BY <1>0, <1>3 DEF StartupStep, StopStep, ProcessStep, StartRefused, Spawn, SpawnFails,
              CommitStart, AnswerStart, SpawnReturns, RetireStart, FailStart, StopReaped,
              StopExpired, CompleteStop, HostExit, BackgroundTasks, CleanupStale, callers
<1>4. ASSUME (\E c \in Camp : FenceStep(c)) \/ FleetStep
      PROVE  FALSE
  BY <1>0, <1>4 DEF FenceStep, FleetStep, MarkCampDeleting, ForceFence, FenceAnswered,
              FenceAttachments, Invalidate, SweepIdle, ShutdownAll, ForceKill, callers
<1>5. CASE Crash
  BY <1>5 DEF Crash
<1>6. ASSUME NEW k \in Lease, (\E q \in BOOLEAN : FinishRelease(k, q)) \/ RetireRun(k)
      PROVE  FALSE
  <2>1. ASSUME NEW q \in BOOLEAN, FinishRelease(k, q)
        PROVE  \E v \in {"reusable", "stopping", "reaped", "other"} :
                  handler' = [handler EXCEPT ![k] = v]
    BY <2>1 DEF FinishRelease, NoLease
  <2>2. CASE RetireRun(k)
    BY <1>0, <2>2 DEF RetireRun, callers
  <2> QED
    BY <1>0, <1>6, <2>1, <2>2
<1>7. ASSUME NEW k \in Lease, ReleaseAnswered(k)
      PROVE  FALSE
  <2>1. \E v \in {"reaped", "other"} : handler' = [handler EXCEPT ![k] = v]
    BY <1>7 DEF ReleaseAnswered, StopOutcome
  <2> QED
    BY <1>0, <2>1
<1>8. ASSUME NEW k \in Lease, NEW d \in {"Reusable", "Stop"}, Release(k, d)
      PROVE  k = l /\ (byRun[l] = None \/ Offers(l, d))
  <2>1. \E v \in Handler : handler' = [handler EXCEPT ![k] = v]
    BY <1>8 DEF Release, NoLease, Handler
  <2>2. k = l
    BY <1>0, <2>1
  <2>3. CASE byRun[l] # None /\ ShouldStop(byRun[l], d)
    <3>1. handler' = [handler EXCEPT ![l] = "stopping"]
      BY <1>8, <2>2, <2>3 DEF Release
    <3> QED
      BY <1>0, <3>1
  <2> QED
    BY <1>8, <2>2, <2>3 DEF Offers
<1> QED
  BY <1>1, <1>2, <1>3, <1>4, <1>5, <1>6, <1>7, <1>8 DEF Next, HandlerStep

\* What is warm or is being given back is resident, unless ZCode keeps bursts with tasks.
WarmResident ==
    /\ background = {}
    /\ \A p \in Process : entry[p].state = "IdleWarm" => entry[p].resident
    /\ \A l \in Lease : handler[l] = "checking" /\ byRun[l] # None => entry[byRun[l]].resident

\* The residents, the Hosts that were evicted for a start counted with them, stay within the
\* limit of the core, and those that are not being stopped within the limit of each member.
Quota ==
    kind # "zcode" =>
        /\ WarmResident
        /\ Cardinality(Counted) <= MaxGlobal
        /\ \A m \in Member : Cardinality(OfMember(Serving, m)) <= MaxPerMember

\* What a Host is never changes while it is in the table.
LEMMA IdentityKept ==
  ASSUME HostInv, Next, NEW p \in Process, p \in Present
  PROVE  Identity(p) \/ Crash
<1>1. CASE Quiet
  BY <1>1 DEF Quiet, Calm
<1>2. ASSUME NEW l \in Lease, NEW n \in Process, AcquireReserve(l, n)
      PROVE  Identity(p)
  <2>1. entry[n].state = "absent"
    BY <1>2, ReserveCapacity
  <2>2. p # n
    BY <2>1 DEF Present
  <2>3. \A q \in Process \ {n} : Calm(q)
    BY <1>2, ReserveCapacity DEF Fits, Bursts, Evicting
  <2> QED
    BY <2>2, <2>3 DEF Calm
<1>3. ASSUME NEW g \in Process, Gone(g)
      PROVE  Identity(p)
  BY <1>3 DEF Gone, Calm
<1>4. ASSUME NEW v \in Process, StopExpired(v) \/ CompleteStop(v)
      PROVE  Identity(p)
  BY <1>4 DEF StopExpired, CompleteStop, fleet, Identity
<1> QED
  BY <1>1, <1>2, <1>3, <1>4, CapacitySteps

\* A step keeps the warm Hosts resident.
LEMMA WarmResidentStep ==
  ASSUME HostInv, LaunchStages, WarmResident, kind # "zcode", Next
  PROVE  WarmResident'
<1>1. background' = {}
  BY BackgroundSteps DEF WarmResident
<1>2. ASSUME NEW p \in Process, entry'[p].state = "IdleWarm"
      PROVE  entry'[p].resident
  <2>1. GivenBack(p) => entry[p].resident
    <3>1. ASSUME NEW l \in Lease, handler[l] = "checking", byRun[l] = p
          PROVE  entry[p].resident
      <4>1. byRun[l] # None
        BY <3>1, FleetAssumption DEF FleetAssumption
      <4> QED
        BY <3>1, <4>1 DEF WarmResident
    <3> QED
      BY <3>1 DEF GivenBack
  <2>2. CASE Calm(p)
    BY <1>2, <2>1, <2>2 DEF Calm, Identity, WarmResident
  <2>3. CASE entry'[p] = entry[p]
    BY <1>2, <2>3 DEF WarmResident
  <2>4. CASE Quiet
    BY <2>2, <2>4 DEF Quiet
  <2>5. ASSUME NEW l \in Lease, NEW n \in Process, AcquireReserve(l, n)
        PROVE  entry'[p].resident
    BY <1>2, <2>2, <2>5, ReserveCapacity DEF Fits, Bursts, Evicting
  <2>6. ASSUME NEW g \in Process, Gone(g)
        PROVE  entry'[p].resident
    BY <1>2, <2>2, <2>6 DEF Gone
  <2>7. ASSUME NEW v \in Process, StopExpired(v) \/ CompleteStop(v)
        PROVE  entry'[p].resident
    BY <2>3, <2>7 DEF StopExpired, CompleteStop, fleet
  <2>8. CASE Crash
    <3>1. Lost(p)
      BY <2>8, CrashRows
    <3>2. entry'[p].state \in {"absent", "removed"}
      BY <3>1 DEF Lost, Marks, Present
    <3> QED
      BY <1>2, <3>2
  <2> QED
    BY <2>4, <2>5, <2>6, <2>7, <2>8, CapacitySteps
<1>3. ASSUME NEW l \in Lease, handler'[l] = "checking", byRun'[l] # None
      PROVE  entry'[byRun'[l]].resident
  <2>1. ~Crash
    BY <1>3 DEF Crash
  <2>2. byRun[l] # None /\ entry[byRun[l]].resident /\ byRun'[l] = byRun[l]
    <3>1. CASE handler[l] = "checking"
      <4>1. launch[l] = "bound"
        BY <3>1 DEF LaunchStages
      <4>2. byRun'[l] \in {byRun[l], None}
        BY <4>1, LeaseSteps DEF LeaseStep, LeaseMoves
      <4> QED
        BY <1>3, <3>1, <4>2 DEF WarmResident
    <3>2. CASE handler[l] # "checking"
      <4>1. PICK d \in {"Reusable", "Stop"} : Release(l, d) /\ (byRun[l] = None \/ Offers(l, d))
        BY <1>3, <3>2, Checks
      <4>2. byRun' = byRun
        BY <4>1 DEF Release
      <4>3. entry[byRun[l]].resident
        BY <1>3, <4>1, <4>2 DEF Offers, ShouldStop, WarmResident
      <4> QED
        BY <1>3, <4>2, <4>3
    <3> QED
      BY <3>1, <3>2
  <2>3. byRun[l] \in Process /\ byRun[l] \in Present
    BY <2>2, LeasedPresent
  <2>4. Identity(byRun[l])
    BY <2>1, <2>3, IdentityKept
  <2> QED
    BY <2>2, <2>4 DEF Identity
<1> QED
  BY <1>1, <1>2, <1>3 DEF WarmResident

\* The Hosts of a member that serve it stay within its limit.
LEMMA MemberStep ==
  ASSUME HostInv, ResidentTable, WarmResident, Next, NEW m,
         Cardinality(OfMember(Serving, m)) <= MaxPerMember
  PROVE  Cardinality(OfMember(Serving, m)') <= MaxPerMember
<1> DEFINE Before == OfMember(Serving, m)
<1> DEFINE After == OfMember(Serving, m)'
<1>1. /\ IsFiniteSet(Before) /\ Cardinality(Before) \in Nat
      /\ Cardinality(OfMember(residents, m)) \in Nat
      /\ Cardinality(Before) <= Cardinality(OfMember(residents, m))
      /\ MaxPerMember \in Nat /\ Cardinality(Before) <= MaxPerMember
  BY ServingResident, FleetAssumption DEF FleetAssumption
<1>2. CASE After \subseteq Before
  BY <1>1, <1>2, Shrinks
<1>3. ASSUME NEW p \in Process, Calm(p), p \in After
      PROVE  p \in Before
  <2>1. /\ p \in Present /\ entry[p].resident /\ MemberOf[entry[p].scope] = m
        /\ entry'[p].state # "Stopping"
    BY <1>3 DEF OfMember, Serving, Calm, Identity
  <2>2. entry[p].state # "Stopping"
    BY <1>3, <2>1 DEF Calm, Present
  <2> QED
    BY <2>1, <2>2 DEF OfMember, Serving
<1>4. ASSUME NEW p \in After
      PROVE  /\ p \in Process /\ entry'[p].state \notin {"absent", "removed", "Stopping"}
             /\ entry'[p].resident /\ MemberOf[entry'[p].scope] = m
  BY DEF OfMember, Serving, Present
<1>5. CASE Quiet
  BY <1>2, <1>3, <1>4, <1>5 DEF Quiet
<1>6. ASSUME NEW g \in Process, Gone(g)
      PROVE  After \subseteq Before
  BY <1>3, <1>4, <1>6 DEF Gone
<1>7. ASSUME NEW v \in Process, StopExpired(v) \/ CompleteStop(v)
      PROVE  After \subseteq Before
  BY <1>7 DEF StopExpired, CompleteStop, fleet, OfMember, Serving, Present
<1>8. CASE Crash
  <2>1. ASSUME NEW p \in Process
        PROVE  entry'[p].state \in {"absent", "removed"}
    <3>1. Lost(p)
      BY <1>8, CrashRows
    <3> QED
      BY <3>1 DEF Lost, Marks, Present
  <2> QED
    BY <1>2, <1>4, <2>1
<1>9. ASSUME NEW l \in Lease, NEW n \in Process, AcquireReserve(l, n)
      PROVE  Cardinality(After) <= MaxPerMember
  <2>1. /\ entry'[n].scope = ScopeOf[l]
        /\ Fits(l, n) \/ Bursts(n) \/ \E v \in Process \ {n} : Evicting(l, n, v)
    BY <1>9, ReserveCapacity
  <2>2. \A q \in Process \ {n} : Calm(q)
    BY <2>1 DEF Fits, Bursts, Evicting
  <2>3. After \subseteq Before \cup {n}
    BY <1>3, <1>4, <2>2
  <2>4. CASE Bursts(n) \/ MemberOf[ScopeOf[l]] # m
    <3>1. n \notin After
      BY <1>4, <2>1, <2>4 DEF Bursts
    <3> QED
      BY <1>2, <2>3, <3>1
  <2>5. CASE MemberOf[ScopeOf[l]] = m /\ Cardinality(OfMember(residents, m)) < MaxPerMember
    <3>1. Cardinality(Before) < MaxPerMember
      BY <1>1, <2>5
    <3> HIDE DEF Before, After
    <3> QED
      BY <1>1, <2>3, <3>1, Grows
  <2>6. CASE MemberOf[ScopeOf[l]] = m /\ Fits(l, n)
    BY <2>5, <2>6 DEF Fits, HasResidentCapacity
  <2>7. ASSUME NEW v \in Process \ {n}, MemberOf[ScopeOf[l]] = m, Evicting(l, n, v)
        PROVE  Cardinality(After) <= MaxPerMember
    <3>1. v \in Evictable(m) /\ entry'[v].state = "Stopping"
      BY <2>7 DEF Evicting
    <3>2. CASE MemberOf[entry[v].scope] = m
      <4>1. v \in Before
        BY <3>1, <3>2, EvictableIdle DEF OfMember, Serving, WarmResident
      <4>2. After \subseteq (Before \ {v}) \cup {n}
        BY <1>4, <2>3, <3>1
      <4> HIDE DEF Before, After
      <4> QED
        BY <1>1, <4>1, <4>2, Exchanges
    <3>3. CASE MemberOf[entry[v].scope] # m
      <4>1. ~(Cardinality(OfMember(residents, m)) >= MaxPerMember)
        BY <3>1, <3>3 DEF Evictable, OfMember
      <4>2. Cardinality(OfMember(residents, m)) < MaxPerMember
        BY <1>1, <4>1
      <4> QED
        BY <2>5, <2>7, <4>2
    <3> QED
      BY <3>2, <3>3
  <2> QED
    BY <2>1, <2>4, <2>6, <2>7
<1> QED
  BY <1>2, <1>5, <1>6, <1>7, <1>8, <1>9, CapacitySteps

\* A step keeps the quota.
LEMMA QuotaStep ==
  ASSUME HostInv, LaunchStages, ResidentTable, Quota, Next
  PROVE  Quota'
<1> SUFFICES ASSUME kind # "zcode"
             PROVE  /\ WarmResident'
                    /\ Cardinality(Counted') <= MaxGlobal
                    /\ \A m \in Member : Cardinality(OfMember(Serving, m)') <= MaxPerMember
  <2>1. kind' = kind
    BY LeaseSteps
  <2> QED
    BY <2>1 DEF Quota
<1>1. /\ WarmResident /\ Cardinality(Counted) <= MaxGlobal
      /\ \A m \in Member : Cardinality(OfMember(Serving, m)) <= MaxPerMember
  BY DEF Quota
<1>2. WarmResident'
  BY <1>1, WarmResidentStep
<1>3. Cardinality(Counted') <= MaxGlobal
  BY <1>1, CountedStep DEF WarmResident
<1> QED
  BY <1>1, <1>2, <1>3, MemberStep

\* What the quota rests on.
QuotaInv == CleanupInv /\ ResidentTable /\ Quota

\* It holds at the start.
LEMMA QuotaInit ==
  ASSUME Init
  PROVE  QuotaInv
<1>1. /\ \A p \in Process : entry[p].state = "absent" /\ startup[p] = "none"
      /\ \A l \in Lease : handler[l] = "idle"
      /\ background = {} /\ residents = {}
  BY DEF Init, Absent
<1>2. Present = {} /\ CleanupInv
  BY <1>1, CleanupInit DEF Present
<1>3. ResidentTable
  BY <1>1, <1>2, FS_EmptySet DEF ResidentTable, Pending
<1>4. Counted = {} /\ \A m : OfMember(Serving, m) = {}
  BY <1>1, <1>2 DEF Counted, Victims, Evictors, Pending, OfMember, Serving
<1>5. Cardinality({}) = 0 /\ MaxGlobal \in Nat /\ MaxPerMember \in Nat
  BY FS_EmptySet, FleetAssumption DEF FleetAssumption
<1>6. Quota
  <2>1. WarmResident
    BY <1>1 DEF WarmResident
  <2>2. Cardinality(Counted) <= MaxGlobal
    BY <1>4, <1>5
  <2>3. \A m : Cardinality(OfMember(Serving, m)) <= MaxPerMember
    BY <1>4, <1>5
  <2> QED
    BY <2>1, <2>2, <2>3 DEF Quota
<1> QED
  BY <1>2, <1>3, <1>6 DEF QuotaInv

\* Every step keeps it.
LEMMA QuotaKept ==
  ASSUME QuotaInv, [Next]_vars
  PROVE  QuotaInv'
<1>1. CleanupInv'
  BY CleanupKept DEF QuotaInv
<1>2. CASE Next
  BY <1>1, <1>2, ResidentTableStep, QuotaStep DEF QuotaInv, CleanupInv
<1>3. CASE UNCHANGED vars
  <2>1. ResidentTable'
    BY <1>3 DEF QuotaInv, ResidentTable, Present, vars, fleet, tasks
  <2>2. Quota'
    BY <1>3 DEF QuotaInv, Quota, WarmResident, Counted, Victims, Evictors, Serving, OfMember,
                Present, vars, fleet, tasks, outside, callers
  <2> QED
    BY <1>1, <2>1, <2>2 DEF QuotaInv
<1> QED
  BY <1>2, <1>3

\* Every state of the fleet counts its residents rightly.
THEOREM QuotaInvHolds == Spec => []QuotaInv
BY QuotaInit, QuotaKept, PTL DEF Spec

\* The limits follow.
LEMMA QuotaBounds ==
  ASSUME QuotaInv
  PROVE  ResidentBound
<1> SUFFICES ASSUME kind # "zcode"
             PROVE  /\ Cardinality(LiveResident) <= MaxGlobal
                    /\ \A m \in Member : Cardinality(OfMember(Serving, m)) <= MaxPerMember
  BY DEF ResidentBound
<1>1. HostInv /\ ResidentTable /\ Quota
  BY DEF QuotaInv, CleanupInv
<1>2. LiveResident \subseteq Counted /\ IsFiniteSet(Counted) /\ MaxGlobal \in Nat
  BY <1>1, LiveCounted, CountedBound, FleetAssumption DEF FleetAssumption
<1>3. Cardinality(LiveResident) <= MaxGlobal
  BY <1>1, <1>2, Shrinks DEF Quota
<1> QED
  BY <1>1, <1>3 DEF Quota

\* However evictions, failed stops, starts that are refused and reuse interleave, the live
\* residents stay within the limit of the core and those that serve a member within its own
\* (plan_acquire, reserve_idle_eviction, restore_stopping_resident_capacity).
THEOREM ResidentBoundHolds == Spec => []ResidentBound
BY QuotaInvHolds, QuotaBounds, PTL

\* The tables of the fleet, its limits, its fences and the processes agree whenever no lock is
\* held (FleetState against the processes it started).
THEOREM FleetAgreesHolds == Spec => []FleetAgrees
<1>1. QuotaInv => FleetAgrees
  <2>1. QuotaInv => ResidentBound
    BY QuotaBounds
  <2>2. QuotaInv => FencedQuiet
    BY FencedQuietHolds DEF QuotaInv, CleanupInv
  <2> QED
    BY <2>1, <2>2 DEF QuotaInv, CleanupInv, HostInv, FleetAgrees
<1> QED
  BY <1>1, QuotaInvHolds, PTL
=============================================================================
