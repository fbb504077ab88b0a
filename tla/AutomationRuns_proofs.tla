------------------------ MODULE AutomationRuns_proofs ------------------------
(***************************************************************************)
(* The safety of AutomationRuns for any definitions, schedules, limits and *)
(* numbers of sleeps, restarts and corrections of the clock: no occurrence *)
(* is lost, what ended has no work left, and an occurrence is started or   *)
(* skipped for the right reason and once.                                  *)
(***************************************************************************)
EXTENDS AutomationRuns, FiniteSetTheorems, TLAPS

(***************************************************************************)
(* The times of a schedule.                                                *)
(***************************************************************************)
\* A set of numbers that is not empty has a least one.
LEMMA Least ==
    ASSUME NEW T, T \subseteq Nat, T # {}
    PROVE  \E x \in T : \A y \in T : x <= y
<1> DEFINE Below(x) == {y \in T : y <= x}
           Belows == {Below(x) : x \in T}
<1>1. \A x \in T : IsFiniteSet(Below(x)) /\ Below(x) \subseteq Nat
  <2> TAKE x \in T
  <2>1. x \in Nat
    OBVIOUS
  <2>4. ASSUME NEW y \in Below(x)
        PROVE  y \in 0 .. x
    <3>1. y \in Nat /\ y <= x
      BY <2>4
    <3> QED
      BY <2>1, <3>1
  <2>2. IsFiniteSet(0 .. x)
    BY FS_Interval
  <2> QED
    BY <2>2, <2>4, FS_Subset
<1>2. Belows \subseteq FiniteSubsetsOf(Nat) /\ Belows # {}
  BY <1>1 DEF FiniteSubsetsOf
<1>3. PICK S \in Belows : \A U \in Belows : <<U, S>> \notin StrictSubsetOrdering(Nat)
  <2> HIDE DEF Belows
  <2> QED
    BY <1>2, FS_StrictSubsetOrderingWellFounded, WFMin
<1>4. PICK x \in T : S = Below(x)
  BY <1>3
<1>5. ASSUME NEW y \in T, ~(x <= y)
      PROVE  FALSE
  <2>1. x \in Nat /\ y \in Nat /\ y < x
    BY <1>4, <1>5
  <2>4. \A z \in Nat : z <= y => z <= x
    BY <2>1
  <2>5. Below(y) \subseteq S
    BY <1>4, <2>4
  <2>6. x \in S /\ x \notin Below(y)
    BY <1>4, <2>1
  <2>2. Below(y) \in SUBSET Nat /\ S \in SUBSET Nat /\ Below(y) \in Belows
    BY <1>1, <1>4
  <2>3. <<Below(y), S>> \in StrictSubsetOrdering(Nat)
    BY <2>2, <2>5, <2>6 DEF StrictSubsetOrdering
  <2> QED
    BY <1>3, <2>2, <2>3
<1> QED
  BY <1>5

\* A set of numbers up to a bound has a greatest one.
LEMMA Greatest ==
    ASSUME NEW T, T \subseteq Nat, T # {}, NEW b \in Nat, \A x \in T : x <= b
    PROVE  \E x \in T : \A y \in T : y <= x
<1> DEFINE D == {n \in Nat : b - n \in T}
<1>1. D # {}
  <2>1. PICK x \in T : TRUE
    OBVIOUS
  <2>2. x \in Nat /\ x <= b
    BY <2>1
  <2>3. b - x \in Nat /\ b - (b - x) = x
    BY <2>2
  <2>4. b - x \in D
    BY <2>1, <2>3
  <2> QED
    BY <2>4
<1>2. PICK n \in D : \A m \in D : n <= m
  <2>1. D \subseteq Nat
    OBVIOUS
  <2> HIDE DEF D
  <2> QED
    BY <1>1, <2>1, Least
<1>3. b - n \in T /\ n \in Nat
  BY <1>2
<1>4. ASSUME NEW y \in T
      PROVE  y <= b - n
  <2>1. y \in Nat /\ y <= b
    BY <1>4
  <2>2. b - y \in Nat /\ b - (b - y) = y
    BY <2>1
  <2>3. b - y \in D
    BY <1>4, <2>2
  <2>4. n <= b - y
    BY <1>2, <2>3
  <2> QED
    BY <1>3, <2>1, <2>4
<1> QED
  BY <1>3, <1>4

\* Min and Max of the library, for sets that have such an element.
LEMMA MinOf ==
    ASSUME NEW T, T \subseteq Nat, T # {}
    PROVE  Min(T) \in T /\ (\A y \in T : Min(T) <= y)
BY Least DEF Min

\* The same for Max, up to a bound.
LEMMA MaxOf ==
    ASSUME NEW T, T \subseteq Nat, T # {}, NEW b \in Nat, \A x \in T : x <= b
    PROVE  Max(T) \in T /\ (\A y \in T : y <= Max(T))
BY Greatest DEF Max

\* NextAfter skips no time of the schedule.
LEMMA NextFacts ==
    ASSUME NEW s \in Schedule, NEW t \in Nat
    PROVE  /\ NextAfter(s, t) \in s.at \cup {None}
           /\ NextAfter(s, t) \in Nat \cup {None}
           /\ NextAfter(s, t) # None => NextAfter(s, t) > t
           /\ \A x \in s.at : x > t => NextAfter(s, t) # None /\ NextAfter(s, t) <= x
<1> DEFINE later == {x \in s.at : x > t}
<1>1. s.at \subseteq Nat /\ None \notin Nat
  BY ScheduleAssumption, LimitAssumption
<1>2. NextAfter(s, t) = IF later = {} THEN None ELSE Min(later)
  BY DEF NextAfter
<1>3. CASE later = {}
  BY <1>1, <1>2, <1>3
<1>4. CASE later # {}
  <2>1. Min(later) \in later /\ (\A y \in later : Min(later) <= y)
    BY <1>1, <1>4, MinOf
  <2>2. NextAfter(s, t) = Min(later)
    BY <1>2, <1>4
  <2>3. Min(later) \in s.at /\ Min(later) > t /\ Min(later) \in Nat
    BY <1>1, <2>1
  <2> QED
    BY <1>1, <2>1, <2>2, <2>3
<1> QED
  BY <1>3, <1>4

\* LatestUpTo skips none either.
LEMMA LatestFacts ==
    ASSUME NEW s \in Schedule, NEW t \in Nat
    PROVE  /\ LatestUpTo(s, t) \in s.at \cup {None}
           /\ LatestUpTo(s, t) # None => LatestUpTo(s, t) \in Nat /\ LatestUpTo(s, t) <= t
           /\ \A x \in s.at : x <= t => LatestUpTo(s, t) # None /\ x <= LatestUpTo(s, t)
<1> DEFINE past == {x \in s.at : x <= t}
<1>1. s.at \subseteq Nat /\ None \notin Nat
  BY ScheduleAssumption, LimitAssumption
<1>2. LatestUpTo(s, t) = IF past = {} THEN None ELSE Max(past)
  BY DEF LatestUpTo
<1>3. CASE past = {}
  BY <1>1, <1>2, <1>3
<1>4. CASE past # {}
  <2>1. Max(past) \in past /\ (\A y \in past : y <= Max(past))
    BY <1>1, <1>4, MaxOf
  <2>2. LatestUpTo(s, t) = Max(past)
    BY <1>2, <1>4
  <2>3. Max(past) \in s.at /\ Max(past) <= t /\ Max(past) \in Nat
    BY <1>1, <2>1
  <2> QED
    BY <1>1, <2>1, <2>2, <2>3
<1> QED
  BY <1>3, <1>4

(***************************************************************************)
(* Types.                                                                  *)
(***************************************************************************)
\* What a row is, and which of its columns go together.
OccRow ==
    {r \in Row :
        /\ r.status = "running" => r.delivery # "none"
        /\ r.delivery = "claimed" => r.agent # "none"
        /\ r.reason = "missed" => r.status = "skipped"
        /\ r.status \in {"none", "skipped"} => r.delivery = "none" /\ r.agent = "none"
        /\ r.status \in {"completed", "failed"} => ~Working(r)}

LiveRow ==
    {d \in [state : {"live"}, enabled : BOOLEAN, schedule : Schedule, next : Nat \cup {None}, limit : Limit] :
        d.next \in d.schedule.at \cup {None}}

DefRow == [state : {"new", "deleted"}] \cup LiveRow

ControlRow == [epoch : Nat, boundary : Time, paused : BOOLEAN]

DriverRow == [at : {"top", "ticked", "claiming", "rearm", "wait"}, now : Time, boundary : Time,
              todo : SUBSET Automation, next : Nat \cup {None}, scan : BOOLEAN, retry : BOOLEAN]

Typed ==
    /\ clock \in Time /\ device \in {"awake", "asleep", "down"} /\ slept \in BOOLEAN
    /\ boundary \in Time
    /\ control \in ControlRow /\ desk \in ControlRow /\ mail \subseteq ControlRow
    /\ def \in [Automation -> DefRow]
    /\ occ \in [Automation -> [Slot -> OccRow]]
    /\ driver \in DriverRow /\ permit \in BOOLEAN
    /\ awakeAt \subseteq Time /\ since \in [Automation -> Time \cup {None}]
    /\ gone \subseteq Automation \X Slot
    /\ count \in [sleeps : Nat, crashes : Nat, edits : Nat, back : Nat, unsure : Nat]

(***************************************************************************)
(* The inductive invariant.                                                *)
(***************************************************************************)
\* Never two active occurrences of an Automation.
ActiveOnce ==
    \A a \in Automation : \A s, u \in Slot : IsActive(occ[a][s]) /\ IsActive(occ[a][u]) => s = u

\* A sleeping device has slept; only a definition that lives has a schedule.
Slept == device = "asleep" => slept
SinceLive == \A a \in Automation : since[a] # None => Live(a)

\* While the clock was never set back: the driver does not work ahead of it.
NotAhead == driver.now <= clock

\* The core runs now, and has run since the boundary on a device that did not sleep.
AwakeNow == Up => clock \in awakeAt
AwakeSince == (Up /\ ~slept) => \A t \in Nat : boundary <= t /\ t <= clock => t \in awakeAt

\* The same of the times a pass of the driver may claim.
Sampled == driver.at \in {"ticked", "claiming"}
TickAwake ==
    (Native /\ Sampled) => \A t \in Nat : driver.boundary <= t /\ t <= driver.now => t \in awakeAt

\* What a batch holds is due, and what is active has work.
BatchDue == driver.at = "claiming" => \A a \in driver.todo : Due(a, driver.now)
BatchWorks ==
    driver.at = "claiming" => \A a \in Automation, s \in Slot : IsActive(occ[a][s]) => Working(occ[a][s])

\* A time that has a row, or had one, has passed and lies before the next.
Taken(a, t) == occ[a][t].status # "none" \/ <<a, t>> \in gone
PastSlots ==
    \A a \in Automation, t \in Slot \ Manual :
        Taken(a, t) => /\ t <= clock
                       /\ (Live(a) /\ def[a].next # None) => t < def[a].next

ClockInv == ~SetBackOnce => NotAhead /\ AwakeNow /\ AwakeSince /\ TickAwake /\ PastSlots

AutomationInv ==
    /\ Typed /\ ActiveOnce /\ Slept /\ SinceLive /\ BatchDue /\ BatchWorks
    /\ ClockInv /\ Accounted
(***************************************************************************)
(* Rows.                                                                   *)
(***************************************************************************)
\* What may become of a row that is not deleted.
Moves(r, q) ==
    /\ q \in OccRow
    /\ q.status = "none" <=> r.status = "none"
    /\ r.reason = "missed" => q = r
    /\ r.status \in {"completed", "failed", "skipped"} => q.status = r.status
    /\ IsActive(q) => IsActive(r)

\* A row that is ended while nothing works on it.
LEMMA EndedRow ==
    ASSUME NEW r \in Row, r.delivery \in {"settled", "failed", "cancelled"} \/
                             (r.delivery = "claimed" /\ r.agent \in {"succeeded", "failed", "cancelled"}),
           NEW status \in {"completed", "failed"},
           NEW reason \in {"none", "no_result", "execution_failed", "timeout"}
    PROVE  Ended(r, status, reason) \in OccRow /\ Ended(r, status, reason).status = status
<1> DEFINE e == Ended(r, status, reason)
<1>1. /\ e \in Row /\ e.status = status /\ e.reason = reason
      /\ e.delivery = r.delivery /\ e.agent = r.agent
  BY DEF Ended, Row, Reason
<1> HIDE DEF e
<1>2. e \in OccRow
  BY <1>1 DEF OccRow, Working
<1> QED
  BY <1>1, <1>2 DEF e

\* settle_one_run ends an active occurrence or finds it at work.
LEMMA SettledRow ==
    ASSUME NEW row \in OccRow, NEW now \in Nat, IsActive(row)
    PROVE  /\ Moves(row, Settled(row, now))
           /\ IsActive(Settled(row, now)) => Working(Settled(row, now))
<1>1. /\ row.status = "running" /\ row.delivery # "none" /\ row.reason # "missed"
      /\ row.delivery = "claimed" => row.agent # "none"
  BY DEF OccRow, Row, IsActive
<1>2. row = [status |-> row.status, reason |-> row.reason, deadline |-> row.deadline,
             agent |-> row.agent, delivery |-> row.delivery, result |-> row.result]
  BY DEF OccRow, Row
<1>3. Settled(row, now) \in OccRow /\ Settled(row, now).status # "none"
  <2>1. CASE row.delivery = "waiting"
    BY <1>1, <2>1 DEF Settled, Ended, OccRow, Row, Reason, Working
  <2>2. CASE row.delivery \in {"settled", "failed", "cancelled"}
    <3>1. Settled(row, now) \in {Ended(row, "completed", "none"), Ended(row, "failed", "no_result"),
                                 Ended(row, "failed", "execution_failed")}
      BY <2>2 DEF Settled, Succeeded
    <3> QED
      BY <2>2, <3>1, EndedRow DEF OccRow
  <2>3. CASE row.delivery = "claimed" /\ row.agent \in {"succeeded", "failed", "cancelled"}
    <3>1. PICK to \in {"settled", "failed", "cancelled"} :
              Settled(row, now) \in
                  {Ended([row EXCEPT !.delivery = to], "completed", "none"),
                   Ended([row EXCEPT !.delivery = to], "failed", "no_result"),
                   Ended([row EXCEPT !.delivery = to], "failed", "execution_failed")}
      BY <2>3 DEF Settled, Succeeded
    <3> DEFINE moved == [row EXCEPT !.delivery = to]
    <3>2. /\ moved \in Row /\ moved.delivery = to /\ moved.agent = row.agent
          /\ moved.status = row.status /\ moved.reason = row.reason
      BY DEF OccRow, Row
    <3> HIDE DEF moved
    <3>3. Settled(row, now) \in {Ended(moved, "completed", "none"), Ended(moved, "failed", "no_result"),
                                 Ended(moved, "failed", "execution_failed")}
      BY <3>1 DEF moved
    <3> QED
      BY <2>3, <3>2, <3>3, EndedRow
  <2>4. CASE row.delivery = "claimed" /\ row.agent \in {"running", "asking"}
    <3>1. Settled(row, now) \in {row, Aborted(row, "interaction_required"), Aborted(row, "timeout")}
      BY <2>4 DEF Settled
    <3> QED
      BY <1>1, <2>4, <3>1 DEF Ended, Aborted, OccRow, Row, Reason, Working
  <2> QED
    BY <1>1, <2>1, <2>2, <2>3, <2>4 DEF OccRow, Row
<1>4. IsActive(Settled(row, now)) => Working(Settled(row, now))
  <2>1. CASE row.delivery = "waiting"
    BY <1>1, <2>1 DEF Settled, Ended, OccRow, Row, IsActive, Working
  <2>2. CASE row.delivery \in {"settled", "failed", "cancelled"}
    BY <1>1, <2>2 DEF Settled, Ended, Succeeded, OccRow, Row, IsActive
  <2>3. CASE row.delivery = "claimed" /\ row.agent \in {"succeeded", "failed", "cancelled"}
    BY <1>1, <2>3 DEF Settled, Ended, Succeeded, OccRow, Row, IsActive
  <2>4. CASE row.delivery = "claimed" /\ row.agent \in {"running", "asking"}
    BY <1>1, <2>4 DEF Settled, Ended, Aborted, OccRow, Row, IsActive, Working
  <2> QED
    BY <1>1, <2>1, <2>2, <2>3, <2>4 DEF OccRow, Row
<1> QED
  BY <1>1, <1>3, <1>4 DEF Moves, IsActive

\* A row stays as it is.
LEMMA Unmoved ==
    ASSUME NEW row \in OccRow
    PROVE  Moves(row, row)
BY DEF Moves

\* Settling every occurrence.
LEMMA AllSettled ==
    ASSUME Typed, NEW now \in Nat
    PROVE  /\ SettleAll(now) \in [Automation -> [Slot -> OccRow]]
           /\ \A a \in Automation, s \in Slot :
                 /\ Moves(occ[a][s], SettleAll(now)[a][s])
                 /\ IsActive(SettleAll(now)[a][s]) => Working(SettleAll(now)[a][s])
<1>1. ASSUME NEW a \in Automation, NEW s \in Slot
      PROVE  /\ Moves(occ[a][s], SettleAll(now)[a][s])
             /\ IsActive(SettleAll(now)[a][s]) => Working(SettleAll(now)[a][s])
  <2>1. occ[a][s] \in OccRow
    BY DEF Typed
  <2>2. SettleAll(now)[a][s] = IF IsActive(occ[a][s]) THEN Settled(occ[a][s], now) ELSE occ[a][s]
    BY DEF SettleAll
  <2> QED
    BY <2>1, <2>2, SettledRow, Unmoved
<1>2. \A a \in Automation, s \in Slot : SettleAll(now)[a][s] \in OccRow
  BY <1>1 DEF Moves
<1>3. SettleAll(now) = [a \in Automation |-> [s \in Slot |-> SettleAll(now)[a][s]]]
  BY DEF SettleAll
<1> QED
  BY <1>1, <1>2, <1>3

\* One row of all of them changes.
LEMMA OneRow ==
    ASSUME NEW o \in [Automation -> [Slot -> OccRow]], NEW a \in Automation, NEW s \in Slot, NEW q \in OccRow
    PROVE  /\ [o EXCEPT ![a][s] = q] \in [Automation -> [Slot -> OccRow]]
           /\ [o EXCEPT ![a][s] = q][a][s] = q
           /\ \A b \in Automation, u \in Slot :
                 (b # a \/ u # s) => [o EXCEPT ![a][s] = q][b][u] = o[b][u]
OBVIOUS

\* Times are numbers.
LEMMA TimesAreNat == MaxTime \in Nat /\ Time \subseteq Nat /\ 0 \in Time /\ None \notin Nat
<1>1. MaxTime \in Nat
  BY BoundAssumption
<1> QED
  BY <1>1, LimitAssumption DEF Time

\* The row of a definition that lives.
LEMMA LiveDef ==
    ASSUME Typed, NEW a \in Automation, Live(a)
    PROVE  /\ def[a] \in LiveRow
           /\ def[a].schedule \in Schedule /\ def[a].schedule.at \subseteq Nat
           /\ def[a].next \in def[a].schedule.at \cup {None} /\ def[a].next \in Nat \cup {None}
           /\ def[a].enabled \in BOOLEAN
           /\ def[a].limit \in Limit /\ def[a].limit \in Nat \cup {None}
<1>1. def[a] \in DefRow /\ def[a].state = "live"
  BY DEF Typed, Live
<1>2. def[a] \in LiveRow
  BY <1>1 DEF DefRow
<1> QED
  BY <1>2, ScheduleAssumption, LimitAssumption DEF LiveRow

\* The rows a claim may leave.
LEMMA NewRow ==
    ASSUME Typed, NEW a \in Automation, Live(a), NEW row \in ClaimedRows(a)
    PROVE  /\ row \in OccRow /\ row.status \in {"running", "failed"}
           /\ row.reason \in {"none", "rejected", "interrupted"}
           /\ IsActive(row) => Working(row)
<1>1. def[a].limit \in Nat \cup {None} /\ clock \in Nat
  BY LiveDef, TimesAreNat DEF Typed
<1>2. clock + def[a].limit \in Nat \/ def[a].limit = None
  BY <1>1
<1> DEFINE started == [NoRow EXCEPT !.status = "running", !.delivery = "waiting",
                           !.deadline = IF def[a].limit = None THEN None ELSE clock + def[a].limit]
<1>3. \/ row = started
      \/ row = [NoRow EXCEPT !.status = "failed", !.reason = "rejected"]
      \/ row = [started EXCEPT !.status = "failed", !.reason = "interrupted", !.delivery = "cancelled"]
  BY DEF ClaimedRows
<1> QED
  BY <1>2, <1>3 DEF NoRow, OccRow, Row, Reason, IsActive, Working

\* The row of a skipped occurrence.
LEMMA SkippedRow ==
    ASSUME NEW why \in {"missed", "overlap"}
    PROVE  /\ Skipped(why) \in OccRow /\ Skipped(why).status = "skipped"
           /\ Skipped(why).reason = why /\ ~IsActive(Skipped(why))
BY DEF Skipped, NoRow, OccRow, Row, Reason, IsActive, Working

(***************************************************************************)
(* What a step does to the rows.                                           *)
(***************************************************************************)
RowsMove ==
    /\ occ' \in [Automation -> [Slot -> OccRow]]
    /\ \A a \in Automation, s \in Slot : Moves(occ[a][s], occ'[a][s])

\* A row of its own moves and the others stay.
LEMMA OneMoves ==
    ASSUME Typed, NEW a \in Automation, NEW s \in Slot, NEW q,
           Moves(occ[a][s], q), occ' = [occ EXCEPT ![a][s] = q]
    PROVE  RowsMove
<1>1. q \in OccRow
  BY DEF Moves
<1>2. occ \in [Automation -> [Slot -> OccRow]]
  BY DEF Typed
<1>3. /\ occ' \in [Automation -> [Slot -> OccRow]] /\ occ'[a][s] = q
      /\ \A b \in Automation, u \in Slot : (b # a \/ u # s) => occ'[b][u] = occ[b][u]
  BY <1>1, <1>2, OneRow
<1>4. ASSUME NEW b \in Automation, NEW u \in Slot
      PROVE  Moves(occ[b][u], occ'[b][u])
  <2>1. CASE b = a /\ u = s
    BY <1>3, <2>1
  <2>2. CASE b # a \/ u # s
    BY <1>2, <1>3, <2>2, Unmoved
  <2> QED
    BY <2>1, <2>2
<1> QED
  BY <1>3, <1>4 DEF RowsMove

\* No row moves.
LEMMA NoneMoves ==
    ASSUME Typed, occ' = occ
    PROVE  RowsMove
BY Unmoved DEF RowsMove, Typed

\* The work of a Delivery and of its run.
LEMMA WorkMoves ==
    ASSUME Typed, NEW a \in Automation, NEW s \in Slot,
           \/ ClaimDelivery(a, s) \/ WithdrawDelivery(a, s) \/ AskUser(a, s)
           \/ EndRun(a, s) \/ SettleDelivery(a, s)
    PROVE  RowsMove /\ gone' = gone
<1> DEFINE r == occ[a][s]
<1>1. r \in OccRow
  BY DEF Typed
<1>2. /\ r.status = "running" => r.delivery # "none"
      /\ r.delivery = "claimed" => r.agent # "none"
      /\ r.reason = "missed" => r.status = "skipped"
      /\ r.status \in {"none", "skipped"} => r.delivery = "none" /\ r.agent = "none"
      /\ r.status \in {"completed", "failed"} => ~Working(r)
  BY <1>1 DEF OccRow, Row
<1> HIDE DEF r
<1>3. CASE ClaimDelivery(a, s)
  <2>1. /\ r.delivery = "waiting" /\ gone' = gone
        /\ occ' = [occ EXCEPT ![a][s] = [r EXCEPT !.delivery = "claimed", !.agent = "running"]]
    BY <1>3 DEF ClaimDelivery, WorkStep, r
  <2>2. Moves(r, [r EXCEPT !.delivery = "claimed", !.agent = "running"])
    BY <1>1, <1>2, <2>1 DEF Moves, OccRow, Row, Working, IsActive
  <2> QED
    BY <2>1, <2>2, OneMoves DEF r
<1>4. CASE WithdrawDelivery(a, s)
  <2>1. /\ r.delivery = "waiting" /\ gone' = gone
        /\ occ' = [occ EXCEPT ![a][s] = [r EXCEPT !.delivery = "cancelled"]]
    BY <1>4 DEF WithdrawDelivery, WorkStep, r
  <2>2. Moves(r, [r EXCEPT !.delivery = "cancelled"])
    BY <1>1, <1>2, <2>1 DEF Moves, OccRow, Row, Working, IsActive
  <2> QED
    BY <2>1, <2>2, OneMoves DEF r
<1>5. CASE AskUser(a, s)
  <2>1. PICK end \in {"running", "asking"} :
            /\ r.agent \in {"running", "asking"} /\ gone' = gone
            /\ occ' = [occ EXCEPT ![a][s] = [r EXCEPT !.agent = end]]
    BY <1>5 DEF AskUser, WorkStep, r
  <2>2. Moves(r, [r EXCEPT !.agent = end])
    BY <1>1, <1>2, <2>1 DEF Moves, OccRow, Row, Working, IsActive
  <2> QED
    BY <2>1, <2>2, OneMoves DEF r
<1>6. CASE EndRun(a, s)
  <2>1. PICK end \in {"succeeded", "failed"}, res \in BOOLEAN :
            /\ r.agent = "running" /\ gone' = gone
            /\ occ' = [occ EXCEPT ![a][s] = [r EXCEPT !.agent = end, !.result = res /\ end = "succeeded"]]
    BY <1>6 DEF EndRun, WorkStep, r
  <2>2. (res /\ end = "succeeded") \in BOOLEAN
    OBVIOUS
  <2> DEFINE result == res /\ end = "succeeded"
  <2> HIDE DEF result
  <2>3. Moves(r, [r EXCEPT !.agent = end, !.result = result])
    <3> DEFINE q == [r EXCEPT !.agent = end, !.result = result]
    <3>1. /\ q \in Row /\ q.status = r.status /\ q.reason = r.reason /\ q.delivery = r.delivery
          /\ q.agent = end
      BY <1>1, <2>2 DEF OccRow, Row, result
    <3> HIDE DEF q
    <3>2. q \in OccRow
      BY <1>2, <2>1, <3>1 DEF OccRow, Working
    <3>3. Moves(r, q)
      BY <1>2, <2>1, <3>1, <3>2 DEF Moves, Working, IsActive
    <3> QED
      BY <3>3 DEF q
  <2> QED
    BY <2>1, <2>3, OneMoves DEF r, result
<1>7. CASE SettleDelivery(a, s)
  <2>1. PICK end \in {"settled", "failed", "cancelled"} :
            /\ r.delivery = "claimed" /\ gone' = gone
            /\ occ' = [occ EXCEPT ![a][s] = [r EXCEPT !.delivery = end]]
    BY <1>7 DEF SettleDelivery, WorkStep, r
  <2>2. Moves(r, [r EXCEPT !.delivery = end])
    BY <1>1, <1>2, <2>1 DEF Moves, OccRow, Row, Working, IsActive
  <2> QED
    BY <2>1, <2>2, OneMoves DEF r
<1> QED
  BY <1>3, <1>4, <1>5, <1>6, <1>7

\* The deletion of a Thread clears a row that had work once.
LEMMA Cleared ==
    ASSUME Typed, NEW a \in Automation, NEW s \in Slot, DeleteThread(a, s)
    PROVE  /\ occ' \in [Automation -> [Slot -> OccRow]]
           /\ occ[a][s].status \notin {"none", "skipped"} /\ occ[a][s].reason # "missed"
           /\ occ'[a][s] = NoRow /\ ~IsActive(NoRow) /\ NoRow.status = "none"
           /\ gone' = gone \cup {<<a, s>>}
           /\ \A b \in Automation, u \in Slot : (b # a \/ u # s) => occ'[b][u] = occ[b][u]
<1>1. occ \in [Automation -> [Slot -> OccRow]] /\ occ[a][s] \in OccRow
  BY DEF Typed
<1>2. /\ occ[a][s].delivery # "none" /\ occ' = [occ EXCEPT ![a][s] = NoRow]
      /\ gone' = gone \cup {<<a, s>>}
  BY DEF DeleteThread, WorkStep
<1>3. NoRow \in OccRow /\ ~IsActive(NoRow) /\ NoRow.status = "none"
  BY DEF NoRow, OccRow, Row, Reason, IsActive
<1>4. occ[a][s].status \notin {"none", "skipped"} /\ occ[a][s].reason # "missed"
  BY <1>1, <1>2 DEF OccRow, Row
<1> QED
  BY <1>1, <1>2, <1>3, <1>4, OneRow

\* Which time a claim of the batch consumes, and what it leaves for the next.
LEMMA ConsumedSlot ==
    ASSUME Typed, NEW a \in Automation, Due(a, driver.now), NEW missed \in BOOLEAN
    PROVE  LET slot == Consumed(def[a], missed)
               row == Advanced(def[a], missed)
           IN  /\ slot \in def[a].schedule.at /\ slot \in Slot \ Manual /\ slot \in Nat
               /\ def[a].next \in Nat /\ def[a].next <= slot /\ slot <= driver.now
               /\ ~missed => slot = def[a].next
               /\ row \in LiveRow /\ row.schedule = def[a].schedule
               /\ row.next # None => row.next > slot
               /\ \A x \in def[a].schedule.at : (row.next = None \/ x < row.next) => x <= slot
<1> DEFINE d == def[a]
           slot == Consumed(d, missed)
           from == IF missed THEN driver.now ELSE slot
           next == NextAfter(d.schedule, from)
           row == Advanced(d, missed)
<1>1. /\ d \in LiveRow /\ d.schedule \in Schedule /\ d.schedule.at \subseteq Nat
      /\ d.next \in d.schedule.at /\ d.next \in Nat /\ d.next <= driver.now /\ d.enabled \in BOOLEAN
  BY LiveDef DEF Due
<1>2. driver.now \in Nat
  BY TimesAreNat DEF Typed, DriverRow
<1>3. /\ slot \in d.schedule.at /\ d.next <= slot /\ slot <= driver.now
      /\ ~missed => slot = d.next
      /\ missed => \A x \in d.schedule.at : x <= driver.now => x <= slot
  <2>1. /\ LatestUpTo(d.schedule, driver.now) \in d.schedule.at
        /\ LatestUpTo(d.schedule, driver.now) # None
        /\ LatestUpTo(d.schedule, driver.now) <= driver.now
        /\ \A x \in d.schedule.at : x <= driver.now => x <= LatestUpTo(d.schedule, driver.now)
    BY <1>1, <1>2, LatestFacts
  <2>2. CASE missed
    <3>1. slot = LatestUpTo(d.schedule, driver.now)
      BY <2>1, <2>2 DEF Consumed
    <3> HIDE DEF slot, d
    <3> QED
      BY <1>1, <2>1, <2>2, <3>1
  <2>3. CASE ~missed
    <3>1. slot = d.next
      BY <2>3 DEF Consumed
    <3> HIDE DEF slot, d
    <3> QED
      BY <1>1, <2>3, <3>1
  <2> QED
    BY <2>2, <2>3
<1>4. slot \in Nat /\ from \in Nat /\ slot <= from
  BY <1>1, <1>2, <1>3
<1>5. slot \in Slot \ Manual
  <2>1. slot \in Slot
    BY <1>1, <1>3 DEF Slot
  <2>2. slot \notin Manual
    BY <1>4, ManualAssumption
  <2> QED
    BY <2>1, <2>2
<1>6. row = [d EXCEPT !.enabled = d.enabled /\ ~d.schedule.once, !.next = next]
  BY DEF Advanced
<1> HIDE DEF row
<1>7. /\ next \in d.schedule.at \cup {None} /\ next \in Nat \cup {None}
      /\ next # None => next > from
      /\ \A x \in d.schedule.at : x > from => next # None /\ next <= x
  <2> HIDE DEF from, d
  <2> QED
    BY <1>1, <1>4, NextFacts
<1> HIDE DEF next
<1>8. row.next = next /\ row.schedule = d.schedule /\ row \in LiveRow
  <2>1. (d.enabled /\ ~d.schedule.once) \in BOOLEAN
    OBVIOUS
  <2> DEFINE on == d.enabled /\ ~d.schedule.once
  <2> HIDE DEF on, d
  <2>2. row = [d EXCEPT !.enabled = on, !.next = next]
    BY <1>6 DEF on
  <2>3. on \in BOOLEAN
    BY <2>1 DEF on
  <2> QED
    BY <1>1, <1>7, <2>2, <2>3 DEF LiveRow
<1>9. next # None => next > slot
  <2> HIDE DEF from, slot, d
  <2> QED
    BY <1>4, <1>7
<1>10. ASSUME NEW x \in d.schedule.at, next = None \/ x < next
       PROVE  x <= slot
  <2>1. x \in Nat /\ ~(x > from)
    <3> HIDE DEF from, slot
    <3> QED
      BY <1>1, <1>4, <1>7, <1>10, TimesAreNat
  <2>2. CASE missed
    <3>1. from = driver.now
      BY <2>2
    <3> HIDE DEF from, slot
    <3> QED
      BY <1>2, <1>3, <2>1, <2>2, <3>1
  <2>3. CASE ~missed
    <3>1. from = slot
      BY <2>3
    <3> HIDE DEF from, slot
    <3> QED
      BY <1>4, <2>1, <2>3, <3>1
  <2> QED
    BY <2>2, <2>3
<1>11. /\ slot = Consumed(def[a], missed) /\ row = Advanced(def[a], missed) /\ d = def[a]
  BY DEF row
<1> HIDE DEF d, slot, from
<1> QED
  BY <1>1, <1>3, <1>4, <1>5, <1>8, <1>9, <1>10, <1>11

\* A claim fails on a slot that has a row already,
ClaimFails == occ' = occ /\ def' = def /\ driver'.at = "wait" /\ driver'.now = 0

\* or records the occurrence it consumes, if that has no row, and advances the
\* definition.
RecordsSkip(a, slot) ==
    \/ Missed(a) /\ occ' = [occ EXCEPT ![a][slot] = Skipped("missed")]
    \/ ~Missed(a) /\ Active(a) /\ occ' = [occ EXCEPT ![a][slot] = Skipped("overlap")]

RecordsClaim(a, slot) ==
    /\ ~Missed(a) /\ ~Active(a)
    /\ \E row \in ClaimedRows(a) : occ' = [occ EXCEPT ![a][slot] = row]

Records(a, slot) ==
    \/ occ[a][slot].status # "none" /\ occ' = occ
    \/ occ[a][slot].status = "none" /\ (RecordsSkip(a, slot) \/ RecordsClaim(a, slot))

Consumes(a, slot) ==
    /\ slot \in def[a].schedule.at /\ slot \in Slot \ Manual /\ slot \in Nat
    /\ def[a].next \in Nat /\ def[a].next <= slot /\ slot <= driver.now
    /\ ~Missed(a) => slot = def[a].next

Advances(a, slot) ==
    /\ \E row \in LiveRow :
          /\ def' = [def EXCEPT ![a] = row]
          /\ row.schedule = def[a].schedule
          /\ row.next # None => row.next > slot
          /\ \A x \in def[a].schedule.at : (row.next = None \/ x < row.next) => x <= slot
    /\ driver'.now = driver.now /\ driver'.boundary = driver.boundary
    /\ driver'.todo = driver.todo \ {a} /\ driver'.at \in {"rearm", "claiming"}

\* A transaction of claim_due: the error that ends the batch, or one occurrence
\* of one definition consumed and the definition advanced.
LEMMA ClaimOutcome ==
    ASSUME Typed, BatchDue, NEW a \in Automation, ClaimDue(a)
    PROVE  /\ Up /\ driver.at = "claiming" /\ Due(a, driver.now)
           /\ driver' \in DriverRow /\ permit' \in BOOLEAN
           /\ UNCHANGED <<clock, device, slept, boundary, link, ghosts, count>>
           /\ ClaimFails \/ (\E slot \in Slot : Consumes(a, slot) /\ Records(a, slot) /\ Advances(a, slot))
<1> DEFINE missed == Missed(a)
           slot == Consumed(def[a], missed)
           row == Advanced(def[a], missed)
           left == driver.todo \ {a}
           goOn == [driver EXCEPT !.todo = left, !.at = IF left = {} THEN "rearm" ELSE "claiming"]
           failed == [Idle EXCEPT !.at = "wait", !.scan = driver.scan, !.next = driver.next, !.retry = TRUE]
<1>1. /\ Up /\ driver.at = "claiming" /\ a \in driver.todo
      /\ UNCHANGED <<clock, device, slept, boundary, link, ghosts, count>>
  BY DEF ClaimDue, DriverStep
<1>2. Due(a, driver.now)
  BY <1>1 DEF BatchDue
<1>3. \/ /\ missed \/ Active(a)
         /\ occ' = [occ EXCEPT ![a] = SkipIn(@, slot, IF missed THEN "missed" ELSE "overlap")]
         /\ def' = [def EXCEPT ![a] = row] /\ driver' = goOn /\ permit' = permit
      \/ /\ ~missed /\ ~Active(a) /\ occ[a][slot].status = "none"
         /\ \E q \in ClaimedRows(a) :
               /\ occ' = [occ EXCEPT ![a][slot] = q]
               /\ permit' = (permit \/ q.delivery # "none")
         /\ def' = [def EXCEPT ![a] = row] /\ driver' = goOn
      \/ /\ ~missed /\ ~Active(a) /\ driver' = failed
         /\ UNCHANGED <<def, occ, permit>>
  BY DEF ClaimDue
<1>4. missed \in BOOLEAN
  BY DEF Missed
<1>5. /\ slot \in def[a].schedule.at /\ slot \in Slot \ Manual /\ slot \in Nat
      /\ def[a].next \in Nat /\ def[a].next <= slot /\ slot <= driver.now
      /\ ~missed => slot = def[a].next
      /\ row \in LiveRow /\ row.schedule = def[a].schedule
      /\ row.next # None => row.next > slot
      /\ \A x \in def[a].schedule.at : (row.next = None \/ x < row.next) => x <= slot
  <2> HIDE DEF missed
  <2> QED
    BY <1>2, <1>4, ConsumedSlot
<1> HIDE DEF slot, row
<1>6. Consumes(a, slot) /\ slot \in Slot
  BY <1>5 DEF Consumes
<1>7. driver \in DriverRow /\ 0 \in Time
  BY TimesAreNat DEF Typed
<1>8. /\ goOn \in DriverRow /\ goOn.now = driver.now /\ goOn.boundary = driver.boundary
      /\ goOn.todo = left /\ goOn.at \in {"rearm", "claiming"}
  BY <1>7 DEF DriverRow
<1>9. failed \in DriverRow /\ failed.at = "wait" /\ failed.now = 0
  BY <1>7 DEF DriverRow, Idle
<1> HIDE DEF failed, goOn
<1>10. def' = [def EXCEPT ![a] = row] /\ driver' = goOn => Advances(a, slot)
  BY <1>5, <1>8 DEF Advances
<1>11. occ \in [Automation -> [Slot -> OccRow]] /\ permit \in BOOLEAN
  BY DEF Typed
<1>12. CASE /\ missed \/ Active(a)
            /\ occ' = [occ EXCEPT ![a] = SkipIn(@, slot, IF missed THEN "missed" ELSE "overlap")]
            /\ def' = [def EXCEPT ![a] = row] /\ driver' = goOn /\ permit' = permit
  <2>1. CASE occ[a][slot].status # "none"
    <3>1. occ' = occ
      BY <1>11, <1>12, <2>1 DEF SkipIn
    <3> QED
      BY <1>1, <1>2, <1>6, <1>8, <1>10, <1>11, <1>12, <2>1, <3>1 DEF Records
  <2>2. CASE occ[a][slot].status = "none"
    <3>1. occ' = [occ EXCEPT ![a][slot] = Skipped(IF missed THEN "missed" ELSE "overlap")]
      BY <1>11, <1>12, <2>2 DEF SkipIn
    <3>2. RecordsSkip(a, slot)
      BY <1>12, <3>1 DEF RecordsSkip
    <3> QED
      BY <1>1, <1>2, <1>6, <1>8, <1>10, <1>11, <1>12, <2>2, <3>2 DEF Records
  <2> QED
    BY <2>1, <2>2
<1>13. CASE /\ ~missed /\ ~Active(a) /\ occ[a][slot].status = "none"
            /\ \E q \in ClaimedRows(a) :
                  /\ occ' = [occ EXCEPT ![a][slot] = q]
                  /\ permit' = (permit \/ q.delivery # "none")
            /\ def' = [def EXCEPT ![a] = row] /\ driver' = goOn
  <2>1. RecordsClaim(a, slot)
    BY <1>13 DEF RecordsClaim
  <2>2. permit' \in BOOLEAN
    BY <1>13
  <2> QED
    BY <1>1, <1>2, <1>6, <1>8, <1>10, <1>13, <2>1, <2>2 DEF Records
<1>14. CASE ~missed /\ ~Active(a) /\ driver' = failed /\ UNCHANGED <<def, occ, permit>>
  <2>1. ClaimFails
    BY <1>9, <1>14 DEF ClaimFails
  <2> QED
    BY <1>1, <1>2, <1>9, <1>11, <1>14, <2>1
<1> QED
  BY <1>3, <1>12, <1>13, <1>14

\* A row for an occurrence that had none.
NewRowOf(a, s, q) ==
    /\ q \in OccRow /\ q.status # "none" /\ occ[a][s].status = "none"
    /\ IsActive(q) => Working(q) /\ ~Active(a)

\* A claim of the batch records one occurrence, or none.
LEMMA ClaimRecords ==
    ASSUME Typed, NEW a \in Automation, Live(a), NEW slot \in Slot, Records(a, slot)
    PROVE  \/ occ[a][slot].status # "none" /\ occ' = occ
           \/ \E q \in OccRow :
                 /\ NewRowOf(a, slot, q) /\ occ' = [occ EXCEPT ![a][slot] = q]
                 /\ q.reason = "missed" <=> Missed(a)
                 /\ q.status # "skipped" => ~Missed(a)
                 /\ q.reason = "overlap" => Active(a)
<1>1. CASE occ[a][slot].status # "none" /\ occ' = occ
  BY <1>1
<1>2. CASE occ[a][slot].status = "none" /\ RecordsSkip(a, slot)
  <2>1. CASE Missed(a) /\ occ' = [occ EXCEPT ![a][slot] = Skipped("missed")]
    <3> DEFINE q == Skipped("missed")
    <3>1. q \in OccRow /\ q.status = "skipped" /\ q.reason = "missed" /\ ~IsActive(q)
      BY SkippedRow
    <3> HIDE DEF q
    <3>2. NewRowOf(a, slot, q)
      BY <1>2, <3>1 DEF NewRowOf
    <3>3. occ' = [occ EXCEPT ![a][slot] = q]
      BY <2>1 DEF q
    <3> QED
      BY <2>1, <3>1, <3>2, <3>3
  <2>2. CASE ~Missed(a) /\ Active(a) /\ occ' = [occ EXCEPT ![a][slot] = Skipped("overlap")]
    <3> DEFINE q == Skipped("overlap")
    <3>1. q \in OccRow /\ q.status = "skipped" /\ q.reason = "overlap" /\ ~IsActive(q)
      BY SkippedRow
    <3> HIDE DEF q
    <3>2. NewRowOf(a, slot, q)
      BY <1>2, <3>1 DEF NewRowOf
    <3>3. occ' = [occ EXCEPT ![a][slot] = q]
      BY <2>2 DEF q
    <3> QED
      BY <2>2, <3>1, <3>2, <3>3
  <2> QED
    BY <1>2, <2>1, <2>2 DEF RecordsSkip
<1>3. CASE occ[a][slot].status = "none" /\ RecordsClaim(a, slot)
  <2>1. PICK q \in ClaimedRows(a) : occ' = [occ EXCEPT ![a][slot] = q]
    BY <1>3 DEF RecordsClaim
  <2>2. /\ q \in OccRow /\ q.status \in {"running", "failed"}
        /\ q.reason \in {"none", "rejected", "interrupted"} /\ (IsActive(q) => Working(q))
    BY NewRow
  <2>3. ~Missed(a) /\ ~Active(a)
    BY <1>3 DEF RecordsClaim
  <2>4. NewRowOf(a, slot, q)
    BY <1>3, <2>2, <2>3 DEF NewRowOf
  <2> QED
    BY <2>1, <2>2, <2>3, <2>4
<1> QED
  BY <1>1, <1>2, <1>3 DEF Records

\* So does run_now.
LEMMA RunNowRecords ==
    ASSUME Typed, NEW a \in Automation, NEW m \in Manual, RunNow(a, m)
    PROVE  \E q \in OccRow : NewRowOf(a, m, q) /\ q.reason # "missed" /\ occ' = [occ EXCEPT ![a][m] = q]
<1>1. Live(a) /\ occ[a][m].status = "none"
  BY DEF RunNow
<1>2. CASE Active(a)
  <2>1. occ' = [occ EXCEPT ![a][m] = Skipped("overlap")]
    BY <1>2 DEF RunNow
  <2> DEFINE q == Skipped("overlap")
  <2>2. q \in OccRow /\ q.status = "skipped" /\ q.reason = "overlap" /\ ~IsActive(q)
    BY SkippedRow
  <2>3. occ' = [occ EXCEPT ![a][m] = q]
    BY <2>1
  <2> HIDE DEF q
  <2>4. NewRowOf(a, m, q)
    BY <1>1, <2>2 DEF NewRowOf
  <2> QED
    BY <2>2, <2>3, <2>4
<1>3. CASE ~Active(a)
  <2>1. PICK q \in ClaimedRows(a) : occ' = [occ EXCEPT ![a][m] = q]
    BY <1>3 DEF RunNow
  <2>2. /\ q \in OccRow /\ q.status \in {"running", "failed"}
        /\ q.reason \in {"none", "rejected", "interrupted"} /\ (IsActive(q) => Working(q))
    BY <1>1, NewRow
  <2>3. NewRowOf(a, m, q)
    BY <1>1, <1>3, <2>2 DEF NewRowOf
  <2> QED
    BY <2>1, <2>2, <2>3
<1> QED
  BY <1>2, <1>3

(***************************************************************************)
(* Type correctness.                                                       *)
(***************************************************************************)
CountRow == [sleeps : Nat, crashes : Nat, edits : Nat, back : Nat, unsure : Nat]

\* A bounded event is counted, and only a correction of the clock counts as one.
LEMMA Counts ==
    ASSUME count \in CountRow, NEW max
    PROVE  /\ Counted("sleeps", max) => count' \in CountRow /\ count'.back = count.back
           /\ Counted("crashes", max) => count' \in CountRow /\ count'.back = count.back
           /\ Counted("edits", max) => count' \in CountRow /\ count'.back = count.back
           /\ Counted("unsure", max) => count' \in CountRow /\ count'.back = count.back
           /\ Counted("back", max) => count' \in CountRow /\ count'.back = count.back + 1
BY DEF CountRow, Counted

\* What a command leaves alone, and the definition it may leave.
LEMMA CommandStep ==
    ASSUME Typed, NEW a \in Automation, Commands(a)
    PROVE  /\ Up /\ driver.at # "claiming" /\ permit' = TRUE
           /\ UNCHANGED <<clock, device, slept, boundary, control, desk, mail, driver, awakeAt,
                          gone>>
           /\ count' \in CountRow /\ count'.back = count.back
<1>1. count \in CountRow
  BY DEF Typed, CountRow
<1> QED
  BY <1>1, Counts DEF Commands, Locked, power, link

\* The rows of the definitions after a command.
DefMoves(a) ==
    \E d \in DefRow, t \in Time \cup {None} :
        /\ def' = [def EXCEPT ![a] = d] /\ since' = [since EXCEPT ![a] = t]
        /\ occ' = occ
        /\ t # None => d \in LiveRow
        /\ \/ t = None /\ (d \in LiveRow => d.next = None)
           \/ /\ t = clock
              /\ d.next # None => d.next > clock
              /\ \A x \in d.schedule.at : x > clock => d.next # None /\ d.next <= x
           \/ /\ Live(a) /\ t = since[a]
              /\ d.state = "live" /\ d.schedule = def[a].schedule /\ d.next = def[a].next

\* The commands of a definition.
LEMMA CommandMoves ==
    ASSUME Typed, NEW a \in Automation,
           \/ \E s \in Schedule : Create(a, s) \/ (\E on \in BOOLEAN : Update(a, s, on))
           \/ \E l \in Limit : ConfigureTimeLimit(a, l)
           \/ Close(a) \/ Delete(a)
    PROVE  Commands(a) /\ DefMoves(a)
<1>1. clock \in Time /\ clock \in Nat /\ def \in [Automation -> DefRow]
      /\ since \in [Automation -> Time \cup {None}]
  BY TimesAreNat DEF Typed
<1>2. ASSUME NEW s \in Schedule, Create(a, s)
      PROVE  Commands(a) /\ DefMoves(a)
  <2> DEFINE next == NextAfter(s, clock)
             d == [state |-> "live", enabled |-> TRUE, schedule |-> s, next |-> next, limit |-> DefaultLimit]
  <2>1. /\ next \in s.at \cup {None} /\ next \in Nat \cup {None}
        /\ next # None => next > clock
        /\ \A x \in s.at : x > clock => next # None /\ next <= x
    BY <1>1, NextFacts
  <2>2. /\ Commands(a) /\ def' = [def EXCEPT ![a] = d] /\ since' = [since EXCEPT ![a] = clock]
        /\ occ' = occ
    BY <1>2 DEF Create
  <2> HIDE DEF next
  <2>3. d \in LiveRow /\ d.next = next /\ d.schedule = s
    BY <2>1, LimitAssumption DEF LiveRow
  <2> HIDE DEF d
  <2>4. d \in DefRow
    BY <2>3 DEF DefRow
  <2> QED
    BY <1>1, <2>1, <2>2, <2>3, <2>4 DEF DefMoves
<1>3. ASSUME NEW s \in Schedule, NEW on \in BOOLEAN, Update(a, s, on)
      PROVE  Commands(a) /\ DefMoves(a)
  <2> DEFINE d == def[a]
             fresh == s # d.schedule \/ (on /\ ~d.enabled)
             next == IF ~on THEN None ELSE IF fresh THEN NextAfter(s, clock) ELSE d.next
             e == [d EXCEPT !.enabled = on, !.schedule = s, !.next = next]
             t == IF ~on THEN None ELSE IF fresh THEN clock ELSE since[a]
  <2>1. /\ Commands(a) /\ Live(a) /\ def' = [def EXCEPT ![a] = e]
        /\ since' = [since EXCEPT ![a] = t]
        /\ occ' = occ
    BY <1>3 DEF Update
  <2>2. /\ d \in LiveRow /\ d.next \in d.schedule.at \cup {None} /\ d.next \in Nat \cup {None}
    BY <2>1, LiveDef
  <2>3. /\ NextAfter(s, clock) \in s.at \cup {None} /\ NextAfter(s, clock) \in Nat \cup {None}
        /\ NextAfter(s, clock) # None => NextAfter(s, clock) > clock
        /\ \A x \in s.at : x > clock => NextAfter(s, clock) # None /\ NextAfter(s, clock) <= x
    BY <1>1, NextFacts
  <2>4. next \in s.at \cup {None} /\ next \in Nat \cup {None}
    <3> HIDE DEF d
    <3> QED
      BY <2>2, <2>3
  <2>5. t \in Time \cup {None}
    BY <1>1
  <2>6. CASE ~on
    <3>1. next = None /\ t = None
      BY <2>6
    <3> HIDE DEF next, t, d
    <3>2. e \in LiveRow /\ e.next = None
      BY <2>2, <2>4, <3>1 DEF LiveRow
    <3> HIDE DEF e
    <3>3. e \in DefRow
      BY <3>2 DEF DefRow
    <3> QED
      BY <2>1, <3>1, <3>2, <3>3 DEF DefMoves
  <2>7. CASE on /\ fresh
    <3>1. next = NextAfter(s, clock) /\ t = clock
      BY <2>7
    <3> HIDE DEF next, t, d
    <3>2. e \in LiveRow /\ e.next = next /\ e.schedule = s
      BY <2>2, <2>4 DEF LiveRow
    <3> HIDE DEF e
    <3>3. e \in DefRow
      BY <3>2 DEF DefRow
    <3> QED
      BY <1>1, <2>1, <2>3, <3>1, <3>2, <3>3 DEF DefMoves
  <2>8. CASE on /\ ~fresh
    <3>1. next = d.next /\ t = since[a] /\ s = d.schedule
      BY <2>8
    <3> HIDE DEF next, t, d
    <3>2. e \in LiveRow /\ e.next = next /\ e.schedule = s /\ e.state = "live"
      BY <2>2, <2>4 DEF LiveRow
    <3> HIDE DEF e
    <3>3. e \in DefRow
      BY <3>2 DEF DefRow
    <3> QED
      BY <2>1, <2>5, <3>1, <3>2, <3>3 DEF DefMoves, d
  <2> QED
    BY <2>6, <2>7, <2>8
<1>4. ASSUME NEW l \in Limit, ConfigureTimeLimit(a, l)
      PROVE  Commands(a) /\ DefMoves(a)
  <2> DEFINE e == [def[a] EXCEPT !.limit = l]
  <2>1. Commands(a) /\ Live(a) /\ def' = [def EXCEPT ![a] = e] /\ since' = since /\ occ' = occ
    BY <1>1, <1>4 DEF ConfigureTimeLimit
  <2>2. def[a] \in LiveRow
    BY <2>1, LiveDef
  <2>3. /\ e \in LiveRow /\ e.next = def[a].next /\ e.schedule = def[a].schedule /\ e.state = "live"
    BY <2>2 DEF LiveRow
  <2> HIDE DEF e
  <2>4. e \in DefRow /\ since' = [since EXCEPT ![a] = since[a]] /\ since[a] \in Time \cup {None}
    BY <1>1, <2>1, <2>3 DEF DefRow
  <2> QED
    BY <2>1, <2>3, <2>4 DEF DefMoves
<1>5. CASE Close(a)
  <2> DEFINE e == [def[a] EXCEPT !.enabled = FALSE, !.next = None]
  <2>1. Commands(a) /\ Live(a) /\ def' = [def EXCEPT ![a] = e] /\ since' = [since EXCEPT ![a] = None]
        /\ occ' = occ
    BY <1>1, <1>5 DEF Close
  <2>2. def[a] \in LiveRow
    BY <2>1, LiveDef
  <2>3. e \in LiveRow /\ e.next = None
    BY <2>2 DEF LiveRow
  <2> HIDE DEF e
  <2>4. e \in DefRow
    BY <2>3 DEF DefRow
  <2> QED
    BY <2>1, <2>3, <2>4 DEF DefMoves
<1>6. CASE Delete(a)
  <2> DEFINE e == [state |-> "deleted"]
  <2>1. /\ Commands(a) /\ def' = [def EXCEPT ![a] = e] /\ since' = [since EXCEPT ![a] = None]
        /\ occ' = occ
    BY <1>6 DEF Delete
  <2>2. e \in DefRow /\ e \notin LiveRow
    BY DEF DefRow, LiveRow
  <2> HIDE DEF e
  <2> QED
    BY <2>1, <2>2 DEF DefMoves
<1> QED
  BY <1>2, <1>3, <1>4, <1>5, <1>6

\* The steps of the driver between its claims.
QuietDriver ==
    \/ ObservePaused \/ ObserveSleep \/ ObserveUnsure \/ ObserveTick
    \/ Rearm \/ WakeChanged \/ WakeDeadline

\* They touch no row and no definition. A tick takes the time and a boundary that
\* is not before the one of the clock; an observed sleep moves that to now.
LEMMA QuietDriverMoves ==
    ASSUME Typed, QuietDriver
    PROVE  /\ Up /\ UNCHANGED <<clock, device, control, desk, mail, def, occ, ghosts>>
           /\ driver' \in DriverRow /\ permit' \in BOOLEAN
           /\ count' \in CountRow /\ count'.back = count.back
           /\ driver'.at # "claiming"
           /\ driver'.now \in {0, clock, driver.now}
           /\ \/ slept' = slept /\ boundary' = boundary
              \/ slept' = FALSE /\ boundary' = Later(boundary, clock)
           /\ driver'.at = "ticked" =>
                 /\ driver'.now = clock /\ driver'.boundary = Later(boundary, control.boundary)
                 /\ ~(Native /\ slept)
<1>1. /\ driver \in DriverRow /\ permit \in BOOLEAN /\ count \in CountRow /\ clock \in Time
      /\ boundary \in Time /\ 0 \in Time /\ control.boundary \in Time
  BY TimesAreNat DEF Typed, CountRow, ControlRow
<1>2. CASE ObservePaused
  <2>1. driver' = [driver EXCEPT !.at = "wait", !.next = None, !.retry = FALSE]
    BY <1>2 DEF ObservePaused
  <2>2. driver' \in DriverRow /\ driver'.at = "wait" /\ driver'.now = driver.now
    BY <1>1, <2>1 DEF DriverRow
  <2> QED
    BY <1>1, <1>2, <2>2 DEF ObservePaused, DriverStep, link
<1>3. CASE ObserveSleep
  <2>1. driver' = [driver EXCEPT !.at = "wait", !.retry = TRUE]
    BY <1>3 DEF ObserveSleep
  <2>2. driver' \in DriverRow /\ driver'.at = "wait" /\ driver'.now = driver.now
    BY <1>1, <2>1 DEF DriverRow
  <2> QED
    BY <1>1, <1>3, <2>2 DEF ObserveSleep, DriverStep, link
<1>4. CASE ObserveUnsure
  <2>1. driver' = [driver EXCEPT !.at = "wait", !.retry = TRUE]
    BY <1>4 DEF ObserveUnsure
  <2>2. driver' \in DriverRow /\ driver'.at = "wait" /\ driver'.now = driver.now
    BY <1>1, <2>1 DEF DriverRow
  <2>3. count' \in CountRow /\ count'.back = count.back
    BY <1>1, <1>4, Counts DEF ObserveUnsure
  <2> QED
    BY <1>1, <1>4, <2>2, <2>3 DEF ObserveUnsure, DriverStep, link
<1>5. CASE ObserveTick
  <2> DEFINE later == Later(boundary, control.boundary)
  <2>1. later \in Time
    BY <1>1 DEF Later
  <2>2. CASE driver' = [driver EXCEPT !.at = "wait", !.retry = FALSE]
    <3>1. driver' \in DriverRow /\ driver'.at = "wait" /\ driver'.now = driver.now
      BY <1>1, <2>2 DEF DriverRow
    <3> QED
      BY <1>1, <1>5, <3>1 DEF ObserveTick, DriverStep, link
  <2>3. CASE driver' = [driver EXCEPT !.at = "ticked", !.now = clock, !.retry = FALSE,
                                      !.boundary = Later(boundary, control.boundary)]
    <3> HIDE DEF later
    <3>1. driver' = [driver EXCEPT !.at = "ticked", !.now = clock, !.retry = FALSE, !.boundary = later]
      BY <2>3 DEF later
    <3>2. driver' \in DriverRow /\ driver'.at = "ticked" /\ driver'.now = clock /\ driver'.boundary = later
      BY <1>1, <2>1, <3>1 DEF DriverRow
    <3> QED
      BY <1>1, <1>5, <3>2 DEF ObserveTick, DriverStep, link, later
  <2> QED
    BY <1>5, <2>2, <2>3 DEF ObserveTick
<1>6. CASE Rearm
  <2> DEFINE next == IF WakeAt = {} THEN None ELSE Min(WakeAt)
  <2>1. WakeAt \subseteq Nat
    <3>1. ASSUME NEW b \in Automation, Live(b)
          PROVE  def[b].next \in Nat \cup {None}
      BY <3>1, LiveDef
    <3>2. ASSUME NEW p \in Automation \X Slot
          PROVE  occ[p[1]][p[2]].deadline \in Nat \cup {None}
      <4>1. occ[p[1]][p[2]] \in OccRow
        BY DEF Typed
      <4> QED
        BY <4>1 DEF OccRow, Row
    <3> QED
      BY <3>1, <3>2 DEF WakeAt
  <2>2. next \in Nat \cup {None}
    BY <2>1, MinOf
  <2> HIDE DEF next
  <2>3. driver' = [Idle EXCEPT !.at = "wait", !.scan = driver.scan, !.next = next]
    BY <1>6 DEF Rearm, next
  <2>4. driver' \in DriverRow /\ driver'.at = "wait" /\ driver'.now = 0
    BY <1>1, <2>2, <2>3 DEF DriverRow, Idle
  <2> QED
    BY <1>1, <1>6, <2>4 DEF Rearm, DriverStep, link
<1>7. CASE WakeChanged
  <2>1. driver' = [driver EXCEPT !.at = "top", !.scan = TRUE]
    BY <1>7 DEF WakeChanged
  <2>2. driver' \in DriverRow /\ driver'.at = "top" /\ driver'.now = driver.now
    BY <1>1, <2>1 DEF DriverRow
  <2> QED
    BY <1>1, <1>7, <2>2 DEF WakeChanged, DriverStep, link
<1>8. CASE WakeDeadline
  <2> DEFINE scan == driver.retry \/ (driver.next # None /\ driver.next <= clock)
  <2>1. scan \in BOOLEAN
    BY <1>1 DEF DriverRow
  <2> HIDE DEF scan
  <2>2. driver' = [driver EXCEPT !.at = "top", !.scan = scan]
    BY <1>8 DEF WakeDeadline, scan
  <2>3. driver' \in DriverRow /\ driver'.at = "top" /\ driver'.now = driver.now
    BY <1>1, <2>1, <2>2 DEF DriverRow
  <2> QED
    BY <1>1, <1>8, <2>3 DEF WakeDeadline, DriverStep, link
<1> QED
  BY <1>2, <1>3, <1>4, <1>5, <1>6, <1>7, <1>8 DEF QuietDriver

\* A pass of the driver: what is active is settled, what was due is the batch.
LEMMA ProcessMoves ==
    ASSUME Typed, Process
    PROVE  /\ Up /\ UNCHANGED <<clock, device, slept, boundary, control, desk, mail, def, ghosts,
                                count>>
           /\ driver.at = "ticked" /\ RowsMove
           /\ driver' \in DriverRow /\ permit' \in BOOLEAN
           /\ driver'.now = driver.now /\ driver'.boundary = driver.boundary
           /\ driver'.at \in {"rearm", "claiming"}
           /\ \A a \in driver'.todo : Due(a, driver.now)
           /\ \A a \in Automation, s \in Slot : IsActive(occ'[a][s]) => Working(occ'[a][s])
<1>1. /\ Up /\ UNCHANGED <<clock, device, slept, boundary, control, desk, mail, def, ghosts, count>>
      /\ driver.at = "ticked" /\ occ' = SettleAll(driver.now) /\ permit' = (permit \/ occ' # occ)
  BY DEF Process, DriverStep, link
<1>2. driver \in DriverRow /\ driver.now \in Nat /\ permit \in BOOLEAN
  BY TimesAreNat DEF Typed, DriverRow
<1>3. PICK ids \in DueBatches(driver.now) :
          driver' = [driver EXCEPT !.at = IF ids = {} THEN "rearm" ELSE "claiming", !.todo = ids]
  BY DEF Process
<1>4. ids \subseteq {a \in Automation : Due(a, driver.now)}
  BY DEF DueBatches, kSubset
<1>5. PICK to \in {"rearm", "claiming"} : driver' = [driver EXCEPT !.at = to, !.todo = ids]
  BY <1>3
<1>6. /\ driver' \in DriverRow /\ driver'.now = driver.now /\ driver'.boundary = driver.boundary
      /\ driver'.at = to /\ driver'.todo = ids
  BY <1>2, <1>4, <1>5 DEF DriverRow
<1>7. RowsMove
  BY <1>1, <1>2, AllSettled DEF RowsMove
<1>8. \A a \in Automation, s \in Slot : IsActive(occ'[a][s]) => Working(occ'[a][s])
  BY <1>1, <1>2, AllSettled
<1>9. permit' \in BOOLEAN
  BY <1>1, <1>2
<1> QED
  BY <1>1, <1>4, <1>6, <1>7, <1>8, <1>9

\* Time, sleep, control and the end of the core: what these steps leave alone.
LEMMA OutsideMoves ==
    ASSUME Typed
    PROVE  /\ Pass => /\ UNCHANGED <<device, slept, boundary, control, desk, mail, def, occ, driver, permit,
                                     since, gone, count>>
                      /\ clock' \in Time /\ clock' = clock + 1
                      /\ awakeAt' = (IF Up THEN awakeAt \cup {clock + 1} ELSE awakeAt)
           /\ SetBack => /\ UNCHANGED <<device, slept, boundary, control, desk, mail, def, occ, driver, permit,
                                        awakeAt, since, gone>>
                         /\ clock' \in Time /\ count' \in CountRow /\ count'.back = count.back + 1
           /\ Sleep => /\ UNCHANGED <<clock, boundary, control, def, occ, driver, permit, awakeAt,
                                      since, gone>>
                       /\ device' = "asleep" /\ slept' = TRUE
                       /\ desk' \in ControlRow /\ mail' \subseteq ControlRow
                       /\ count' \in CountRow /\ count'.back = count.back
           /\ Resume => /\ UNCHANGED <<clock, slept, boundary, control, def, occ, driver, permit,
                                       since, gone, count>>
                        /\ device = "asleep" /\ device' = "awake" /\ awakeAt' = awakeAt \cup {clock}
                        /\ desk' \in ControlRow /\ mail' \subseteq ControlRow
           /\ Receive => /\ UNCHANGED <<clock, device, slept, boundary, desk, def, occ, driver, awakeAt, since, gone,
                                        count>>
                         /\ control' \in ControlRow /\ mail' \subseteq ControlRow
                         /\ permit' \in BOOLEAN
           /\ Crash => /\ UNCHANGED <<clock, slept, boundary, control, desk, def, occ, driver, permit, awakeAt, since,
                                      gone>>
                       /\ device' = "down" /\ mail' = {}
                       /\ count' \in CountRow /\ count'.back = count.back
           /\ Start => /\ UNCHANGED <<clock, desk, mail, def, since, gone, count>>
                       /\ device' = "awake" /\ slept' = FALSE /\ boundary' = clock
                       /\ control' \in ControlRow /\ driver' = Idle /\ permit' = FALSE /\ RowsMove
                       /\ awakeAt' = awakeAt \cup {clock}
<1>1. /\ clock \in Time /\ clock \in Nat /\ MaxTime \in Nat /\ 0 \in Time /\ count \in CountRow
      /\ control \in ControlRow /\ desk \in ControlRow /\ mail \subseteq ControlRow
      /\ permit \in BOOLEAN
  BY TimesAreNat DEF Typed, CountRow
<1>2. ASSUME Pass
      PROVE  /\ UNCHANGED <<device, slept, boundary, control, desk, mail, def, occ, driver, permit,
                            since, gone, count>>
             /\ clock' \in Time /\ clock' = clock + 1
             /\ awakeAt' = (IF Up THEN awakeAt \cup {clock + 1} ELSE awakeAt)
  BY <1>1, <1>2 DEF Pass, power, link, Time
<1>3. ASSUME SetBack
      PROVE  /\ UNCHANGED <<device, slept, boundary, control, desk, mail, def, occ, driver, permit,
                            awakeAt, since, gone>>
             /\ clock' \in Time /\ count' \in CountRow /\ count'.back = count.back + 1
  <2>1. clock' \in Time
    BY <1>1, <1>3 DEF SetBack, Time
  <2> QED
    BY <1>1, <1>3, <2>1, Counts DEF SetBack, power, link, ghosts
<1>4. ASSUME Sleep
      PROVE  /\ UNCHANGED <<clock, boundary, control, def, occ, driver, permit, awakeAt, since,
                            gone>>
             /\ device' = "asleep" /\ slept' = TRUE
             /\ desk' \in ControlRow /\ mail' \subseteq ControlRow
             /\ count' \in CountRow /\ count'.back = count.back
  <2>3. PICK e \in Nat : e = desk.epoch + 1
    BY <1>1 DEF ControlRow
  <2> DEFINE d == [desk EXCEPT !.epoch = e, !.paused = TRUE]
  <2>1. d \in ControlRow
    BY <1>1 DEF ControlRow
  <2>2. (desk' = d /\ mail' = mail \cup {d}) \/ UNCHANGED <<desk, mail>>
    BY <1>4, <2>3 DEF Sleep, Tell
  <2> HIDE DEF d
  <2> QED
    BY <1>1, <1>4, <2>1, <2>2, Counts DEF Sleep, ghosts
<1>5. ASSUME Resume
      PROVE  /\ UNCHANGED <<clock, slept, boundary, control, def, occ, driver, permit, since, gone,
                            count>>
             /\ device = "asleep" /\ device' = "awake" /\ awakeAt' = awakeAt \cup {clock}
             /\ desk' \in ControlRow /\ mail' \subseteq ControlRow
  <2> DEFINE d == [epoch |-> desk.epoch + 1, boundary |-> clock, paused |-> FALSE]
  <2>1. d \in ControlRow
    BY <1>1 DEF ControlRow
  <2> HIDE DEF d
  <2>2. (desk' = d /\ mail' = mail \cup {d}) \/ UNCHANGED <<desk, mail>>
    BY <1>5 DEF Resume, Tell, d
  <2> QED
    BY <1>1, <1>5, <2>1, <2>2 DEF Resume
<1>6. ASSUME Receive
      PROVE  /\ UNCHANGED <<clock, device, slept, boundary, desk, def, occ, driver, awakeAt, since,
                            gone, count>>
             /\ control' \in ControlRow /\ mail' \subseteq ControlRow /\ permit' \in BOOLEAN
  <2>1. PICK m \in mail : ApplyControl(m)
    BY <1>6 DEF Receive
  <2> QED
    BY <1>1, <2>1 DEF ApplyControl, power, ghosts
<1>7. ASSUME Crash
      PROVE  /\ UNCHANGED <<clock, slept, boundary, control, desk, def, occ, driver, permit,
                            awakeAt, since, gone>>
             /\ device' = "down" /\ mail' = {}
             /\ count' \in CountRow /\ count'.back = count.back
  BY <1>1, <1>7, Counts DEF Crash, ghosts
<1>8. ASSUME Start
      PROVE  /\ UNCHANGED <<clock, desk, mail, def, since, gone, count>>
             /\ device' = "awake" /\ slept' = FALSE /\ boundary' = clock
             /\ control' \in ControlRow /\ driver' = Idle /\ permit' = FALSE /\ RowsMove
             /\ awakeAt' = awakeAt \cup {clock}
  <2>1. NoControl \in ControlRow
    BY <1>1 DEF NoControl, ControlRow
  <2>2. RowsMove
    <3>1. occ' = SettleAll(clock)
      BY <1>8 DEF Start
    <3> QED
      BY <1>1, <3>1, AllSettled DEF RowsMove
  <2> QED
    BY <1>1, <1>8, <2>1, <2>2 DEF Start
<1> QED
  BY <1>2, <1>3, <1>4, <1>5, <1>6, <1>7, <1>8

\* The steps, as the proofs take them apart.
LEMMA StepCases ==
    ASSUME [Next]_vars
    PROVE  \/ vars' = vars
           \/ \E a \in Automation :
                 \/ \E s \in Schedule : Create(a, s) \/ (\E on \in BOOLEAN : Update(a, s, on))
                 \/ \E l \in Limit : ConfigureTimeLimit(a, l)
                 \/ Close(a) \/ Delete(a)
           \/ \E a \in Automation, m \in Manual : RunNow(a, m)
           \/ \E a \in Automation, s \in Slot :
                 \/ ClaimDelivery(a, s) \/ WithdrawDelivery(a, s) \/ AskUser(a, s)
                 \/ EndRun(a, s) \/ SettleDelivery(a, s)
           \/ \E a \in Automation, s \in Slot : DeleteThread(a, s)
           \/ QuietDriver \/ Process
           \/ \E a \in Automation : ClaimDue(a)
           \/ Pass \/ SetBack \/ Sleep \/ Resume \/ Receive \/ Crash \/ Start
<1>1. UserStep => \/ \E a \in Automation :
                        \/ \E s \in Schedule : Create(a, s) \/ (\E on \in BOOLEAN : Update(a, s, on))
                        \/ \E l \in Limit : ConfigureTimeLimit(a, l)
                        \/ Close(a) \/ Delete(a)
                  \/ \E a \in Automation, m \in Manual : RunNow(a, m)
  BY DEF UserStep
<1>2. Work => \/ \E a \in Automation, s \in Slot :
                    \/ ClaimDelivery(a, s) \/ WithdrawDelivery(a, s) \/ AskUser(a, s)
                    \/ EndRun(a, s) \/ SettleDelivery(a, s)
              \/ \E a \in Automation, s \in Slot : DeleteThread(a, s)
  BY DEF Work
<1>3. Driver => QuietDriver \/ Process \/ \E a \in Automation : ClaimDue(a)
  BY DEF Driver, QuietDriver
<1> QED
  BY <1>1, <1>2, <1>3 DEF Next

\* A manual occurrence has a slot too.
LEMMA ManualSlots == Manual \subseteq Slot
BY DEF Slot

\* What a schedule names has a slot.
LEMMA ScheduleSlots == \A s \in Schedule : s.at \subseteq Slot
BY DEF Slot

\* A slot that is not manual is a time.
LEMMA SlotTimes == \A t \in Slot \ Manual : t \in Nat
BY ScheduleAssumption DEF Slot

\* A new row keeps the type of all of them.
LEMMA NewRowTyped ==
    ASSUME Typed, NEW a \in Automation, NEW s \in Slot, NEW q \in OccRow, occ' = [occ EXCEPT ![a][s] = q]
    PROVE  /\ occ' \in [Automation -> [Slot -> OccRow]] /\ occ'[a][s] = q
           /\ \A b \in Automation, u \in Slot : (b # a \/ u # s) => occ'[b][u] = occ[b][u]
BY OneRow DEF Typed

\* The initial states have their types.
LEMMA TypeInit == Init => Typed
<1> SUFFICES ASSUME Init
             PROVE  Typed
  OBVIOUS
<1>1. 0 \in Time
  BY TimesAreNat
<1>2. NoControl \in ControlRow
  BY <1>1 DEF NoControl, ControlRow
<1>3. Idle \in DriverRow
  BY <1>1 DEF Idle, DriverRow
<1>4. NoRow \in OccRow
  BY DEF NoRow, OccRow, Row, Reason
<1>5. [state |-> "new"] \in DefRow
  BY DEF DefRow
<1>6. count \in [sleeps : Nat, crashes : Nat, edits : Nat, back : Nat, unsure : Nat]
  BY DEF Init
<1>7. def \in [Automation -> DefRow] /\ occ \in [Automation -> [Slot -> OccRow]]
  BY <1>4, <1>5 DEF Init
<1> QED
  BY <1>1, <1>2, <1>3, <1>6, <1>7 DEF Init, Typed

\* Every step keeps them.
LEMMA TypeStep ==
    ASSUME Typed, BatchDue, [Next]_vars
    PROVE  Typed'
<1>1. /\ clock \in Time /\ 0 \in Time /\ awakeAt \subseteq Time /\ boundary \in Time
      /\ def \in [Automation -> DefRow] /\ since \in [Automation -> Time \cup {None}]
      /\ gone \subseteq Automation \X Slot
  BY TimesAreNat DEF Typed
<1>2. CASE vars' = vars
  BY <1>2 DEF vars, power, link, ghosts, Typed
<1>3. ASSUME NEW a \in Automation,
             \/ \E s \in Schedule : Create(a, s) \/ (\E on \in BOOLEAN : Update(a, s, on))
             \/ \E l \in Limit : ConfigureTimeLimit(a, l)
             \/ Close(a) \/ Delete(a)
      PROVE  Typed'
  <2>1. Commands(a) /\ DefMoves(a)
    BY <1>3, CommandMoves
  <2>2. /\ Up /\ driver.at # "claiming" /\ permit' = TRUE
        /\ UNCHANGED <<clock, device, slept, boundary, control, desk, mail, driver, awakeAt, gone>>
        /\ count' \in CountRow
    BY <2>1, CommandStep
  <2>3. /\ occ' = occ /\ def' \in [Automation -> DefRow]
        /\ since' \in [Automation -> Time \cup {None}]
    BY <1>1, <2>1 DEF DefMoves
  <2> QED
    BY <2>2, <2>3 DEF Typed, CountRow
<1>4. ASSUME NEW a \in Automation, NEW m \in Manual, RunNow(a, m)
      PROVE  Typed'
  <2>1. Commands(a) /\ UNCHANGED <<def, since>> /\ m \in Slot
    <3>1. m \in Slot
      BY ManualSlots
    <3> QED
      BY <1>4, <3>1 DEF RunNow
  <2>2. /\ permit' = TRUE
        /\ UNCHANGED <<clock, device, slept, boundary, control, desk, mail, driver, awakeAt, gone>>
        /\ count' \in CountRow
    BY <2>1, CommandStep
  <2>3. occ' \in [Automation -> [Slot -> OccRow]]
    BY <1>4, <2>1, RunNowRecords, NewRowTyped
  <2> QED
    BY <2>1, <2>2, <2>3 DEF Typed, CountRow
<1>5. ASSUME NEW a \in Automation, NEW s \in Slot,
             \/ ClaimDelivery(a, s) \/ WithdrawDelivery(a, s) \/ AskUser(a, s)
             \/ EndRun(a, s) \/ SettleDelivery(a, s)
      PROVE  Typed'
  <2>1. occ' \in [Automation -> [Slot -> OccRow]] /\ gone' = gone
    BY <1>5, WorkMoves DEF RowsMove
  <2>2. permit' = TRUE /\ UNCHANGED <<clock, power, link, def, driver, awakeAt, since, count>>
    BY <1>5 DEF ClaimDelivery, WithdrawDelivery, AskUser, EndRun, SettleDelivery, WorkStep
  <2> QED
    BY <2>1, <2>2 DEF Typed, power, link
<1>6. ASSUME NEW a \in Automation, NEW s \in Slot, DeleteThread(a, s)
      PROVE  Typed'
  <2>1. occ' \in [Automation -> [Slot -> OccRow]] /\ gone' = gone \cup {<<a, s>>}
    BY <1>6, Cleared
  <2>2. permit' = TRUE /\ UNCHANGED <<clock, power, link, def, driver, awakeAt, since, count>>
    BY <1>6 DEF DeleteThread, WorkStep
  <2>3. gone' \subseteq Automation \X Slot
    BY <1>1, <2>1
  <2> QED
    BY <2>1, <2>2, <2>3 DEF Typed, power, link
<1>7. CASE QuietDriver
  <2>1. /\ UNCHANGED <<clock, device, control, desk, mail, def, occ, awakeAt, since, gone>>
        /\ driver' \in DriverRow /\ permit' \in BOOLEAN /\ count' \in CountRow
        /\ \/ slept' = slept /\ boundary' = boundary
           \/ slept' = FALSE /\ boundary' = Later(boundary, clock)
    BY <1>7, QuietDriverMoves DEF ghosts
  <2>2. Later(boundary, clock) \in Time
    BY <1>1 DEF Later
  <2> QED
    BY <2>1, <2>2 DEF Typed, CountRow
<1>8. CASE Process
  <2>1. /\ UNCHANGED <<clock, device, slept, boundary, control, desk, mail, def, awakeAt, since,
                       gone, count>>
        /\ occ' \in [Automation -> [Slot -> OccRow]] /\ driver' \in DriverRow /\ permit' \in BOOLEAN
    BY <1>8, ProcessMoves DEF RowsMove, ghosts
  <2> QED
    BY <2>1 DEF Typed
<1>9. ASSUME NEW a \in Automation, ClaimDue(a)
      PROVE  Typed'
  <2>1. /\ Due(a, driver.now) /\ driver' \in DriverRow /\ permit' \in BOOLEAN
        /\ UNCHANGED <<clock, device, slept, boundary, control, desk, mail, awakeAt, since, gone,
                       count>>
    BY <1>9, ClaimOutcome DEF link, ghosts
  <2>2. ClaimFails \/ (\E slot \in Slot : Consumes(a, slot) /\ Records(a, slot) /\ Advances(a, slot))
    BY <1>9, ClaimOutcome
  <2>3. CASE ClaimFails
    BY <2>1, <2>3 DEF ClaimFails, Typed
  <2>4. ASSUME NEW slot \in Slot, Records(a, slot), Advances(a, slot)
        PROVE  Typed'
    <3>1. Live(a)
      BY <2>1 DEF Due
    <3>2. occ' \in [Automation -> [Slot -> OccRow]]
      BY <2>4, <3>1, ClaimRecords, NewRowTyped DEF Typed
    <3>3. def' \in [Automation -> DefRow]
      BY <1>1, <2>4 DEF Advances, DefRow
    <3> QED
      BY <2>1, <3>2, <3>3 DEF Typed
  <2> QED
    BY <2>2, <2>3, <2>4
<1>10. CASE Pass
  <2>1. /\ UNCHANGED <<device, slept, boundary, control, desk, mail, def, occ, driver, permit,
                       since, gone, count>>
        /\ clock' \in Time /\ awakeAt' \subseteq Time
    BY <1>1, <1>10, OutsideMoves
  <2> QED
    BY <2>1 DEF Typed
<1>11. CASE SetBack
  BY <1>11, OutsideMoves DEF Typed, CountRow
<1>12. CASE Sleep
  BY <1>12, OutsideMoves DEF Typed, CountRow
<1>13. CASE Resume
  <2>1. awakeAt' \subseteq Time
    BY <1>1, <1>13, OutsideMoves
  <2> QED
    BY <1>13, <2>1, OutsideMoves DEF Typed
<1>14. CASE Receive
  BY <1>14, OutsideMoves DEF Typed
<1>15. CASE Crash
  BY <1>15, OutsideMoves DEF Typed, CountRow
<1>16. CASE Start
  <2>1. /\ UNCHANGED <<clock, desk, mail, def, since, gone, count>>
        /\ device' = "awake" /\ slept' = FALSE /\ boundary' = clock
        /\ control' \in ControlRow /\ driver' = Idle /\ permit' = FALSE
        /\ occ' \in [Automation -> [Slot -> OccRow]] /\ awakeAt' = awakeAt \cup {clock}
    BY <1>16, OutsideMoves DEF RowsMove
  <2>2. Idle \in DriverRow /\ awakeAt' \subseteq Time
    BY <1>1, <2>1 DEF Idle, DriverRow
  <2> QED
    BY <1>1, <2>1, <2>2 DEF Typed
<1> QED
  BY <1>2, <1>3, <1>4, <1>5, <1>6, <1>7, <1>8, <1>9, <1>10, <1>11, <1>12, <1>13, <1>14, <1>15,
     <1>16, StepCases

(***************************************************************************)
(* What a step does to the rows, to the definitions and to the driver.     *)
(***************************************************************************)
Adds(a, s, q) == NewRowOf(a, s, q) /\ occ' = [occ EXCEPT ![a][s] = q]

\* Every row moves on, one of them is deleted with its Thread, or an occurrence
\* that had no row gets one, by run_now or by a claim.
LEMMA RowSteps ==
    ASSUME Typed, BatchDue, [Next]_vars
    PROVE  \/ RowsMove /\ gone' = gone
           \/ \E a \in Automation, s \in Slot : DeleteThread(a, s)
           \/ \E a \in Automation, s \in Slot, q \in OccRow :
                 Adds(a, s, q) /\ gone' = gone /\ ((s \in Manual /\ RunNow(a, s)) \/ ClaimDue(a))
<1>1. CASE vars' = vars
  BY <1>1, NoneMoves DEF vars, ghosts
<1>2. ASSUME NEW a \in Automation,
             \/ \E s \in Schedule : Create(a, s) \/ (\E on \in BOOLEAN : Update(a, s, on))
             \/ \E l \in Limit : ConfigureTimeLimit(a, l)
             \/ Close(a) \/ Delete(a)
      PROVE  RowsMove /\ gone' = gone
  <2>1. occ' = occ /\ gone' = gone
    BY <1>2, CommandMoves, CommandStep DEF DefMoves
  <2> QED
    BY <2>1, NoneMoves
<1>3. ASSUME NEW a \in Automation, NEW m \in Manual, RunNow(a, m)
      PROVE  \E q \in OccRow : Adds(a, m, q) /\ gone' = gone /\ m \in Slot
  <2>1. gone' = gone
    BY <1>3, CommandStep DEF RunNow
  <2> QED
    BY <1>3, <2>1, RunNowRecords, ManualSlots DEF Adds
<1>4. ASSUME NEW a \in Automation, ClaimDue(a)
      PROVE  \/ RowsMove /\ gone' = gone
             \/ \E s \in Slot, q \in OccRow : Adds(a, s, q) /\ gone' = gone
  <2>1. gone' = gone /\ Live(a)
    BY <1>4, ClaimOutcome DEF ghosts, Due
  <2>2. ClaimFails \/ (\E slot \in Slot : Consumes(a, slot) /\ Records(a, slot) /\ Advances(a, slot))
    BY <1>4, ClaimOutcome
  <2>3. CASE ClaimFails
    BY <2>1, <2>3, NoneMoves DEF ClaimFails
  <2>4. ASSUME NEW slot \in Slot, Records(a, slot)
        PROVE  \/ RowsMove /\ gone' = gone
               \/ \E s \in Slot, q \in OccRow : Adds(a, s, q) /\ gone' = gone
    BY <2>1, <2>4, ClaimRecords, NoneMoves DEF Adds
  <2> QED
    BY <2>2, <2>3, <2>4
<1>5. ASSUME QuietDriver \/ Process
      PROVE  RowsMove /\ gone' = gone
  BY <1>5, QuietDriverMoves, ProcessMoves, NoneMoves DEF ghosts
<1>6. ASSUME Pass \/ SetBack \/ Sleep \/ Resume \/ Receive \/ Crash
      PROVE  RowsMove /\ gone' = gone
  BY <1>6, OutsideMoves, NoneMoves
<1>7. ASSUME Start
      PROVE  RowsMove /\ gone' = gone
  BY <1>7, OutsideMoves
<1> QED
  BY <1>1, <1>2, <1>3, <1>4, <1>5, <1>6, <1>7, WorkMoves, StepCases

\* A new row and the others.
LEMMA AddedRow ==
    ASSUME Typed, NEW a \in Automation, NEW s \in Slot, NEW q \in OccRow, Adds(a, s, q)
    PROVE  /\ occ'[a][s] = q /\ q.status # "none" /\ occ[a][s].status = "none"
           /\ IsActive(q) => Working(q) /\ ~Active(a)
           /\ \A b \in Automation, u \in Slot : (b # a \/ u # s) => occ'[b][u] = occ[b][u]
<1>1. NewRowOf(a, s, q) /\ occ' = [occ EXCEPT ![a][s] = q]
  BY DEF Adds
<1>2. /\ q.status # "none" /\ occ[a][s].status = "none"
      /\ IsActive(q) => Working(q) /\ ~Active(a)
  BY <1>1 DEF NewRowOf
<1>3. occ'[a][s] = q /\ \A b \in Automation, u \in Slot : (b # a \/ u # s) => occ'[b][u] = occ[b][u]
  BY <1>1 DEF Typed
<1> QED
  BY <1>2, <1>3

\* No second occurrence becomes active.
LEMMA ActiveStep ==
    ASSUME Typed, BatchDue, ActiveOnce, [Next]_vars
    PROVE  ActiveOnce'
<1>1. CASE RowsMove
  <2>1. \A a \in Automation, s \in Slot : IsActive(occ'[a][s]) => IsActive(occ[a][s])
    BY <1>1 DEF RowsMove, Moves
  <2> QED
    BY <2>1 DEF ActiveOnce
<1>2. ASSUME NEW a \in Automation, NEW s \in Slot, DeleteThread(a, s)
      PROVE  ActiveOnce'
  <2>1. \A b \in Automation, u \in Slot : IsActive(occ'[b][u]) => IsActive(occ[b][u])
    BY <1>2, Cleared
  <2> QED
    BY <2>1 DEF ActiveOnce
<1>3. ASSUME NEW a \in Automation, NEW s \in Slot, NEW q \in OccRow, Adds(a, s, q)
      PROVE  ActiveOnce'
  <2>1. /\ occ'[a][s] = q /\ (IsActive(q) => ~Active(a))
        /\ \A b \in Automation, u \in Slot : (b # a \/ u # s) => occ'[b][u] = occ[b][u]
    BY <1>3, AddedRow
  <2>2. ASSUME NEW b \in Automation, NEW u \in Slot, NEW v \in Slot,
               IsActive(occ'[b][u]), IsActive(occ'[b][v]), u # v
        PROVE  FALSE
    <3>1. CASE b = a /\ u = s
      <4>1. IsActive(q) /\ IsActive(occ[b][v])
        BY <2>1, <2>2, <3>1
      <4> QED
        BY <2>1, <3>1, <4>1 DEF Active
    <3>2. CASE b = a /\ v = s
      <4>1. IsActive(q) /\ IsActive(occ[b][u])
        BY <2>1, <2>2, <3>2
      <4> QED
        BY <2>1, <3>2, <4>1 DEF Active
    <3>3. CASE b # a \/ (u # s /\ v # s)
      <4>1. IsActive(occ[b][u]) /\ IsActive(occ[b][v])
        BY <2>1, <2>2, <3>3
      <4> QED
        BY <2>2, <4>1 DEF ActiveOnce
    <3> QED
      BY <3>1, <3>2, <3>3
  <2> QED
    BY <2>2 DEF ActiveOnce
<1> QED
  BY <1>1, <1>2, <1>3, RowSteps

\* What becomes of the definitions: a command sets one, a claim advances one.
LEMMA DefSteps ==
    ASSUME Typed, BatchDue, [Next]_vars
    PROVE  \/ def' = def /\ since' = since
           \/ \E a \in Automation : Commands(a) /\ DefMoves(a)
           \/ \E a \in Automation, slot \in Slot :
                 /\ ClaimDue(a) /\ Consumes(a, slot) /\ Records(a, slot) /\ Advances(a, slot)
                 /\ since' = since /\ gone' = gone /\ clock' = clock
<1>1. CASE vars' = vars
  BY <1>1 DEF vars, ghosts
<1>2. ASSUME NEW a \in Automation, NEW m \in Manual, RunNow(a, m)
      PROVE  def' = def /\ since' = since
  BY <1>2 DEF RunNow
<1>3. ASSUME NEW a \in Automation, NEW s \in Slot,
             \/ ClaimDelivery(a, s) \/ WithdrawDelivery(a, s) \/ AskUser(a, s)
             \/ EndRun(a, s) \/ SettleDelivery(a, s) \/ DeleteThread(a, s)
      PROVE  def' = def /\ since' = since
  BY <1>3
  DEF ClaimDelivery, WithdrawDelivery, AskUser, EndRun, SettleDelivery, DeleteThread, WorkStep
<1>4. ASSUME QuietDriver \/ Process
      PROVE  def' = def /\ since' = since
  BY <1>4, QuietDriverMoves, ProcessMoves DEF ghosts
<1>5. ASSUME Pass \/ SetBack \/ Sleep \/ Resume \/ Receive \/ Crash \/ Start
      PROVE  def' = def /\ since' = since
  BY <1>5, OutsideMoves
<1>6. ASSUME NEW a \in Automation, ClaimDue(a)
      PROVE  \/ def' = def /\ since' = since
             \/ \E slot \in Slot :
                   /\ ClaimDue(a) /\ Consumes(a, slot) /\ Records(a, slot) /\ Advances(a, slot)
                   /\ since' = since /\ gone' = gone /\ clock' = clock
  <2>1. since' = since /\ gone' = gone /\ clock' = clock
    BY <1>6, ClaimOutcome DEF ghosts
  <2> QED
    BY <1>6, <2>1, ClaimOutcome DEF ClaimFails
<1> QED
  BY <1>1, <1>2, <1>3, <1>4, <1>5, <1>6, CommandMoves, StepCases

(***************************************************************************)
(* The clock and the driver.                                               *)
(***************************************************************************)
\* A clock that was set back stays so; it is what SetBack is about.
LEMMA BackSteps ==
    ASSUME Typed, BatchDue, [Next]_vars, ~SetBackOnce'
    PROVE  ~SetBackOnce /\ ~SetBack
<1>1. count \in CountRow /\ count.back \in Nat
  BY DEF Typed, CountRow
<1>2. SetBack => SetBackOnce'
  BY <1>1, OutsideMoves DEF SetBackOnce
<1>3. ~SetBack
  BY <1>2
<1>4. count'.back = count.back
  <2>1. CASE vars' = vars
    BY <2>1 DEF vars
  <2>2. ASSUME NEW a \in Automation, Commands(a)
        PROVE  count'.back = count.back
    BY <2>2, CommandStep
  <2>3. ASSUME NEW a \in Automation, NEW m \in Manual, RunNow(a, m)
        PROVE  count'.back = count.back
    BY <2>2, <2>3 DEF RunNow
  <2>4. ASSUME NEW a \in Automation, NEW s \in Slot,
               \/ ClaimDelivery(a, s) \/ WithdrawDelivery(a, s) \/ AskUser(a, s)
               \/ EndRun(a, s) \/ SettleDelivery(a, s) \/ DeleteThread(a, s)
        PROVE  count'.back = count.back
    BY <2>4
    DEF ClaimDelivery, WithdrawDelivery, AskUser, EndRun, SettleDelivery, DeleteThread, WorkStep
  <2>5. QuietDriver \/ Process => count'.back = count.back
    BY QuietDriverMoves, ProcessMoves
  <2>6. ASSUME NEW a \in Automation, ClaimDue(a)
        PROVE  count'.back = count.back
    BY <2>6, ClaimOutcome
  <2>7. Pass \/ Sleep \/ Resume \/ Receive \/ Crash \/ Start => count'.back = count.back
    BY OutsideMoves
  <2> QED
    BY <1>3, <2>1, <2>2, <2>3, <2>4, <2>5, <2>6, <2>7, CommandMoves, StepCases
<1> QED
  BY <1>3, <1>4 DEF SetBackOnce

\* The device, the clock and what a pass of the driver has sampled.
PowerSame == UNCHANGED <<clock, device, slept, boundary, awakeAt>>

DriverKept ==
    /\ driver'.now = driver.now /\ driver'.boundary = driver.boundary
    /\ driver'.at \in {"ticked", "claiming"} => driver.at \in {"ticked", "claiming"}

\* Most steps leave the device, the clock and the sample of the driver alone.
LEMMA TimeSteps ==
    ASSUME Typed, BatchDue, [Next]_vars, ~SetBack
    PROVE  \/ PowerSame /\ (driver' = driver \/ DriverKept \/ (driver'.now = 0 /\ driver'.at = "wait"))
           \/ QuietDriver \/ Pass \/ Sleep \/ Resume \/ Crash \/ Start
<1>1. CASE vars' = vars
  BY <1>1 DEF vars, power, PowerSame, ghosts
<1>2. ASSUME NEW a \in Automation, Commands(a)
      PROVE  PowerSame /\ driver' = driver
  BY <1>2, CommandStep DEF PowerSame
<1>3. ASSUME NEW a \in Automation, NEW m \in Manual, RunNow(a, m)
      PROVE  PowerSame /\ driver' = driver
  BY <1>2, <1>3 DEF RunNow
<1>4. ASSUME NEW a \in Automation, NEW s \in Slot,
             \/ ClaimDelivery(a, s) \/ WithdrawDelivery(a, s) \/ AskUser(a, s)
             \/ EndRun(a, s) \/ SettleDelivery(a, s) \/ DeleteThread(a, s)
      PROVE  PowerSame /\ driver' = driver
  BY <1>4
  DEF ClaimDelivery, WithdrawDelivery, AskUser, EndRun, SettleDelivery, DeleteThread, WorkStep,
              PowerSame, power
<1>5. ASSUME Process
      PROVE  PowerSame /\ DriverKept
  BY <1>5, ProcessMoves DEF PowerSame, DriverKept, ghosts
<1>6. ASSUME NEW a \in Automation, ClaimDue(a)
      PROVE  PowerSame /\ (DriverKept \/ (driver'.now = 0 /\ driver'.at = "wait"))
  <2>1. PowerSame /\ driver.at = "claiming"
    BY <1>6, ClaimOutcome DEF PowerSame, ghosts
  <2>2. ClaimFails \/ (\E slot \in Slot : Advances(a, slot))
    BY <1>6, ClaimOutcome
  <2> QED
    BY <2>1, <2>2 DEF ClaimFails, Advances, DriverKept
<1>7. ASSUME Receive
      PROVE  PowerSame /\ driver' = driver
  BY <1>7, OutsideMoves DEF PowerSame
<1> QED
  BY <1>1, <1>2, <1>3, <1>4, <1>5, <1>6, <1>7, CommandMoves, StepCases

\* A device that sleeps has slept.
LEMMA SleptStep ==
    ASSUME Typed, BatchDue, Slept, [Next]_vars
    PROVE  Slept'
<1>1. ASSUME SetBack
      PROVE  Slept'
  BY <1>1, OutsideMoves DEF Slept
<1>2. ASSUME PowerSame
      PROVE  Slept'
  BY <1>2 DEF PowerSame, Slept
<1>3. ASSUME QuietDriver
      PROVE  Slept'
  BY <1>3, QuietDriverMoves DEF Slept, Up
<1>4. ASSUME Pass \/ Sleep \/ Resume \/ Crash \/ Start
      PROVE  Slept'
  BY <1>4, OutsideMoves DEF Slept
<1> QED
  BY <1>1, <1>2, <1>3, <1>4, TimeSteps

\* The driver never works ahead of the clock.
LEMMA NotAheadStep ==
    ASSUME Typed, BatchDue, NotAhead, [Next]_vars, ~SetBack
    PROVE  NotAhead'
<1>1. clock \in Nat /\ driver.now \in Nat /\ driver.now <= clock
  BY TimesAreNat DEF Typed, DriverRow, NotAhead
<1>2. CASE PowerSame /\ (driver' = driver \/ DriverKept \/ (driver'.now = 0 /\ driver'.at = "wait"))
  BY <1>1, <1>2 DEF PowerSame, DriverKept, NotAhead
<1>3. CASE QuietDriver
  BY <1>1, <1>3, QuietDriverMoves DEF NotAhead
<1>4. CASE Pass
  BY <1>1, <1>4, OutsideMoves DEF NotAhead
<1>5. CASE Sleep \/ Resume \/ Crash
  BY <1>1, <1>5, OutsideMoves DEF NotAhead
<1>6. CASE Start
  <2>1. clock' = clock /\ driver'.now = 0
    BY <1>6, OutsideMoves DEF Idle
  <2> QED
    BY <1>1, <2>1 DEF NotAhead
<1> QED
  BY <1>2, <1>3, <1>4, <1>5, <1>6, TimeSteps

\* The core that runs, runs now, and has run since the boundary.
LEMMA AwakeStep ==
    ASSUME Typed, BatchDue, Slept, AwakeNow, AwakeSince, [Next]_vars, ~SetBack
    PROVE  AwakeNow' /\ AwakeSince'
<1>1. clock \in Nat /\ boundary \in Nat
  BY TimesAreNat DEF Typed
<1>2. CASE PowerSame
  <2>1. UNCHANGED <<clock, device, slept, boundary, awakeAt>>
    BY <1>2 DEF PowerSame
  <2> QED
    BY <2>1 DEF AwakeNow, AwakeSince, Up
<1>3. CASE QuietDriver
  <2>1. /\ Up /\ clock' = clock /\ device' = device /\ awakeAt' = awakeAt
        /\ \/ slept' = slept /\ boundary' = boundary
           \/ slept' = FALSE /\ boundary' = Later(boundary, clock)
    BY <1>3, QuietDriverMoves DEF ghosts
  <2>2. clock \in awakeAt
    BY <2>1 DEF AwakeNow
  <2>3. CASE slept' = slept /\ boundary' = boundary
    BY <2>1, <2>3 DEF AwakeNow, AwakeSince, Up
  <2>4. CASE slept' = FALSE /\ boundary' = Later(boundary, clock)
    <3>1. boundary' \in Nat /\ clock <= boundary'
      BY <1>1, <2>4 DEF Later
    <3>2. \A t \in Nat : boundary' <= t /\ t <= clock' => t = clock
      BY <1>1, <2>1, <3>1
    <3> QED
      BY <2>1, <2>2, <3>2 DEF AwakeNow, AwakeSince, Up
  <2> QED
    BY <2>1, <2>3, <2>4
<1>4. CASE Pass
  <2>1. /\ device' = device /\ slept' = slept /\ boundary' = boundary /\ clock' = clock + 1
        /\ awakeAt' = (IF Up THEN awakeAt \cup {clock + 1} ELSE awakeAt)
    BY <1>4, OutsideMoves
  <2>2. \A t \in Nat : t <= clock + 1 => t <= clock \/ t = clock + 1
    BY <1>1
  <2> QED
    BY <2>1, <2>2 DEF AwakeNow, AwakeSince, Up
<1>5. CASE Sleep \/ Crash
  <2>1. device' # "awake"
    BY <1>5, OutsideMoves
  <2> QED
    BY <2>1 DEF AwakeNow, AwakeSince, Up
<1>6. CASE Resume
  <2>1. clock' = clock /\ slept' = slept /\ device = "asleep" /\ awakeAt' = awakeAt \cup {clock}
    BY <1>6, OutsideMoves
  <2>2. slept'
    BY <2>1 DEF Slept
  <2> QED
    BY <2>1, <2>2 DEF AwakeNow, AwakeSince
<1>7. CASE Start
  <2>1. clock' = clock /\ boundary' = clock /\ awakeAt' = awakeAt \cup {clock}
    BY <1>7, OutsideMoves
  <2>2. \A t \in Nat : boundary' <= t /\ t <= clock' => t = clock
    BY <1>1, <2>1
  <2> QED
    BY <2>1, <2>2 DEF AwakeNow, AwakeSince
<1> QED
  BY <1>2, <1>3, <1>4, <1>5, <1>6, <1>7, TimeSteps

\* What a pass of the driver may claim came due while the core ran.
LEMMA TickStep ==
    ASSUME Typed, BatchDue, AwakeSince, TickAwake, [Next]_vars, ~SetBack
    PROVE  TickAwake'
<1>1. /\ clock \in Nat /\ boundary \in Nat /\ control.boundary \in Nat
      /\ driver.now \in Nat /\ driver.boundary \in Nat
  BY TimesAreNat DEF Typed, DriverRow, ControlRow
<1>2. ASSUME awakeAt \subseteq awakeAt', driver' = driver \/ DriverKept
      PROVE  TickAwake'
  BY <1>2 DEF DriverKept, TickAwake, Sampled
<1>3. ASSUME driver'.at \notin {"ticked", "claiming"}
      PROVE  TickAwake'
  BY <1>3 DEF TickAwake, Sampled
<1>4. CASE PowerSame /\ (driver' = driver \/ DriverKept \/ (driver'.now = 0 /\ driver'.at = "wait"))
  BY <1>2, <1>3, <1>4 DEF PowerSame
<1>5. CASE QuietDriver
  <2>1. CASE driver'.at = "ticked"
    <3>1. /\ Up /\ awakeAt' = awakeAt /\ driver'.now = clock /\ ~(Native /\ slept)
          /\ driver'.boundary = Later(boundary, control.boundary)
      BY <1>5, <2>1, QuietDriverMoves DEF ghosts
    <3>2. \A t \in Nat : driver'.boundary <= t => boundary <= t
      BY <1>1, <3>1 DEF Later
    <3> QED
      BY <3>1, <3>2 DEF TickAwake, AwakeSince
  <2>2. CASE driver'.at # "ticked"
    <3>1. driver'.at # "claiming"
      BY <1>5, QuietDriverMoves
    <3> QED
      BY <1>3, <2>2, <3>1
  <2> QED
    BY <2>1, <2>2
<1>6. CASE Pass \/ Sleep \/ Resume \/ Crash
  <2>1. driver' = driver /\ awakeAt \subseteq awakeAt'
    BY <1>6, OutsideMoves
  <2> QED
    BY <1>2, <2>1
<1>7. CASE Start
  <2>1. driver'.at = "top"
    BY <1>7, OutsideMoves DEF Idle
  <2> QED
    BY <1>3, <2>1
<1> QED
  BY <1>4, <1>5, <1>6, <1>7, TimeSteps

(***************************************************************************)
(* The batch of a pass.                                                    *)
(***************************************************************************)
\* What is in the batch is due, and while a batch is claimed nothing ends.
LEMMA BatchStep ==
    ASSUME Typed, BatchDue, BatchWorks, [Next]_vars
    PROVE  BatchDue' /\ BatchWorks'
<1>1. ASSUME driver'.at # "claiming"
      PROVE  BatchDue' /\ BatchWorks'
  BY <1>1 DEF BatchDue, BatchWorks
<1>2. ASSUME driver' = driver, def' = def, occ' = occ
      PROVE  BatchDue' /\ BatchWorks'
  BY <1>2 DEF BatchDue, BatchWorks, Due, Live
<1>3. CASE vars' = vars
  BY <1>2, <1>3 DEF vars
<1>4. ASSUME NEW a \in Automation, Commands(a)
      PROVE  BatchDue' /\ BatchWorks'
  BY <1>1, <1>4, CommandStep
<1>5. ASSUME NEW a \in Automation, NEW m \in Manual, RunNow(a, m)
      PROVE  BatchDue' /\ BatchWorks'
  BY <1>4, <1>5 DEF RunNow
<1>6. ASSUME NEW a \in Automation, NEW s \in Slot,
             \/ ClaimDelivery(a, s) \/ WithdrawDelivery(a, s) \/ AskUser(a, s)
             \/ EndRun(a, s) \/ SettleDelivery(a, s) \/ DeleteThread(a, s)
      PROVE  BatchDue' /\ BatchWorks'
  <2>1. driver' = driver /\ driver.at # "claiming"
    BY <1>6
    DEF ClaimDelivery, WithdrawDelivery, AskUser, EndRun, SettleDelivery, DeleteThread, WorkStep,
        Locked
  <2> QED
    BY <1>1, <2>1
<1>7. CASE QuietDriver
  BY <1>1, <1>7, QuietDriverMoves
<1>8. CASE Process
  <2>1. /\ def' = def /\ driver'.now = driver.now
        /\ \A a \in driver'.todo : Due(a, driver.now)
        /\ \A a \in Automation, s \in Slot : IsActive(occ'[a][s]) => Working(occ'[a][s])
    BY <1>8, ProcessMoves
  <2> QED
    BY <2>1 DEF BatchDue, BatchWorks, Due, Live
<1>9. ASSUME NEW a \in Automation, ClaimDue(a)
      PROVE  BatchDue' /\ BatchWorks'
  <2>1. driver.at = "claiming" /\ Live(a)
    BY <1>9, ClaimOutcome DEF Due
  <2>2. ClaimFails \/ (\E slot \in Slot : Consumes(a, slot) /\ Records(a, slot) /\ Advances(a, slot))
    BY <1>9, ClaimOutcome
  <2>3. CASE ClaimFails
    BY <1>1, <2>3 DEF ClaimFails
  <2>4. ASSUME NEW slot \in Slot, Records(a, slot), Advances(a, slot)
        PROVE  BatchDue' /\ BatchWorks'
    <3>1. /\ driver'.now = driver.now /\ driver'.todo = driver.todo \ {a}
          /\ \A b \in Automation : b # a => def'[b] = def[b]
      BY <2>4 DEF Advances, Typed
    <3>2. driver.todo \subseteq Automation
      BY DEF Typed, DriverRow
    <3>3. BatchDue'
      BY <2>1, <3>1, <3>2 DEF BatchDue, Due, Live
    <3>4. ASSUME NEW b \in Automation, NEW s \in Slot, IsActive(occ'[b][s])
          PROVE  Working(occ'[b][s])
      <4>1. occ' = occ \/ \E q \in OccRow : Adds(a, slot, q)
        BY <2>1, <2>4, ClaimRecords DEF Adds
      <4>2. CASE occ' = occ
        BY <2>1, <3>4, <4>2 DEF BatchWorks
      <4>3. ASSUME NEW q \in OccRow, Adds(a, slot, q)
            PROVE  Working(occ'[b][s])
        <5>1. /\ occ'[a][slot] = q /\ (IsActive(q) => Working(q))
              /\ (b # a \/ s # slot) => occ'[b][s] = occ[b][s]
          BY <4>3, AddedRow
        <5> QED
          BY <2>1, <3>4, <5>1 DEF BatchWorks
      <4> QED
        BY <4>1, <4>2, <4>3
    <3> QED
      BY <3>3, <3>4 DEF BatchWorks
  <2> QED
    BY <2>2, <2>3, <2>4
<1>10. CASE Pass \/ SetBack \/ Sleep \/ Resume \/ Receive \/ Crash
  BY <1>2, <1>10, OutsideMoves
<1>11. CASE Start
  <2>1. driver'.at = "top"
    BY <1>11, OutsideMoves DEF Idle
  <2> QED
    BY <1>1, <2>1
<1> QED
  BY <1>3, <1>4, <1>5, <1>6, <1>7, <1>8, <1>9, <1>10, <1>11, CommandMoves, StepCases

(***************************************************************************)
(* The slots.                                                              *)
(***************************************************************************)
\* A claim that advances its definition.
ClaimStep(a, slot) ==
    /\ ClaimDue(a) /\ Live(a) /\ Consumes(a, slot) /\ Records(a, slot) /\ Advances(a, slot)
    /\ since' = since /\ gone' = gone /\ clock' = clock

\* Nothing that was recorded is forgotten, and no scheduled time is recorded.
Kept ==
    \A a \in Automation, t \in Slot :
        /\ Taken(a, t) => Taken(a, t)'
        /\ occ[a][t].reason = "missed" => occ'[a][t].reason = "missed"
        /\ (t \notin Manual /\ Taken(a, t)') => Taken(a, t)
        /\ Recorded(a, t) => t \in Manual

\* Only a claim records a scheduled time.
LEMMA SlotSteps ==
    ASSUME Typed, BatchDue, [Next]_vars
    PROVE  \/ \E a \in Automation, slot \in Slot : ClaimStep(a, slot)
           \/ /\ Kept
              /\ \/ def' = def /\ since' = since
                 \/ \E a \in Automation : Commands(a) /\ DefMoves(a)
<1>1. ASSUME RowsMove, gone' = gone
      PROVE  Kept
  BY <1>1 DEF RowsMove, Moves, Kept, Taken, Recorded
<1>2. ASSUME NEW a \in Automation, NEW s \in Slot, DeleteThread(a, s)
      PROVE  Kept
  <2>1. /\ occ[a][s].status # "none" /\ occ[a][s].reason # "missed"
        /\ occ'[a][s].status = "none" /\ gone' = gone \cup {<<a, s>>}
        /\ \A b \in Automation, u \in Slot : (b # a \/ u # s) => occ'[b][u] = occ[b][u]
    BY <1>2, Cleared
  <2> QED
    BY <2>1 DEF Kept, Taken, Recorded
<1>3. ASSUME NEW a \in Automation, NEW s \in Manual, NEW q \in OccRow, Adds(a, s, q), gone' = gone
      PROVE  Kept
  <2>1. /\ occ'[a][s].status # "none" /\ occ[a][s].status = "none" /\ s \in Slot
        /\ \A b \in Automation, u \in Slot : (b # a \/ u # s) => occ'[b][u] = occ[b][u]
    BY <1>3, AddedRow, ManualSlots
  <2>2. occ[a][s].reason # "missed"
    <3>1. occ[a][s] \in OccRow
      BY <2>1 DEF Typed
    <3> QED
      BY <2>1, <3>1 DEF OccRow, Row
  <2> QED
    BY <1>3, <2>1, <2>2 DEF Kept, Taken, Recorded
<1>4. ASSUME NEW a \in Automation, ClaimDue(a)
      PROVE  \/ \E slot \in Slot : ClaimStep(a, slot)
             \/ Kept /\ def' = def /\ since' = since
  <2>1. Live(a) /\ since' = since /\ gone' = gone /\ clock' = clock
    BY <1>4, ClaimOutcome DEF Due, ghosts
  <2>2. ClaimFails => Kept /\ def' = def
    BY <1>1, <2>1, NoneMoves DEF ClaimFails
  <2> QED
    BY <1>4, <2>1, <2>2, ClaimOutcome DEF ClaimStep
<1>5. CASE \E a \in Automation : ClaimDue(a)
  BY <1>4, <1>5
<1>6. CASE ~ \E a \in Automation : ClaimDue(a)
  <2>1. Kept
    BY <1>1, <1>2, <1>3, <1>6, RowSteps
  <2> QED
    BY <1>6, <2>1, DefSteps
<1> QED
  BY <1>5, <1>6

\* What a claim does to the rows.
LEMMA ClaimedSlot ==
    ASSUME Typed, NEW a \in Automation, NEW slot \in Slot, ClaimStep(a, slot)
    PROVE  /\ occ'[a][slot].status # "none"
           /\ (Missed(a) /\ occ[a][slot].status = "none") => occ'[a][slot].reason = "missed"
           /\ occ[a][slot].reason = "missed" => occ'[a][slot].reason = "missed"
           /\ \A b \in Automation, u \in Slot : (b # a \/ u # slot) => occ'[b][u] = occ[b][u]
<1>1. Live(a) /\ Records(a, slot)
  BY DEF ClaimStep
<1>2. CASE occ[a][slot].status # "none" /\ occ' = occ
  BY <1>2
<1>3. ASSUME NEW q \in OccRow, NewRowOf(a, slot, q), occ' = [occ EXCEPT ![a][slot] = q],
             q.reason = "missed" <=> Missed(a)
      PROVE  /\ occ'[a][slot].status # "none"
             /\ (Missed(a) /\ occ[a][slot].status = "none") => occ'[a][slot].reason = "missed"
             /\ occ[a][slot].reason = "missed" => occ'[a][slot].reason = "missed"
             /\ \A b \in Automation, u \in Slot : (b # a \/ u # slot) => occ'[b][u] = occ[b][u]
  <2>1. Adds(a, slot, q)
    BY <1>3 DEF Adds
  <2>2. /\ occ'[a][slot] = q /\ q.status # "none" /\ occ[a][slot].status = "none"
        /\ \A b \in Automation, u \in Slot : (b # a \/ u # slot) => occ'[b][u] = occ[b][u]
    BY <2>1, AddedRow
  <2>3. occ[a][slot].reason # "missed"
    <3>1. occ[a][slot] \in OccRow
      BY DEF Typed
    <3> QED
      BY <2>2, <3>1 DEF OccRow, Row
  <2> QED
    BY <1>3, <2>2, <2>3
<1> QED
  BY <1>1, <1>2, <1>3, ClaimRecords

\* Only a definition that lives has a schedule.
LEMMA SinceStep ==
    ASSUME Typed, BatchDue, SinceLive, [Next]_vars
    PROVE  SinceLive'
<1>1. def \in [Automation -> DefRow] /\ since \in [Automation -> Time \cup {None}]
  BY DEF Typed
<1>2. CASE def' = def /\ since' = since
  BY <1>2 DEF SinceLive, Live
<1>3. ASSUME NEW a \in Automation, DefMoves(a)
      PROVE  SinceLive'
  <2>1. PICK d \in DefRow, t \in Time \cup {None} :
            /\ def' = [def EXCEPT ![a] = d] /\ since' = [since EXCEPT ![a] = t]
            /\ t # None => d \in LiveRow
    BY <1>3 DEF DefMoves
  <2>2. t # None => d.state = "live"
    BY <2>1 DEF LiveRow
  <2> QED
    BY <1>1, <2>1, <2>2 DEF SinceLive, Live
<1>4. ASSUME NEW a \in Automation, NEW slot \in Slot, ClaimStep(a, slot)
      PROVE  SinceLive'
  <2>1. PICK row \in LiveRow : def' = [def EXCEPT ![a] = row]
    BY <1>4 DEF ClaimStep, Advances
  <2>2. row.state = "live" /\ since' = since
    BY <1>4, <2>1 DEF LiveRow, ClaimStep
  <2> QED
    BY <1>1, <2>1, <2>2 DEF SinceLive, Live
<1> QED
  BY <1>2, <1>3, <1>4, SlotSteps

\* A time that has a row has passed, and the definition looks beyond it.
LEMMA PastStep ==
    ASSUME Typed, BatchDue, NotAhead, PastSlots, [Next]_vars, ~SetBack
    PROVE  PastSlots'
<1>1. /\ clock \in Nat /\ def \in [Automation -> DefRow] /\ driver.now \in Nat
      /\ driver.now <= clock
      /\ since \in [Automation -> Time \cup {None}]
  BY TimesAreNat DEF Typed, DriverRow, NotAhead
<1>2. clock' \in Nat /\ clock <= clock'
  <2>1. PowerSame \/ QuietDriver \/ Pass \/ Sleep \/ Resume \/ Crash \/ Start
    BY TimeSteps
  <2>2. PowerSame => clock' = clock
    BY DEF PowerSame
  <2>3. QuietDriver => clock' = clock
    BY QuietDriverMoves
  <2>4. Pass => clock' = clock + 1
    BY OutsideMoves
  <2>5. Sleep \/ Resume \/ Crash \/ Start => clock' = clock
    BY OutsideMoves
  <2> QED
    BY <1>1, <2>1, <2>2, <2>3, <2>4, <2>5
<1>3. \A t \in Slot \ Manual : t \in Nat
  BY SlotTimes
<1>4. \A a \in Automation, t \in Slot \ Manual :
          Taken(a, t) => t <= clock'
  BY <1>1, <1>2, <1>3 DEF PastSlots
<1>5. ASSUME Kept, def' = def
      PROVE  PastSlots'
  BY <1>4, <1>5 DEF Kept, PastSlots, Live
<1>6. ASSUME Kept, NEW a \in Automation, DefMoves(a), clock' = clock
      PROVE  PastSlots'
  <2>1. PICK d \in DefRow, t \in Time \cup {None} :
            /\ def' = [def EXCEPT ![a] = d]
            /\ t # None => d \in LiveRow
            /\ \/ t = None /\ (d \in LiveRow => d.next = None)
               \/ t = clock /\ (d.next # None => d.next > clock)
               \/ Live(a) /\ d.next = def[a].next
    BY <1>6 DEF DefMoves
  <2>2. d.state = "live" => d \in LiveRow
    BY DEF DefRow
  <2>3. d \in LiveRow => d.next \in Nat \cup {None}
    BY DEF LiveRow
  <2>4. ASSUME NEW u \in Slot \ Manual, Taken(a, u), d.state = "live", d.next # None
        PROVE  u < d.next
    <3>1. u \in Nat /\ u <= clock /\ d.next \in Nat
      BY <1>3, <2>2, <2>3, <2>4 DEF PastSlots
    <3>2. CASE t = clock /\ d.next > clock
      BY <1>1, <3>1, <3>2
    <3>3. CASE Live(a) /\ d.next = def[a].next
      BY <2>4, <3>3 DEF PastSlots
    <3> QED
      BY <2>1, <2>2, <2>4, <3>2, <3>3
  <2>5. /\ def'[a] = d
        /\ \A b \in Automation : b # a => def'[b] = def[b]
    BY <1>1, <2>1
  <2>6. ASSUME NEW b \in Automation, NEW u \in Slot \ Manual, Taken(b, u)'
        PROVE  /\ u <= clock'
               /\ (def'[b].state = "live" /\ def'[b].next # None) => u < def'[b].next
    <3>1. Taken(b, u)
      BY <1>6, <2>6 DEF Kept
    <3>2. CASE b = a
      BY <1>4, <2>4, <2>5, <3>1, <3>2
    <3>3. CASE b # a
      BY <1>4, <2>5, <3>1, <3>3 DEF PastSlots, Live
    <3> QED
      BY <3>2, <3>3
  <2> QED
    BY <2>6 DEF PastSlots, Live
<1>7. ASSUME NEW a \in Automation, NEW slot \in Slot, ClaimStep(a, slot)
      PROVE  PastSlots'
  <2>1. PICK row \in LiveRow :
            /\ def' = [def EXCEPT ![a] = row]
            /\ row.next # None => row.next > slot
    BY <1>7 DEF ClaimStep, Advances
  <2>2. row.next \in Nat \cup {None}
    BY <2>1 DEF LiveRow
  <2>3. /\ slot \in Nat /\ def[a].next \in Nat /\ def[a].next <= slot /\ slot <= driver.now
        /\ Live(a) /\ gone' = gone /\ clock' = clock
    BY <1>7 DEF ClaimStep, Consumes
  <2>4. /\ def'[a] = row
        /\ \A b \in Automation : b # a => def'[b] = def[b]
    BY <1>1, <2>1
  <2>5. \A b \in Automation, u \in Slot : (b # a \/ u # slot) => occ'[b][u] = occ[b][u]
    BY <1>7, ClaimedSlot
  <2>6. ASSUME NEW b \in Automation, NEW u \in Slot \ Manual, Taken(b, u)'
        PROVE  /\ u <= clock'
               /\ (def'[b].state = "live" /\ def'[b].next # None) => u < def'[b].next
    <3>1. CASE b = a /\ u = slot
      BY <1>1, <2>1, <2>3, <2>4, <3>1
    <3>2. CASE b = a /\ u # slot
      <4>1. Taken(a, u)
        BY <2>3, <2>5, <2>6, <3>2 DEF Taken
      <4>2. u \in Nat /\ u <= clock /\ u < def[a].next
        BY <1>3, <2>3, <4>1, TimesAreNat DEF PastSlots
      <4>3. row.next # None => u < row.next
        BY <2>1, <2>2, <2>3, <4>2
      <4> QED
        BY <2>3, <2>4, <3>2, <4>2, <4>3
    <3>3. CASE b # a
      <4>1. Taken(b, u)
        BY <2>3, <2>5, <2>6, <3>3 DEF Taken
      <4> QED
        BY <1>4, <2>4, <3>3, <4>1 DEF PastSlots, Live
    <3> QED
      BY <3>1, <3>2, <3>3
  <2> QED
    BY <2>6 DEF PastSlots, Live
<1>8. \A a \in Automation : Commands(a) => clock' = clock
  BY CommandStep
<1> QED
  BY <1>5, <1>6, <1>7, <1>8, SlotSteps

\* No occurrence is lost.
LEMMA AccountedStep ==
    ASSUME Typed, BatchDue, SinceLive, ~SetBackOnce => PastSlots, Accounted, [Next]_vars
    PROVE  Accounted'
<1> SUFFICES ASSUME ~SetBackOnce', NEW a \in Automation, since'[a] # None, NEW t \in def'[a].schedule.at,
                    since'[a] < t, def'[a].next = None \/ t < def'[a].next
             PROVE  \/ occ'[a][t].status # "none"
                    \/ <<a, t>> \in gone'
                    \/ \E u \in def'[a].schedule.at : t < u /\ occ'[a][u].reason = "missed"
  BY DEF Accounted
<1>1. PastSlots /\ ~SetBackOnce
  BY BackSteps
<1>2. /\ clock \in Nat /\ def \in [Automation -> DefRow]
      /\ since \in [Automation -> Time \cup {None}]
  BY TimesAreNat DEF Typed
<1> DEFINE Known == \/ Taken(a, t) \/ \E u \in def[a].schedule.at : t < u /\ occ[a][u].reason = "missed"
<1>3. ASSUME since[a] # None, t \in def[a].schedule.at, since[a] < t, def[a].next = None \/ t < def[a].next
      PROVE  Known /\ def[a].schedule.at \subseteq Slot
  <2>1. Known
    BY <1>1, <1>3 DEF Accounted, Taken
  <2>2. Live(a)
    BY <1>3 DEF SinceLive
  <2>3. def[a].schedule.at \subseteq Slot
    BY <2>2, LiveDef, ScheduleSlots
  <2> QED
    BY <2>1, <2>3
<1>4. ASSUME Kept, Known, def'[a].schedule.at = def[a].schedule.at, def[a].schedule.at \subseteq Slot,
             t \in Slot
      PROVE  \/ occ'[a][t].status # "none"
             \/ <<a, t>> \in gone'
             \/ \E u \in def'[a].schedule.at : t < u /\ occ'[a][u].reason = "missed"
  <2>1. CASE Taken(a, t)
    <3>1. Taken(a, t)'
      BY <1>4, <2>1 DEF Kept
    <3> QED
      BY <3>1 DEF Taken
  <2>2. ASSUME NEW u \in def[a].schedule.at, t < u, occ[a][u].reason = "missed"
        PROVE  \E v \in def'[a].schedule.at : t < v /\ occ'[a][v].reason = "missed"
    <3>1. occ'[a][u].reason = "missed"
      BY <1>4, <2>2 DEF Kept
    <3> QED
      BY <1>4, <2>2, <3>1
  <2> QED
    BY <1>4, <2>1, <2>2
<1>5. CASE Kept /\ def' = def /\ since' = since
  <2>1. def'[a] = def[a] /\ since'[a] = since[a]
    BY <1>5
  <2>2. Known /\ def[a].schedule.at \subseteq Slot
    BY <1>3, <2>1
  <2> HIDE DEF Known
  <2> QED
    BY <1>4, <1>5, <2>1, <2>2
<1>6. ASSUME Kept, NEW b \in Automation, Commands(b), DefMoves(b)
      PROVE  \/ occ'[a][t].status # "none"
             \/ <<a, t>> \in gone'
             \/ \E u \in def'[a].schedule.at : t < u /\ occ'[a][u].reason = "missed"
  <2>1. PICK d \in DefRow, w \in Time \cup {None} :
            /\ def' = [def EXCEPT ![b] = d] /\ since' = [since EXCEPT ![b] = w]
            /\ w # None => d \in LiveRow
            /\ \/ w = None
               \/ /\ w = clock
                  /\ \A x \in d.schedule.at : x > clock => d.next # None /\ d.next <= x
               \/ /\ w = since[b] /\ d.schedule = def[b].schedule /\ d.next = def[b].next
    BY <1>6 DEF DefMoves
  <2>2. CASE b # a
    <3>1. def'[a] = def[a] /\ since'[a] = since[a]
      BY <1>2, <2>1, <2>2
    <3>2. Known /\ def[a].schedule.at \subseteq Slot
      BY <1>3, <3>1
    <3> HIDE DEF Known
    <3> QED
      BY <1>4, <1>6, <3>1, <3>2
  <2>3. CASE b = a
    <3>1. def'[a] = d /\ since'[a] = w
      BY <1>2, <2>1, <2>3
    <3>2. CASE w = since[a] /\ d.schedule = def[a].schedule /\ d.next = def[a].next
      <4>1. Known /\ def[a].schedule.at \subseteq Slot
        BY <1>3, <3>1, <3>2
      <4> HIDE DEF Known
      <4> QED
        BY <1>4, <1>6, <3>1, <3>2, <4>1
    <3>3. CASE /\ w = clock
               /\ \A x \in d.schedule.at : x > clock => d.next # None /\ d.next <= x
      <4>1. d \in LiveRow
        BY <2>1, <3>1
      <4>2. t \in Nat /\ d.next \in Nat \cup {None}
        BY <3>1, <4>1, ScheduleAssumption DEF LiveRow
      <4>3. t > clock
        BY <1>2, <3>1, <3>3, <4>2
      <4> QED
        BY <3>1, <3>3, <4>2, <4>3
    <3> QED
      BY <2>1, <2>3, <3>1, <3>2, <3>3
  <2> QED
    BY <2>2, <2>3
<1>7. ASSUME NEW b \in Automation, NEW slot \in Slot, ClaimStep(b, slot)
      PROVE  \/ occ'[a][t].status # "none"
             \/ <<a, t>> \in gone'
             \/ \E u \in def'[a].schedule.at : t < u /\ occ'[a][u].reason = "missed"
  <2>1. /\ since' = since /\ gone' = gone /\ Live(b)
        /\ slot \in def[b].schedule.at /\ slot \in Slot \ Manual /\ slot \in Nat
        /\ def[b].next \in Nat /\ def[b].next <= slot
        /\ ~Missed(b) => slot = def[b].next
    BY <1>7 DEF ClaimStep, Consumes
  <2>2. PICK row \in LiveRow :
            /\ def' = [def EXCEPT ![b] = row] /\ row.schedule = def[b].schedule
            /\ \A x \in def[b].schedule.at : (row.next = None \/ x < row.next) => x <= slot
    BY <1>7 DEF ClaimStep, Advances
  <2>3. /\ occ'[b][slot].status # "none"
        /\ (Missed(b) /\ occ[b][slot].status = "none") => occ'[b][slot].reason = "missed"
        /\ occ[b][slot].reason = "missed" => occ'[b][slot].reason = "missed"
        /\ \A c \in Automation, u \in Slot : (c # b \/ u # slot) => occ'[c][u] = occ[c][u]
    BY <1>7, ClaimedSlot
  <2>4. /\ \A u \in Slot : Taken(a, u) => occ'[a][u].status # "none" \/ <<a, u>> \in gone'
        /\ \A u \in Slot : occ[a][u].reason = "missed" => occ'[a][u].reason = "missed"
    BY <2>1, <2>3 DEF Taken
  <2>5. ASSUME Known, def'[a].schedule.at = def[a].schedule.at, def[a].schedule.at \subseteq Slot
        PROVE  \/ occ'[a][t].status # "none"
               \/ <<a, t>> \in gone'
               \/ \E u \in def'[a].schedule.at : t < u /\ occ'[a][u].reason = "missed"
    <3>1. t \in Slot
      BY <2>5
    <3>2. CASE Taken(a, t)
      BY <2>4, <3>1, <3>2
    <3>3. ASSUME NEW u \in def[a].schedule.at, t < u, occ[a][u].reason = "missed"
          PROVE  \E v \in def'[a].schedule.at : t < v /\ occ'[a][v].reason = "missed"
      BY <2>4, <2>5, <3>3
    <3> QED
      BY <2>5, <3>2, <3>3
  <2>6. CASE b # a
    <3>1. def'[a] = def[a] /\ since'[a] = since[a]
      BY <1>2, <2>1, <2>2, <2>6
    <3>2. Known /\ def[a].schedule.at \subseteq Slot
      BY <1>3, <3>1
    <3> HIDE DEF Known
    <3> QED
      BY <2>5, <3>1, <3>2
  <2>7. CASE b = a
    <3>1. def'[a] = row /\ since'[a] = since[a] /\ def'[a].schedule = def[a].schedule
      BY <1>2, <2>1, <2>2, <2>7
    <3>2. t \in def[a].schedule.at /\ t <= slot /\ t \in Nat
      BY <2>1, <2>2, <2>7, <3>1, LiveDef
    <3>3. CASE t = slot
      BY <2>3, <2>7, <3>3
    <3>4. CASE t < def[a].next
      <4>1. Known /\ def[a].schedule.at \subseteq Slot
        BY <1>3, <3>1, <3>2, <3>4
      <4> HIDE DEF Known
      <4> QED
        BY <2>5, <3>1, <4>1
    <3>5. CASE def[a].next <= t /\ t < slot
      <4>1. Missed(a)
        BY <2>1, <2>7, <3>2, <3>5
      <4>2. ~Taken(a, slot)
        BY <1>1, <2>1, <2>7, TimesAreNat DEF PastSlots
      <4>3. occ'[a][slot].reason = "missed"
        BY <2>3, <2>7, <4>1, <4>2 DEF Taken
      <4> QED
        BY <2>1, <2>7, <3>1, <3>5, <4>3
    <3> QED
      BY <2>1, <2>7, <3>2, <3>3, <3>4, <3>5
  <2> QED
    BY <2>6, <2>7
<1> QED
  BY <1>5, <1>6, <1>7, SlotSteps

(***************************************************************************)
(* The theorems.                                                           *)
(***************************************************************************)
\* The initial states have the inductive invariant.
LEMMA InvInit == Init => AutomationInv
<1> SUFFICES ASSUME Init
             PROVE  AutomationInv
  OBVIOUS
<1>1. Typed
  BY TypeInit
<1>2. \A a \in Automation, s \in Slot : occ[a][s] = NoRow /\ <<a, s>> \notin gone
  BY DEF Init
<1>3. NoRow.status = "none" /\ ~IsActive(NoRow)
  BY DEF NoRow, IsActive
<1>4. ActiveOnce /\ PastSlots
  BY <1>2, <1>3 DEF ActiveOnce, PastSlots, Taken
<1>5. /\ device = "awake" /\ clock = 0 /\ boundary = 0 /\ driver.now = 0 /\ driver.at = "top"
      /\ awakeAt = {0}
      /\ \A a \in Automation : since[a] = None
  BY DEF Init, Idle
<1>6. Slept /\ SinceLive /\ BatchDue /\ BatchWorks /\ TickAwake
  BY <1>5 DEF Slept, SinceLive, BatchDue, BatchWorks, TickAwake, Sampled
<1>7. NotAhead /\ AwakeNow
  BY <1>5 DEF NotAhead, AwakeNow
<1>8. AwakeSince
  BY <1>5 DEF AwakeSince
<1>9. Accounted
  BY <1>5 DEF Accounted
<1> QED
  BY <1>1, <1>4, <1>6, <1>7, <1>8, <1>9 DEF AutomationInv, ClockInv

\* Every step keeps it.
LEMMA InvStep == AutomationInv /\ [Next]_vars => AutomationInv'
<1> SUFFICES ASSUME AutomationInv, [Next]_vars
             PROVE  AutomationInv'
  OBVIOUS
<1>1. Typed /\ ActiveOnce /\ Slept /\ SinceLive /\ BatchDue /\ BatchWorks /\ ClockInv /\ Accounted
  BY DEF AutomationInv
<1>2. Typed'
  BY <1>1, TypeStep
<1>3. ActiveOnce' /\ Slept' /\ SinceLive' /\ BatchDue' /\ BatchWorks'
  BY <1>1, ActiveStep, SleptStep, SinceStep, BatchStep
<1>4. ASSUME ~SetBackOnce'
      PROVE  NotAhead' /\ AwakeNow' /\ AwakeSince' /\ TickAwake' /\ PastSlots'
  <2>1. ~SetBackOnce /\ ~SetBack
    BY <1>1, <1>4, BackSteps
  <2>2. NotAhead /\ AwakeNow /\ AwakeSince /\ TickAwake /\ PastSlots
    BY <1>1, <2>1 DEF ClockInv
  <2> QED
    BY <1>1, <2>1, <2>2, NotAheadStep, AwakeStep, TickStep, PastStep
<1>5. ClockInv'
  BY <1>4 DEF ClockInv
<1>6. Accounted'
  BY <1>1, AccountedStep DEF ClockInv
<1> QED
  BY <1>2, <1>3, <1>5, <1>6 DEF AutomationInv

\* Every reachable state has the inductive invariant.
THEOREM InvariantHolds == Spec => []AutomationInv
BY InvInit, InvStep, PTL DEF Spec

\* At most one occurrence of a definition is active.
LEMMA OneActive ==
    ASSUME ActiveOnce, NEW a \in Automation
    PROVE  Cardinality({s \in Slot : IsActive(occ[a][s])}) <= 1
<1> DEFINE active == {s \in Slot : IsActive(occ[a][s])}
<1>1. CASE active = {}
  BY <1>1, FS_EmptySet
<1>2. CASE active # {}
  <2>1. PICK s \in active : TRUE
    BY <1>2
  <2>2. active = {s}
    BY <2>1 DEF ActiveOnce
  <2>3. Cardinality({s}) = 1
    BY FS_Singleton
  <2> QED
    BY <2>2, <2>3
<1> QED
  BY <1>1, <1>2

\* No occurrence is lost, and what has ended has no work left: `claim_due`
\* advances a definition only together with a row for what it consumed, and
\* every way to end an occurrence withdraws its Delivery or aborts its run.
THEOREM OccurrencesAgreeHolds == Spec => []OccurrencesAgree
<1>1. AutomationInv => OccurrencesAgree
  <2> SUFFICES ASSUME AutomationInv
               PROVE  OccurrencesAgree
    OBVIOUS
  <2>1. Typed /\ ActiveOnce /\ Accounted
    BY DEF AutomationInv
  <2>2. \A r \in OccRow : r \in Row /\ (r.status \in {"completed", "failed"} => ~Working(r))
    BY DEF OccRow, Row
  <2>3. ASSUME NEW a \in Automation
        PROVE  /\ def[a].state \in {"new", "live", "deleted"}
               /\ Live(a) => /\ def[a].schedule \in Schedule /\ def[a].enabled \in BOOLEAN
                             /\ def[a].next \in def[a].schedule.at \cup {None}
                             /\ def[a].limit \in Limit
               /\ occ[a] \in [Slot -> Row]
               /\ Cardinality({s \in Slot : IsActive(occ[a][s])}) <= 1
    <3>1. def[a] \in DefRow
      BY <2>1 DEF Typed
    <3>2. def[a].state \in {"new", "live", "deleted"}
      BY <3>1 DEF DefRow, LiveRow
    <3>3. occ[a] \in [Slot -> Row]
      BY <2>1, <2>2 DEF Typed
    <3>4. Cardinality({s \in Slot : IsActive(occ[a][s])}) <= 1
      BY <2>1, OneActive
    <3> QED
      BY <2>1, <3>2, <3>3, <3>4, LiveDef
  <2>4. {control, desk} \cup mail \subseteq [epoch : Nat, boundary : Time, paused : BOOLEAN]
    BY <2>1 DEF Typed, ControlRow
  <2>5. driver.at \in {"top", "ticked", "claiming", "rearm", "wait"} /\ driver.todo \subseteq Automation
    BY <2>1 DEF Typed, DriverRow
  <2>6. TypeOK
    BY <2>1, <2>3, <2>4, <2>5 DEF TypeOK, Typed
  <2>7. EndedMeansStopped
    BY <2>1, <2>2 DEF EndedMeansStopped, Typed
  <2> QED
    BY <2>1, <2>6, <2>7 DEF OccurrencesAgree
<1> QED
  BY <1>1, InvariantHolds, PTL

\* What a step that records an occurrence of a schedule has claimed.
LEMMA RecordedByClaim ==
    ASSUME AutomationInv, [Next]_vars, NEW a \in Automation, NEW t \in Slot \ Manual, Recorded(a, t)
    PROVE  /\ ClaimStep(a, t)
           /\ occ'[a][t].status # "skipped" => ~Missed(a)
           /\ occ'[a][t].reason = "overlap" => Active(a)
<1>1. Typed /\ BatchDue
  BY DEF AutomationInv
<1>2. PICK b \in Automation, slot \in Slot : ClaimStep(b, slot)
  BY <1>1, SlotSteps DEF Kept
<1>3. b = a /\ slot = t
  BY <1>1, <1>2, ClaimedSlot DEF Recorded
<1>4. Live(a) /\ Records(a, t)
  BY <1>2, <1>3 DEF ClaimStep
<1>5. PICK q \in OccRow :
          /\ NewRowOf(a, t, q) /\ occ' = [occ EXCEPT ![a][t] = q]
          /\ q.status # "skipped" => ~Missed(a)
          /\ q.reason = "overlap" => Active(a)
  BY <1>1, <1>4, ClaimRecords DEF Recorded
<1>6. occ'[a][t] = q
  BY <1>1, <1>5, NewRowTyped
<1> QED
  BY <1>2, <1>3, <1>5, <1>6

\* The scheduler starts only what came due while the core ran on an awake
\* device, because what lies before the boundary is skipped as missed.
LEMMA OnlyAwakeStep ==
    ASSUME AutomationInv, [Next]_vars, Native, NEW a \in Automation, NEW t \in Slot \ Manual,
           Recorded(a, t), occ'[a][t].status # "skipped", ~SetBackOnce
    PROVE  t \in awakeAt
<1>1. Typed /\ BatchDue /\ TickAwake
  BY DEF AutomationInv, ClockInv
<1>2. ClaimStep(a, t) /\ ~Missed(a)
  BY RecordedByClaim
<1>3. t \in Nat /\ t = def[a].next /\ t <= driver.now
  BY <1>2 DEF ClaimStep, Consumes
<1>4. driver.boundary \in Nat /\ driver.boundary <= t
  <2>1. driver.boundary \in Nat
    BY <1>1, TimesAreNat DEF Typed, DriverRow
  <2> QED
    BY <1>2, <1>3, <2>1 DEF Missed
<1>5. driver.at = "claiming"
  BY <1>2 DEF ClaimStep, ClaimDue
<1> QED
  BY <1>1, <1>3, <1>4, <1>5 DEF TickAwake, Sampled

\* A slot is recorded once, and what ended stays as it ended.
LEMMA DispatchedStep ==
    ASSUME AutomationInv, [Next]_vars, NEW a \in Automation, NEW s \in Slot
    PROVE  /\ Recorded(a, s) => <<a, s>> \notin gone \/ SetBackOnce
           /\ occ[a][s].status \in {"completed", "failed", "skipped"} =>
                 occ'[a][s].status \in {occ[a][s].status, "none"}
<1>1. Typed /\ BatchDue /\ (~SetBackOnce => PastSlots)
  BY DEF AutomationInv, ClockInv
<1>2. CASE RowsMove
  BY <1>2 DEF RowsMove, Moves, Recorded
<1>3. ASSUME NEW b \in Automation, NEW u \in Slot, DeleteThread(b, u)
      PROVE  /\ ~Recorded(a, s)
             /\ occ'[a][s].status \in {occ[a][s].status, "none"}
  BY <1>1, <1>3, Cleared DEF Recorded
<1>4. ASSUME NEW b \in Automation, NEW u \in Slot, NEW q \in OccRow, Adds(b, u, q),
             (u \in Manual /\ RunNow(b, u)) \/ ClaimDue(b)
      PROVE  /\ Recorded(a, s) => <<a, s>> \notin gone \/ SetBackOnce
             /\ occ[a][s].status \in {"completed", "failed", "skipped"} =>
                   occ'[a][s].status \in {occ[a][s].status, "none"}
  <2>1. /\ occ[b][u].status = "none"
        /\ (a # b \/ s # u) => occ'[a][s] = occ[a][s]
    BY <1>1, <1>4, AddedRow
  <2>2. ASSUME Recorded(a, s), ~SetBackOnce
        PROVE  <<a, s>> \notin gone
    <3>1. a = b /\ s = u
      BY <2>1, <2>2 DEF Recorded
    <3>2. CASE RunNow(b, u)
      BY <3>1, <3>2 DEF RunNow
    <3>3. CASE s \notin Manual
      <4>1. ClaimStep(a, s)
        BY <2>2, <3>3, RecordedByClaim
      <4>2. Live(a) /\ s \in Nat /\ def[a].next \in Nat /\ def[a].next <= s
        BY <4>1 DEF ClaimStep, Consumes
      <4> QED
        BY <1>1, <2>2, <3>3, <4>2, TimesAreNat DEF PastSlots, Taken
    <3>4. CASE s \in Manual /\ ClaimDue(b)
      <4>1. ClaimFails \/ (\E slot \in Slot : Consumes(b, slot) /\ Records(b, slot))
        BY <1>1, <3>4, ClaimOutcome
      <4>2. occ' # occ
        BY <2>2 DEF Recorded
      <4>3. PICK slot \in Slot : Consumes(b, slot) /\ Records(b, slot)
        BY <4>1, <4>2 DEF ClaimFails
      <4>4. Live(b)
        BY <1>1, <3>4, ClaimOutcome DEF Due
      <4>5. PICK r \in OccRow : occ' = [occ EXCEPT ![b][slot] = r]
        BY <1>1, <4>2, <4>3, <4>4, ClaimRecords
      <4>6. s # slot => occ'[a][s] = occ[a][s]
        BY <1>1, <3>1, <4>5, NewRowTyped
      <4>7. s = slot
        BY <2>2, <4>6 DEF Recorded
      <4> QED
        BY <3>4, <4>3, <4>7 DEF Consumes
    <3> QED
      BY <1>4, <3>1, <3>2, <3>3, <3>4
  <2> QED
    BY <2>1, <2>2
<1> QED
  BY <1>1, <1>2, <1>3, <1>4, RowSteps

\* An occurrence is skipped for overlap only while another one has work: the
\* pass that skips it has settled before what had ended.
LEMMA OverlapStep ==
    ASSUME AutomationInv, [Next]_vars, NEW a \in Automation, NEW t \in Slot \ Manual,
           Recorded(a, t), occ'[a][t].reason = "overlap"
    PROVE  \E s \in Slot : Working(occ[a][s])
<1>1. ClaimStep(a, t) /\ Active(a)
  BY RecordedByClaim
<1>2. driver.at = "claiming"
  BY <1>1 DEF ClaimStep, ClaimDue
<1> QED
  BY <1>1, <1>2 DEF AutomationInv, BatchWorks, Active

\* An occurrence is started or skipped for the right reason, and once:
\* claim_due with the boundary of AutomationClock, the unique slot of an
\* occurrence and the settlement before every batch.
THEOREM ClaimedRightlyHolds == Spec => ClaimedRightly
<1>1. AutomationInv /\ [Next]_vars =>
        [Native => \A a \in Automation, t \in Slot \ Manual :
           (Recorded(a, t) /\ occ'[a][t].status # "skipped") => t \in awakeAt \/ SetBackOnce]_vars
  BY OnlyAwakeStep
<1>2. AutomationInv /\ [Next]_vars =>
        [\A a \in Automation, s \in Slot :
           /\ Recorded(a, s) => <<a, s>> \notin gone \/ SetBackOnce
           /\ occ[a][s].status \in {"completed", "failed", "skipped"} =>
                 occ'[a][s].status \in {occ[a][s].status, "none"}]_vars
  BY DispatchedStep
<1>3. AutomationInv /\ [Next]_vars =>
        [\A a \in Automation, t \in Slot \ Manual :
           (Recorded(a, t) /\ occ'[a][t].reason = "overlap") => \E s \in Slot : Working(occ[a][s])]_vars
  BY OverlapStep
<1> QED
  BY <1>1, <1>2, <1>3, InvariantHolds, PTL
  DEF Spec, ClaimedRightly, OnlyAwake, DispatchedOnce, OverlapIsReal
=============================================================================
