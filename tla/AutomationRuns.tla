--------------------------- MODULE AutomationRuns ---------------------------
(***************************************************************************)
(* Scheduled Automations: definitions with the time of their next          *)
(* occurrence, the occurrences that were started or skipped, and the       *)
(* driver that waits for deadlines, settles what has ended and then claims *)
(* what is due. An occurrence starts as a waiting Delivery of a new        *)
(* Thread, which the common scheduler claims. The device may sleep and the *)
(* core may end at any moment. Times are small numbers; an occurrence of a *)
(* definition is named by its scheduled time, a manual one by its own      *)
(* label (a timestamp of nanoseconds).                                     *)
(***************************************************************************)
EXTENDS Naturals, FiniteSets, FiniteSetsExt

CONSTANTS
    Automation,     \* ids; an id is never used again after delete
    Schedule,       \* schedules: [once, at], `at` the times they name (none for manual)
    Manual,         \* labels of the occurrences of run_now
    Limit,          \* time limits of an occurrence, None among them
    DefaultLimit,   \* the column's default
    Batch,          \* LIMIT of claim_due
    Native,         \* the clock can tell that the device slept (macOS)
    Desktop,        \* a Desktop sends scheduler control
    MaxTime, MaxSleeps, MaxCrashes, MaxEdits, MaxBack, MaxUnsure,   \* bounds
    None

Time == 0 .. MaxTime
Slot == (UNION {s.at : s \in Schedule}) \cup Manual

ASSUME ScheduleAssumption ==
    \A s \in Schedule : s.once \in BOOLEAN /\ s.at \subseteq Nat /\ (s.once => Cardinality(s.at) = 1)
ASSUME LimitAssumption == DefaultLimit \in Limit /\ Limit \subseteq Nat \cup {None} /\ None \notin Nat
\* The label of a manual occurrence counts nanoseconds, a scheduled time seconds.
ASSUME ManualAssumption == Manual \cap Nat = {}
ASSUME BoundAssumption ==
    /\ Batch \in Nat \ {0}
    /\ {MaxTime, MaxSleeps, MaxCrashes, MaxEdits, MaxBack, MaxUnsure} \subseteq Nat

VARIABLES
    clock,      \* the wall clock
    device,     \* "awake" | "asleep" | "down", the last when the core does not run
    slept,      \* the device slept since the clock was last sampled
    boundary,   \* AutomationClock.recovery_boundary
    control,    \* automation_scheduler_control of the core
    desk,       \* the same as the Desktop knows it
    mail,       \* control messages under way
    def,        \* rows of automation
    occ,        \* rows of automation_run, with their Delivery and its run
    driver,     \* process_automation_deadlines
    permit,     \* the permit of execution_wake.automation
    awakeAt,    \* ghost: times at which the core ran on an awake device
    since,      \* ghost: when the schedule of a definition was last set, or None
    gone,       \* ghost: slots that were dispatched and whose Thread was deleted
    count       \* how often the bounded events happened

vars == <<clock, device, slept, boundary, control, desk, mail, def, occ, driver, permit,
          awakeAt, since, gone, count>>
power == <<device, slept, boundary>>
link == <<control, desk, mail>>
ghosts == <<awakeAt, since, gone>>

Up == device = "awake"
NoRow == [status |-> "none", reason |-> "none", deadline |-> None,
          delivery |-> "none", agent |-> "none", result |-> FALSE]
NoControl == [epoch |-> 0, boundary |-> 0, paused |-> FALSE]
Idle == [at |-> "top", now |-> 0, boundary |-> 0, todo |-> {}, next |-> None, scan |-> TRUE, retry |-> FALSE]

Init ==
    /\ clock = 0 /\ device = "awake" /\ slept = FALSE /\ boundary = 0
    /\ control = NoControl /\ desk = NoControl /\ mail = {}
    /\ def = [a \in Automation |-> [state |-> "new"]]
    /\ occ = [a \in Automation |-> [s \in Slot |-> NoRow]]
    /\ driver = Idle /\ permit = FALSE
    /\ awakeAt = {0} /\ since = [a \in Automation |-> None] /\ gone = {}
    /\ count = [sleeps |-> 0, crashes |-> 0, edits |-> 0, back |-> 0, unsure |-> 0]

Counted(f, max) == count[f] < max /\ count' = [count EXCEPT ![f] = @ + 1]

(***************************************************************************)
(* Schedules and rows.                                                     *)
(***************************************************************************)
NextAfter(s, t) == LET later == {x \in s.at : x > t} IN IF later = {} THEN None ELSE Min(later)

LatestUpTo(s, t) == LET past == {x \in s.at : x <= t} IN IF past = {} THEN None ELSE Max(past)

Live(a) == def[a].state = "live"
Due(a, t) == Live(a) /\ def[a].enabled /\ def[a].next # None /\ def[a].next <= t
IsActive(row) == row.status = "running"
Active(a) == \E s \in Slot : IsActive(occ[a][s])
Working(row) == row.delivery = "waiting" \/ (row.delivery = "claimed" /\ row.agent \in {"running", "asking"})

Skipped(reason) == [NoRow EXCEPT !.status = "skipped", !.reason = reason]

\* INSERT OR IGNORE.
SkipIn(rows, s, reason) == IF rows[s].status = "none" THEN [rows EXCEPT ![s] = Skipped(reason)] ELSE rows

\* The rows a claim may leave: a waiting Delivery in a new Thread, a rejected
\* admission, or a Thread whose output directory could not be prepared.
ClaimedRows(a) ==
    LET started == [NoRow EXCEPT !.status = "running", !.delivery = "waiting",
                        !.deadline = IF def[a].limit = None THEN None ELSE clock + def[a].limit]
    IN  { started,
          [NoRow EXCEPT !.status = "failed", !.reason = "rejected"],
          [started EXCEPT !.status = "failed", !.reason = "interrupted", !.delivery = "cancelled"] }

(***************************************************************************)
(* settle_one_run: what an active occurrence becomes at `now`.             *)
(***************************************************************************)
Ended(row, status, reason) == [row EXCEPT !.status = status, !.reason = reason]

Succeeded(row) ==
    IF row.result THEN Ended(row, "completed", "none") ELSE Ended(row, "failed", "no_result")

Aborted(row, reason) == [Ended(row, "failed", reason) EXCEPT !.agent = "cancelled", !.delivery = "cancelled"]

Settled(row, now) ==
    LET late == row.deadline # None /\ now >= row.deadline
    IN  CASE row.delivery = "waiting" ->
                IF late THEN [Ended(row, "failed", "timeout") EXCEPT !.delivery = "cancelled"] ELSE row
          [] row.delivery = "settled" -> Succeeded(row)
          [] row.delivery \in {"failed", "cancelled"} -> Ended(row, "failed", "execution_failed")
          [] row.delivery = "claimed" /\ row.agent = "succeeded" ->
                Succeeded([row EXCEPT !.delivery = "settled"])
          [] row.delivery = "claimed" /\ row.agent \in {"failed", "cancelled"} ->
                Ended([row EXCEPT !.delivery = row.agent], "failed", "execution_failed")
          [] OTHER -> IF row.agent = "asking" THEN Aborted(row, "interaction_required")
                      ELSE IF late THEN Aborted(row, "timeout")
                      ELSE row

SettleAll(now) ==
    [a \in Automation |-> [s \in Slot |-> IF IsActive(occ[a][s]) THEN Settled(occ[a][s], now) ELSE occ[a][s]]]

(***************************************************************************)
(* Commands. A stale expected version is refused and changes nothing. The  *)
(* driver holds the database while it settles and claims.                  *)
(***************************************************************************)
Locked == driver.at = "claiming"

Commands(a) ==
    /\ Up /\ ~Locked /\ Counted("edits", MaxEdits)
    /\ permit' = TRUE
    /\ UNCHANGED <<clock, power, link, driver, awakeAt, gone>>

Create(a, s) ==
    LET next == NextAfter(s, clock)
    IN  /\ Commands(a) /\ def[a].state = "new"
        /\ s.once => next # None
        /\ def' = [def EXCEPT ![a] = [state |-> "live", enabled |-> TRUE, schedule |-> s, next |-> next,
                                      limit |-> DefaultLimit]]
        /\ since' = [since EXCEPT ![a] = clock]
        /\ UNCHANGED occ

ConfigureTimeLimit(a, limit) ==
    /\ Commands(a) /\ Live(a) /\ ~Active(a)
    /\ def' = [def EXCEPT ![a].limit = limit]
    /\ UNCHANGED <<occ, since>>

\* mutant: every edit moves the next occurrence to the future
UpdateRecomputes(a, s, on) ==
    LET d == def[a]
        fresh == s # d.schedule \/ (on /\ ~d.enabled)
        next == IF on THEN NextAfter(s, clock) ELSE None
    IN  /\ Commands(a) /\ Live(a)
        /\ (on /\ s.once) => next # None
        /\ def' = [def EXCEPT ![a] = [d EXCEPT !.enabled = on, !.schedule = s, !.next = next]]
        /\ since' = [since EXCEPT ![a] = IF ~on THEN None ELSE IF fresh THEN clock ELSE @]
        /\ UNCHANGED occ

Update(a, s, on) ==
    LET d == def[a]
        fresh == s # d.schedule \/ (on /\ ~d.enabled)
        next == IF ~on THEN None ELSE IF fresh THEN NextAfter(s, clock) ELSE d.next
    IN  /\ Commands(a) /\ Live(a)
        /\ (on /\ s.once) => next # None
        /\ def' = [def EXCEPT ![a] = [d EXCEPT !.enabled = on, !.schedule = s, !.next = next]]
        /\ since' = [since EXCEPT ![a] = IF ~on THEN None ELSE IF fresh THEN clock ELSE @]
        /\ UNCHANGED occ

Close(a) ==
    /\ Commands(a) /\ Live(a)
    /\ def' = [def EXCEPT ![a].enabled = FALSE, ![a].next = None]
    /\ since' = [since EXCEPT ![a] = None]
    /\ UNCHANGED occ

Delete(a) ==
    /\ Commands(a) /\ Live(a)
    /\ def' = [def EXCEPT ![a] = [state |-> "deleted"]]
    /\ since' = [since EXCEPT ![a] = None]
    /\ UNCHANGED occ

RunNow(a, m) ==
    /\ Commands(a) /\ Live(a) /\ occ[a][m].status = "none" /\ <<a, m>> \notin gone
    /\ \E row \in IF Active(a) THEN {Skipped("overlap")} ELSE ClaimedRows(a) :
          occ' = [occ EXCEPT ![a][m] = row]
    /\ UNCHANGED <<def, since>>

(***************************************************************************)
(* The Delivery, its run and its Thread. Every commit wakes the driver.    *)
(***************************************************************************)
WorkStep(a, s, row) ==
    /\ Up /\ ~Locked
    /\ occ' = [occ EXCEPT ![a][s] = row]
    /\ permit' = TRUE
    /\ UNCHANGED <<clock, power, link, def, driver, awakeAt, since, count>>

ClaimDelivery(a, s) ==
    /\ occ[a][s].delivery = "waiting"
    /\ WorkStep(a, s, [occ[a][s] EXCEPT !.delivery = "claimed", !.agent = "running"])
    /\ UNCHANGED gone

WithdrawDelivery(a, s) ==
    /\ occ[a][s].delivery = "waiting"
    /\ WorkStep(a, s, [occ[a][s] EXCEPT !.delivery = "cancelled"])
    /\ UNCHANGED gone

\* The run waits for an approval or for input, or gets it.
AskUser(a, s) ==
    /\ occ[a][s].agent \in {"running", "asking"}
    /\ WorkStep(a, s, [occ[a][s] EXCEPT !.agent = IF @ = "asking" THEN "running" ELSE "asking"])
    /\ UNCHANGED gone

EndRun(a, s) ==
    /\ occ[a][s].agent = "running"
    /\ \E end \in {"succeeded", "failed"}, r \in BOOLEAN :
          WorkStep(a, s, [occ[a][s] EXCEPT !.agent = end, !.result = r /\ end = "succeeded"])
    /\ UNCHANGED gone

SettleDelivery(a, s) ==
    /\ occ[a][s].delivery = "claimed" /\ occ[a][s].agent \in {"succeeded", "failed", "cancelled"}
    /\ WorkStep(a, s, [occ[a][s] EXCEPT !.delivery =
                          IF occ[a][s].agent = "succeeded" THEN "settled" ELSE occ[a][s].agent])
    /\ UNCHANGED gone

\* The permanent deletion of the Thread takes the occurrence with it.
DeleteThread(a, s) ==
    /\ occ[a][s].delivery # "none" /\ ~Working(occ[a][s])
    /\ WorkStep(a, s, NoRow)
    /\ gone' = gone \cup {<<a, s>>}

(***************************************************************************)
(* The driver. It samples the clock, and with the database in hand it      *)
(* settles every active occurrence and then claims a batch of what was due *)
(* at the sampled time. (Each row is a transaction of its own; the claims  *)
(* are steps, the settlements one step.)                                   *)
(***************************************************************************)
Later(x, y) == IF x > y THEN x ELSE y

DriverStep == Up /\ UNCHANGED <<clock, device, link, ghosts>>

ObservePaused ==
    /\ DriverStep /\ driver.at = "top" /\ control.paused
    /\ driver' = [driver EXCEPT !.at = "wait", !.next = None, !.retry = FALSE]
    /\ UNCHANGED <<slept, boundary, def, occ, permit, count>>

\* mutant: a sleep does not move the boundary
ObserveSleepIgnored ==
    /\ DriverStep /\ driver.at = "top" /\ ~control.paused /\ Native /\ slept
    /\ slept' = FALSE
    /\ driver' = [driver EXCEPT !.at = "wait", !.retry = TRUE]
    /\ UNCHANGED <<boundary, def, occ, permit, count>>
\* The device slept: the boundary moves, and nothing is claimed on this sample.
ObserveSleep ==
    /\ DriverStep /\ driver.at = "top" /\ ~control.paused /\ Native /\ slept
    /\ slept' = FALSE /\ boundary' = Later(boundary, clock)
    /\ driver' = [driver EXCEPT !.at = "wait", !.retry = TRUE]
    /\ UNCHANGED <<def, occ, permit, count>>

\* The sample took too long to be trusted.
ObserveUnsure ==
    /\ DriverStep /\ driver.at = "top" /\ ~control.paused /\ Native
    /\ Counted("unsure", MaxUnsure)
    /\ driver' = [driver EXCEPT !.at = "wait", !.retry = TRUE]
    /\ UNCHANGED <<slept, boundary, def, occ, permit>>

ObserveTick ==
    /\ DriverStep /\ driver.at = "top" /\ ~control.paused /\ ~(Native /\ slept)
    /\ IF driver.scan \/ (driver.next # None /\ driver.next <= clock)
       THEN driver' = [driver EXCEPT !.at = "ticked", !.now = clock, !.retry = FALSE,
                                     !.boundary = Later(boundary, control.boundary)]
       ELSE driver' = [driver EXCEPT !.at = "wait", !.retry = FALSE]
    /\ UNCHANGED <<slept, boundary, def, occ, permit, count>>

DueBatches(t) ==
    LET due == {a \in Automation : Due(a, t)}
        size == IF Cardinality(due) < Batch THEN Cardinality(due) ELSE Batch
    IN  {ids \in kSubset(size, due) : \A a \in ids, b \in due \ ids : def[a].next <= def[b].next}

Process ==
    /\ DriverStep /\ driver.at = "ticked"
    /\ occ' = SettleAll(driver.now)
    /\ permit' = (permit \/ occ' # occ)
    /\ \E ids \in DueBatches(driver.now) :
          driver' = [driver EXCEPT !.at = IF ids = {} THEN "rearm" ELSE "claiming", !.todo = ids]
    /\ UNCHANGED <<slept, boundary, def, count>>

Consumed(d, missed) ==
    LET latest == LatestUpTo(d.schedule, driver.now)
    IN  IF missed /\ latest # None THEN latest ELSE d.next

Advanced(d, missed) ==
    [d EXCEPT !.enabled = @ /\ ~d.schedule.once,
              !.next = NextAfter(d.schedule, IF missed THEN driver.now ELSE Consumed(d, missed))]

Missed(a) == def[a].next < driver.boundary

\* One transaction of claim_due; the insertion of a claimed occurrence fails
\* when the slot has a row, and the error ends the batch.
ClaimDue(a) ==
    LET missed == Missed(a)
        slot == Consumed(def[a], missed)
        left == driver.todo \ {a}
        goOn == [driver EXCEPT !.todo = left, !.at = IF left = {} THEN "rearm" ELSE "claiming"]
        Advance == def' = [def EXCEPT ![a] = Advanced(def[a], missed)] /\ driver' = goOn
    IN  /\ DriverStep /\ driver.at = "claiming" /\ a \in driver.todo
        /\ \A b \in left : def[a].next <= def[b].next
        /\ \/ /\ missed \/ Active(a)
              /\ occ' = [occ EXCEPT ![a] = SkipIn(@, slot, IF missed THEN "missed" ELSE "overlap")]
              /\ Advance /\ UNCHANGED permit
           \/ /\ ~missed /\ ~Active(a) /\ occ[a][slot].status = "none"
              /\ \E row \in ClaimedRows(a) :
                    /\ occ' = [occ EXCEPT ![a][slot] = row]
                    /\ permit' = (permit \/ row.delivery # "none")
              /\ Advance
           \/ /\ ~missed /\ ~Active(a) /\ occ[a][slot].status # "none"
              /\ driver' = [Idle EXCEPT !.at = "wait", !.scan = driver.scan, !.next = driver.next, !.retry = TRUE]
              /\ UNCHANGED <<def, occ, permit>>
        /\ UNCHANGED <<slept, boundary, count>>

\* next_wake_at.
\* mutant: the deadlines of active occurrences are not waited for
WakeAtDue == {def[a].next : a \in {b \in Automation : Live(b) /\ def[b].enabled}} \ {None}
WakeAt ==
    ({def[a].next : a \in {b \in Automation : Live(b) /\ def[b].enabled}}
       \cup {occ[p[1]][p[2]].deadline : p \in {q \in Automation \X Slot : IsActive(occ[q[1]][q[2]])}})
    \ {None}

Rearm ==
    /\ DriverStep /\ driver.at = "rearm"
    /\ driver' = [Idle EXCEPT !.at = "wait", !.scan = driver.scan,
                                !.next = IF WakeAt = {} THEN None ELSE Min(WakeAt)]
    /\ UNCHANGED <<slept, boundary, def, occ, permit, count>>

WakeChanged ==
    /\ DriverStep /\ driver.at = "wait" /\ permit
    /\ permit' = FALSE
    /\ driver' = [driver EXCEPT !.at = "top", !.scan = TRUE]
    /\ UNCHANGED <<slept, boundary, def, occ, count>>

\* The reminder: a retry, the deadline itself, or a look at the clock before it.
WakeDeadline ==
    /\ DriverStep /\ driver.at = "wait" /\ ~permit
    /\ driver.retry \/ driver.next # None
    /\ driver' = [driver EXCEPT !.at = "top",
                     !.scan = driver.retry \/ (driver.next # None /\ driver.next <= clock)]
    /\ UNCHANGED <<slept, boundary, def, occ, permit, count>>

(***************************************************************************)
(* Time, sleep, scheduler control and the end of the core.                 *)
(***************************************************************************)
Pass ==
    /\ clock < MaxTime /\ clock' = clock + 1
    /\ awakeAt' = IF Up THEN awakeAt \cup {clock + 1} ELSE awakeAt
    /\ UNCHANGED <<power, link, def, occ, driver, permit, since, gone, count>>

\* The wall clock is set back.
SetBack ==
    /\ clock > 0 /\ Counted("back", MaxBack)
    /\ clock' \in 0 .. clock - 1
    /\ UNCHANGED <<power, link, def, occ, driver, permit, ghosts>>

Tell(d) == Desktop /\ desk' = d /\ mail' = mail \cup {d}

Sleep ==
    /\ Up /\ Counted("sleeps", MaxSleeps)
    /\ device' = "asleep" /\ slept' = TRUE
    /\ \/ Tell([desk EXCEPT !.epoch = @ + 1, !.paused = TRUE])
       \/ ~Desktop /\ UNCHANGED <<desk, mail>>
    /\ UNCHANGED <<clock, boundary, control, def, occ, driver, permit, ghosts>>

Resume ==
    /\ device = "asleep" /\ device' = "awake"
    /\ awakeAt' = awakeAt \cup {clock}
    /\ \/ Tell([epoch |-> desk.epoch + 1, boundary |-> clock, paused |-> FALSE])
       \/ ~Desktop /\ UNCHANGED <<desk, mail>>
    /\ UNCHANGED <<clock, slept, boundary, control, def, occ, driver, permit, since, gone, count>>

\* mutant: the last message wins, whatever its epoch
AppliesAny(m) == TRUE
Applies(m) == ~(control.epoch > m.epoch \/ (control.epoch = m.epoch /\ control # m))

\* The read lock of the driver's pass keeps control as it is until it waits.
ApplyControl(m) ==
    /\ Up /\ m \in mail /\ driver.at \in {"top", "wait"}
    /\ mail' = mail \ {m}
    /\ IF Applies(m) THEN control' = m /\ permit' = TRUE ELSE UNCHANGED <<control, permit>>
    /\ UNCHANGED <<clock, power, desk, def, occ, driver, ghosts, count>>

Crash ==
    /\ Up /\ Counted("crashes", MaxCrashes)
    /\ device' = "down" /\ mail' = {}
    /\ UNCHANGED <<clock, slept, boundary, control, desk, def, occ, driver, permit, ghosts>>

\* recover_interrupted settles what is still active; a new driver starts.
Start ==
    /\ device = "down" /\ device' = "awake"
    /\ slept' = FALSE /\ boundary' = clock
    /\ control' = (IF Desktop THEN desk ELSE NoControl)
    /\ occ' = SettleAll(clock)
    /\ driver' = Idle /\ permit' = FALSE
    /\ awakeAt' = awakeAt \cup {clock}
    /\ UNCHANGED <<clock, desk, mail, def, since, gone, count>>

UserStep ==
    \E a \in Automation :
        \/ \E s \in Schedule : Create(a, s) \/ (\E on \in BOOLEAN : Update(a, s, on))
        \/ \E l \in Limit : ConfigureTimeLimit(a, l)
        \/ Close(a)
        \/ Delete(a)
        \/ \E m \in Manual : RunNow(a, m)

Work ==
    \E a \in Automation, s \in Slot :
        \/ ClaimDelivery(a, s)
        \/ WithdrawDelivery(a, s)
        \/ AskUser(a, s)
        \/ EndRun(a, s)
        \/ SettleDelivery(a, s)
        \/ DeleteThread(a, s)

Driver ==
    \/ ObservePaused
    \/ ObserveSleep
    \/ ObserveUnsure
    \/ ObserveTick
    \/ Process
    \/ \E a \in Automation : ClaimDue(a)
    \/ Rearm
    \/ WakeChanged
    \/ WakeDeadline

Receive == \E m \in mail : ApplyControl(m)

Next == UserStep \/ Work \/ Driver \/ Receive \/ Pass \/ SetBack \/ Sleep \/ Resume \/ Crash \/ Start

Spec == Init /\ [][Next]_vars

\* The driver is a task of its own, a sleeping device wakes, a core that ended
\* is started again and a message that was sent is handled. Nothing is assumed
\* of users, agents or the clock.
FairSpec ==
    /\ Spec
    /\ WF_vars(Driver) /\ WF_vars(Resume) /\ WF_vars(Start)
    /\ \A e \in 0 .. 2 * MaxSleeps : WF_vars(\E m \in mail : m.epoch = e /\ ApplyControl(m))

(***************************************************************************)
(* Properties.                                                             *)
(***************************************************************************)
\* A clock that was set back makes a time come again whose occurrence has been
\* claimed already (see AutomationRunsBack.cfg too).
SetBackOnce == count.back > 0

Reason == {"none", "rejected", "interrupted", "missed", "overlap", "no_result", "timeout",
           "execution_failed", "interaction_required"}
Row == [status : {"none", "running", "completed", "failed", "skipped"}, reason : Reason,
        deadline : Nat \cup {None}, agent : {"none", "running", "asking", "succeeded", "failed", "cancelled"},
        delivery : {"none", "waiting", "claimed", "settled", "failed", "cancelled"}, result : BOOLEAN]

\* Every variable keeps its type; there is never more than one active
\* occurrence of an Automation (automation_run_active_idx).
TypeOK ==
    /\ clock \in Time /\ device \in {"awake", "asleep", "down"} /\ slept \in BOOLEAN /\ boundary \in Time
    /\ {control, desk} \cup mail \subseteq [epoch : Nat, boundary : Time, paused : BOOLEAN]
    /\ \A a \in Automation :
          /\ def[a].state \in {"new", "live", "deleted"}
          /\ Live(a) => /\ def[a].schedule \in Schedule /\ def[a].enabled \in BOOLEAN
                        /\ def[a].next \in def[a].schedule.at \cup {None} /\ def[a].limit \in Limit
          /\ occ[a] \in [Slot -> Row]
          /\ Cardinality({s \in Slot : IsActive(occ[a][s])}) <= 1
    /\ driver.at \in {"top", "ticked", "claiming", "rearm", "wait"} /\ driver.todo \subseteq Automation
    /\ permit \in BOOLEAN

\* No occurrence is lost: between the moment its schedule was set and the next
\* occurrence of a definition, every time the schedule names has a row, unless
\* a later one was recorded as missed for it or its Thread was deleted. (With a
\* clock that was set back, the latest of the missed ones can have a row from
\* before, and INSERT OR IGNORE records nothing.)
Accounted ==
    \A a \in Automation :
        since[a] # None =>
            \A t \in def[a].schedule.at :
                (since[a] < t /\ (def[a].next = None \/ t < def[a].next)) =>
                    \/ occ[a][t].status # "none"
                    \/ <<a, t>> \in gone
                    \/ \E u \in def[a].schedule.at : t < u /\ occ[a][u].reason = "missed"
                    \/ SetBackOnce

\* An occurrence that has ended leaves no work behind: no Delivery in the
\* queue and no run, however it ended.
EndedMeansStopped ==
    \A a \in Automation, s \in Slot :
        occ[a][s].status \in {"completed", "failed"} => ~Working(occ[a][s])

Recorded(a, s) == occ[a][s].status = "none" /\ occ'[a][s].status # "none"

\* The scheduler starts no occurrence that came due while the device slept or
\* the core did not run, where the clock can tell. (The boundary is a time of
\* the wall clock: when that is set back before the driver samples it, it lies
\* too early. On other systems it moves when the Desktop says so, and the driver
\* may tick between the wake and its message.)
OnlyAwake ==
    [][Native => \A a \in Automation, t \in Slot \ Manual :
          (Recorded(a, t) /\ occ'[a][t].status # "skipped") => t \in awakeAt \/ SetBackOnce]_vars

\* The prompt of an occurrence is dispatched once: a row that ended is final,
\* and a slot whose row went with its Thread is not filled again, unless the
\* clock was set back before its time.
DispatchedOnce ==
    [][\A a \in Automation, s \in Slot :
          /\ Recorded(a, s) => <<a, s>> \notin gone \/ SetBackOnce
          /\ occ[a][s].status \in {"completed", "failed", "skipped"} =>
                occ'[a][s].status \in {occ[a][s].status, "none"}]_vars

\* An occurrence is skipped for overlap only while the other one has work: what
\* has ended is settled before what is due is claimed.
OverlapIsReal ==
    [][\A a \in Automation, t \in Slot \ Manual :
          (Recorded(a, t) /\ occ'[a][t].reason = "overlap") => \E s \in Slot : Working(occ[a][s])]_vars

\* Only what came due up to the recovery boundary is recorded as missed; a
\* late pass of the driver claims its occurrence at the original time.
MissedBeforeBoundary ==
    [][\A a \in Automation, t \in Slot \ Manual :
          (Recorded(a, t) /\ occ'[a][t].reason = "missed") => t <= driver.boundary]_vars

\* What is due is consumed: the driver is woken for it, after edits, sleep,
\* untrusted samples and restarts alike.
DueConsumed == \A a \in Automation : Due(a, clock) ~> ~Due(a, clock) \/ SetBackOnce

\* The same whatever becomes of the clock. It does not hold (AutomationRunsBack.cfg).
DueConsumedAlways == \A a \in Automation : Due(a, clock) ~> ~Due(a, clock)

\* An occurrence whose time limit has passed ends, whether its Delivery was
\* claimed or still waits (or the clock is set back before that limit again).
LimitEnforced ==
    \A a \in Automation, s \in Slot :
        (IsActive(occ[a][s]) /\ occ[a][s].deadline # None /\ occ[a][s].deadline <= clock)
            ~> ~IsActive(occ[a][s]) \/ clock < occ[a][s].deadline

\* The rows tell the truth: no occurrence is lost, and what has ended has no
\* work left.
OccurrencesAgree == TypeOK /\ Accounted /\ EndedMeansStopped

\* An occurrence is started or skipped for the right reason, and once.
ClaimedRightly == OnlyAwake /\ DispatchedOnce /\ OverlapIsReal
=============================================================================
