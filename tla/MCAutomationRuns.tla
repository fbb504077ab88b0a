-------------------------- MODULE MCAutomationRuns --------------------------
(* AutomationRuns on small instances. *)
EXTENDS AutomationRuns

CONSTANTS a1, a2, m1

\* Schedules that recur beyond the end of time or not, one that names a single time.
Often == [once |-> FALSE, at |-> {1, 2, 3, 4, 5, 6}]
Few == [once |-> FALSE, at |-> {1, 3}]
Two == [once |-> FALSE, at |-> {1, 2}]
Once == [once |-> TRUE, at |-> {1}]

OnlyOften == {Often}
OnlyFew == {Few}
TwoAndOnce == {Two, Once}

\* The first definition and one more edit, or one sleep, end of the core,
\* correction of the clock or untrusted sample.
OneMore == count.sleeps + count.crashes + count.back + count.unsure + count.edits <= 2
=============================================================================
