----------------------------- MODULE InputOnce -----------------------------
(***************************************************************************)
(* What Rovai promises of an item it hands to an external Runtime: it is   *)
(* queued, given to an execution and closed; the Runtime consumes it once  *)
(* at most, and an item that a Runtime may consume is never queued again.  *)
(***************************************************************************)
EXTENDS Naturals

CONSTANT Item

VARIABLES place, taken

vars == <<place, taken>>

Place == {"nobody", "queue", "run", "closed"}

Init == place = [i \in Item |-> "nobody"] /\ taken = [i \in Item |-> 0]

\* An item given back, or reopened after its outcome was in doubt, was not consumed.
MayMove(i, to) ==
    \/ place[i] = "nobody" /\ to \in {"queue", "run"}
    \/ place[i] = "queue" /\ to \in {"run", "closed"}
    \/ place[i] = "run" /\ to = "closed"
    \/ place[i] \in {"run", "closed"} /\ to = "queue" /\ taken[i] = 0

Move ==
    /\ place' \in [Item -> Place]
    /\ \A i \in Item : place'[i] # place[i] => MayMove(i, place'[i])
    /\ UNCHANGED taken

\* A turn consumes items together: none of them is queued, none was consumed before. The
\* evidence may come after the item was closed.
Take(items) ==
    /\ \A i \in items : place[i] \in {"run", "closed"} /\ taken[i] = 0
    /\ taken' = [i \in Item |-> IF i \in items THEN 1 ELSE taken[i]]
    /\ UNCHANGED place

Next == Move \/ \E items \in SUBSET Item : Take(items)

Spec == Init /\ [][Next]_vars
=============================================================================
