-------------------------- MODULE MCRuntimeFleet --------------------------
(* RuntimeFleet on small instances.  l1 runs first; the others wait for its cleanup. *)
EXTENDS RuntimeFleet, TLC

CONSTANTS l1, l2, l3, l4, p1, p2, p3, p4, s1, s2, s3, s4, camp, m1, m2, m3

FirstAlone == [l \in Lease |-> IF l = l1 THEN {} ELSE {l1}]
OneCamp == [s \in Scope |-> camp]
OwnMember == [s \in Scope |-> IF s = s2 THEN m2 ELSE m1]

\* One binding; the second execution finds the policy of the first, a new one, or either.
OneScope == [l \in Lease |-> s1]
SamePolicy == [l \in Lease |-> {"old"}]
NewPolicy == [l \in Lease |-> {IF l = l1 THEN "old" ELSE "new"}]
AnyPolicy == [l \in Lease |-> IF l = l1 THEN {"old"} ELSE {"old", "new"}]

\* One after the other; the last one finds a new policy.
InTurn == [l \in Lease |-> CASE l = l1 -> {} [] l = l2 -> {l1} [] OTHER -> {l1, l2}]
LastNew == [l \in Lease |-> {IF l = l3 THEN "new" ELSE "old"}]

\* A binding for each execution; the second member owns one of them.
OwnScope == [l \in Lease |-> CASE l = l1 -> s1 [] l = l2 -> s2 [] l = l3 -> s3 [] l = l4 -> s4]

\* Four bindings of three members; no execution waits for another.
ThreeMembers == [s \in Scope |-> CASE s \in {s1, s4} -> m1 [] s = s2 -> m2 [] s = s3 -> m3]
NoneEarlier == [l \in Lease |-> {}]

\* Questions about a crash or about the order of two Hosts are asked of a fleet that is
\* neither shut down nor fenced.
InService == ~shutdown /\ deleting = {}

\* The limits are tried without stops by the worker, fences and the end of the fleet.
Undisturbed ==
    /\ InService
    /\ \A l \in Lease : cleaner[l] = "idle"

\* The first member has a warm Host, the third one works, the start of the second evicts the
\* warm one, and the first member asks for another while that is being stopped.
EvictedMeanwhile ==
    /\ Undisturbed
    /\ launch[l3] # "idle" => handler[l1] = "reusable"
    /\ launch[l2] # "idle" => launch[l3] = "bound"
    /\ launch[l4] # "idle" => \E p \in Process : entry[p].evicts # None
    /\ \A p \in Process : entry[p].state = "Stopping" => Healthy(p)
    /\ \A l \in Lease : launch[l] \notin {"failed", "replacing"}

\* Everything may happen to a Codex binding whose policy changed; a crash only to one whose
\* policy is kept, in a fleet that is in service; the other adapters are undisturbed.  The
\* sweeper waits only in a fleet that is in service.
PolicyKept == \A l \in Lease : policy[l] # "new"
Focused ==
    /\ kind # "codex" => Undisturbed
    /\ PolicyKept => InService \/ launch[l2] = "idle"
    /\ restarts > 0 => PolicyKept /\ InService
    /\ sweeping # {} => InService

\* Reservations are interchangeable, and one is left for every launch that may still need it.
InOrder == \A r \in {<<p1, p2>>, <<p2, p3>>} :
               entry[r[2]].state # "absent" => entry[r[1]].state # "absent"
Reserved == Cardinality({p \in Process : entry[p].state = "absent"}) >=
               Cardinality({l \in Lease : launch[l] \in {"idle", "ensuring", "retiring", "acquiring",
                                                       "replacing"}})

\* What must eventually happen is asked of one Codex execution under disturbances, and of three
\* DSH executions.  The second one finds the warm Host of the first, its body, which it evicts,
\* or a stop that failed; the last one has a new policy and finds two stops that failed.  An
\* execution begins when the fleet is at rest.  Every step that is cut is one that need never
\* come, or one of several that the same task may take; the cleanup of the first two DSH
\* executions is only put off until their launch is over, which it always is.
Begins(l) == launch[l] = "idle" /\ launch'[l] # "idle"
AtRest ==
    /\ sweeping = {}
    /\ \A l \in Lease : cleaner[l] = "idle" /\ handler[l] \notin {"checking", "stopping"}
    /\ \A p \in Process : stop[p] \notin Unfinished /\ startup[p] \in {"none", "over"}
OneCodex ==
    /\ ~Begins(l2)
    /\ deleting' = {} \/ ~shutdown'
    /\ ~\E P \in Matching : Invalidate(P)
    /\ ~\E c \in Camp : FenceAttachments(c)
InTheWay ==
    \/ \E l \in Lease : RetireRun(l) \/ StopDelayed(l)
    \/ \E l \in Lease \ {l3} : InProgress(l) /\ ReadLaunch(l)
    \/ \E c \in Camp : MarkCampDeleting(c) \/ FenceAttachments(c)
    \/ \E P \in Matching : Invalidate(P)
    \/ \E p \in Process : HostExit(p) /\ entry[p].state # "IdleWarm"
    \/ ShutdownAll
    \* The handler of the last execution, of an earlier one than that which runs, or of one
    \* whose cleanup works.
    \/ \E l \in Lease : /\ handler'[l] # handler[l]
                        /\ \/ l = l3 \/ cleaner[l] # "idle"
                           \/ \E m \in Lease : l \in Earlier[m] /\ launch[m] # "idle"
ThreeDsh ==
    /\ Begins(l2) => AtRest /\ handler[l1] = "reusable"
    /\ Begins(l3) => AtRest /\ handler[l2] \in {"reusable", "other"}
                     /\ Cardinality({p \in Process : entry[p].state = "Stopping"}) = 2
    /\ ~InTheWay
Staged == IF Codex THEN OneCodex ELSE ThreeDsh

Symmetric == Permutations(Process)
=============================================================================
