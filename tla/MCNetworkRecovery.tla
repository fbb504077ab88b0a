------------------------- MODULE MCNetworkRecovery -------------------------
(* NetworkRecovery on small instances. *)
EXTENDS NetworkRecovery, TLC

CONSTANTS r1, r2

\* At most two of: a Stop of the run, a lost authorisation, a shutdown, a restart. None of
\* these four steps is fair.
Disturbances(r) == {d \in {"stop", "revoke", "shutdown", "restart"} :
                      \/ d = "stop" /\ run[r].cancelled
                      \/ d = "revoke" /\ ~allowed[r]
                      \/ d = "shutdown" /\ shutdown
                      \/ d = "restart" /\ restarts > 0}
TwoDisturbances == \A r \in Run : Cardinality(Disturbances(r)) <= 2
=============================================================================
