-------------------------- MODULE MCExecutionConsole --------------------------
(* Instances of ExecutionConsole for TLC: run 2 may succeed run 1. *)
EXTENDS ExecutionConsole, TLC

OneRev == (1 :> 1) @@ (2 :> 0)
NoRev == (1 :> 0) @@ (2 :> 0)

\* One run after the other, and a change of the evidence or a fault, not both.
OneEvent == /\ run[2] # "queued" => run[1] = "ended"
            /\ rev[1] + rev[2] + Len(faults) <= 1
===============================================================================
