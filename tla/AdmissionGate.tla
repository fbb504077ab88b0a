---------------------------- MODULE AdmissionGate ----------------------------
(***************************************************************************)
(* What one admission of the planned shutdown coordinator promises.        *)
(*                                                                         *)
(* The coordinator (planned_shutdown.rs) owns three of them: the execution *)
(* launch admission, the terminal settlement admission and the live        *)
(* runtime route admission.  Each is opened once per Core generation,      *)
(* closed once, and drained at most once; a permit may be taken only while *)
(* it is open, and "drained" means that no permit is left.  The detailed   *)
(* module PlannedShutdown shows how an atomic phase, an atomic flag and    *)
(* three reader-writer locks keep this promise.                            *)
(***************************************************************************)
CONSTANT Holder        \* whoever may hold a permit of this admission

VARIABLES mode,        \* "open", "closed" or "drained"
          holders      \* the holders that own a permit now

gateVars == <<mode, holders>>

Init == mode = "open" /\ holders = {}

Enter(h) ==
  /\ mode = "open"
  /\ h \notin holders
  /\ holders' = holders \cup {h}
  /\ UNCHANGED mode

Leave(h) ==
  /\ h \in holders
  /\ holders' = holders \ {h}
  /\ UNCHANGED mode

Close ==
  /\ mode = "open"
  /\ mode' = "closed"
  /\ UNCHANGED holders

Drain ==
  /\ mode = "closed"
  /\ holders = {}
  /\ mode' = "drained"
  /\ UNCHANGED holders

Next == Close \/ Drain \/ \E h \in Holder : Enter(h) \/ Leave(h)

Spec == Init /\ [][Next]_gateVars
=============================================================================
