\* One execution, two handlers that report two different terminals.
CONSTANTS
  Execution = {e1}
  HostPooled = {}
  OneShot = {e1}
  Route = {r1}
  Terminal = {succeeded, stopped}
  CancelTerminal = {stopped}
  Observer = {o1, o2}
  None = None
SPECIFICATION Spec
SYMMETRY ObserverSymmetry
INVARIANTS PlannedTerminalsAgree
PROPERTIES StableSnapshot SettlementCutoff OwnedUntilClean AdmissionsKept
CHECK_DEADLOCK FALSE
