\* The same execution: only the deadlines of the procedure are fair.
CONSTANTS
  Execution = {e1}
  HostPooled = {e1}
  OneShot = {}
  Route = {r1}
  Terminal = {succeeded}
  CancelTerminal = {}
  Observer = {o1}
  None = None
SPECIFICATION DeadlineSpec
PROPERTIES ShutdownCompletes
CHECK_DEADLOCK FALSE
