\* One execution with a pooled Host: its launch, its stop and the cleanup it
\* waits for, against the barrier of a shutdown.
CONSTANTS
  Execution = {e1}
  HostPooled = {e1}
  OneShot = {}
  Route = {r1}
  Terminal = {succeeded}
  CancelTerminal = {}
  Observer = {o1}
  None = None
SPECIFICATION FairSpec
INVARIANTS LaunchBarrier CleanAfterLaunch
PROPERTIES CleanupConfirmed
CHECK_DEADLOCK FALSE
