\* Repeated pushes, timeouts, lost posts and restarts.
SPECIFICATION AgentFairSpec
CONSTANTS
  Cmd = {c1, c2}
  Slot = {s1, s2}
  NoCmd = NoCmd
  Types = {"STATUS_XRAYR", "RESTART_XRAYR", "APPLY_CONFIG"}
  Allow = {"STATUS_XRAYR", "RESTART_XRAYR"}
  ChanCap = 1
  MaxRuns = 2
  Events = {"timeout", "loss", "restart"}
INVARIANTS
  AgentTypeOK
  OneExecutionPerCommand
  RunningIsExact
  SuccessWasPerformed
PROPERTY ExecutionEnds
CHECK_DEADLOCK FALSE
