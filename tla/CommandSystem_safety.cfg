\* Settings change, and the agent and the Center restart around one command.
SPECIFICATION Spec
CONSTANTS
  Cmd = {c1}
  Conn = {k1, k2}
  NoConn = NoConn
  NoCmd = NoCmd
  Types = {"RESTART_XRAYR"}
  Results = {"SUCCESS", "FAILED"}
  Events = {"settings", "restart", "crash"}
  Slot = {s1}
  Allow = {"RESTART_XRAYR"}
  ChanCap = 1
SYMMETRY Symmetry
PROPERTY ImplementsContract
INVARIANT RunsWithinPushes
CHECK_DEADLOCK FALSE
