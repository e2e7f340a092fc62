\* One command of a checked type and no fault: a command in the queue is waited for.
SPECIFICATION FairSpec
CONSTANTS
  Cmd = {c1}
  Conn = {k1}
  NoConn = NoConn
  NoCmd = NoCmd
  Types = {"RESTART_XRAYR"}
  Results = {"SUCCESS", "FAILED"}
  Events = {"settings"}
  Slot = {s1}
  Allow = {"RESTART_XRAYR"}
  ChanCap = 1
PROPERTY WaitingIsEnough
CHECK_DEADLOCK FALSE
