\* Two administrators ask for the same dangerous command at once.
SPECIFICATION CenterSpec
CONSTANTS
  Cmd = {c1, c2}
  Conn = {k1}
  NoConn = NoConn
  NoCmd = NoCmd
  Types = {"RESTART_XRAYR"}
  Results = {"SUCCESS"}
  Events = {"settings"}
INVARIANT OneDangerousPerType
CHECK_DEADLOCK FALSE
