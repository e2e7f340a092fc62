\* Two commands and two connections with every fault of the delivery, or with
\* one connection and settings that change.
SPECIFICATION CenterSpec
CONSTANTS
  Cmd = {c1, c2}
  Conn = {k1, k2}
  NoConn = NoConn
  NoCmd = NoCmd
  Results = {"SUCCESS"}
  Types = {"STATUS_XRAYR", "RESTART_XRAYR"}
  Events = {"break", "crash", "sql", "settings"}
SYMMETRY Symmetry
CONSTRAINT SettingsOrFaults
INVARIANTS
  CenterTypeOK
  PendingIsCovered
  SentWasPushed
  CheckedTypesWereGranted
CHECK_DEADLOCK FALSE
