\* Two commands queued around the agent's connection, or one around a reconnect;
\* the database answers and posts arrive.
SPECIFICATION BoundedFairSpec
CONSTANTS
  Cmd = {c1, c2}
  Conn = {k1, k2}
  NoConn = NoConn
  NoCmd = NoCmd
  Types = {"STATUS_XRAYR"}
  Results = {"SUCCESS", "FAILED"}
  Events = {"break"}
  Slot = {s1, s2}
  Allow = {"STATUS_XRAYR"}
  ChanCap = 2
PROPERTIES
  EventuallySent
  QueuedIsAnswered
CHECK_DEADLOCK FALSE
