\* nodeInfoMonitor alone: every call to the panel and the core may fail.
SPECIFICATION Spec
CONSTANTS
  Node <- MCNode
  Portless = {}
  TagOf <- MCTagOf
  User <- MCUser
  UidOf <- MCUidOf
  Lists <- MCLists
  Faults = {"node", "users", "inbound", "outbound", "user"}
  UserTask = FALSE
  AutoLimit = 0
  WarnTimes = 0
  MaxBytes = 0
INVARIANTS
  ControllerTypeOK
  CoreFollowsMemory
  PanelIsFollowed
  OneInbound
  NobodyElseIsServed
