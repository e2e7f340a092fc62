\* Both monitors, with traffic and automatic limits.
SPECIFICATION Spec
CONSTANTS
  Node <- TrafficNode
  Portless = {"n0"}
  TagOf <- TrafficTagOf
  User <- TrafficUser
  UidOf <- TrafficUidOf
  Lists <- TrafficLists
  Faults = {"report", "answer"}
  UserTask = TRUE
  AutoLimit = 1
  WarnTimes = 1
  MaxBytes = 2
INVARIANTS
  TrafficIsConserved
  SlowIsReleased
