\* Two connections, with everything that may happen around them.
SPECIFICATION Spec
CONSTANTS
  Conn = {c1, c2}
  Email = {"e"}
  Ip = {"i1", "i2", "i3", "i4"}
  Setting <- MCSetting
  NodeSpeed = 2
  Global = TRUE
  CacheFails = TRUE
  Updater = {w1}
  Others = {"i3", "i4"}
  MaxInbounds = 2
  Destination = {"address", "domain", "named", "fake"}
  Domain = {"domain", "named"}
  RuleLists <- MCRuleLists
  Session <- MCSession
  Outbounds <- MCOutbounds
  Hosts <- MCHosts
  FakeDNS <- MCFakeDNS
  MaxChanges = 1
SYMMETRY Interchangeable
CHECK_DEADLOCK FALSE
INVARIANTS
  DispatcherTypeOK
  DevicesWithinLimit
  GlobalWithinOneMore
  BucketFollowsPanel
  DetectionKept
  AuditSeesTarget
  NoDispatchHangs
