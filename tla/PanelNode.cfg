SPECIFICATION Spec
CONSTANTS
  User = {1}
  Setups <- MCSetups
  Local = {"l"}
  Malformed = {"("}
  MaxUint32 = 2000000000
  Faults = {"none", "bad", "cert"}
INVARIANTS
  PanelTypeOK
  PanelIsFollowed
  LimitIsShared
  NodeIsServedAsDescribed

  
