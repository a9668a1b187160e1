SPECIFICATION NetFair
CONSTANTS
  Ssids = {s1}
  NoSsid = NoSsid
  Connects = {t1, t2}
  MaxBoots = 2
  MaxErrors = 1
  MaxLosses = 1
INVARIANTS NetTypeOK StationNotForgotten BitFollowsStation PortalUnlessNetwork
PROPERTIES BootCompletes ResponderUp
\* The device may be idle: no event is pending and nobody sends a request.
CHECK_DEADLOCK FALSE
