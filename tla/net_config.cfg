SPECIFICATION NetSpec
CONSTANTS
  Ssids = {s1, s2}
  NoSsid = NoSsid
  Connects = {t1}
  MaxBoots = 2
  MaxErrors = 0
  MaxLosses = 0
INVARIANT ConfigAccepted
\* The device may be idle, or out of boots.
CHECK_DEADLOCK FALSE
