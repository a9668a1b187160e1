SPECIFICATION NetSpec
CONSTANTS
  Ssids = {s1}
  NoSsid = NoSsid
  Connects = {t1}
  MaxBoots = 1
  MaxErrors = 0
  MaxLosses = 0
INVARIANT NoHijack
\* The device may be idle, or out of boots.
CHECK_DEADLOCK FALSE
