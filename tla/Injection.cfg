SPECIFICATION Spec
CONSTANTS
  Conns = {c1, c2}
  Ports = {p1}
  Ips = {ip1, ip2}
  FilterIp = ip1
  None = None
  AutoSwap = TRUE
  Slots = 2
  MaxResends = 1
INVARIANTS TypeOK NothingLeftRegistered PermitsBalance
PROPERTIES KeepsPromise NoSecondDecoy VerdictFinal
SYMMETRY ConnSymmetry
CHECK_DEADLOCK FALSE
