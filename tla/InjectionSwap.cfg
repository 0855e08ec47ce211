SPECIFICATION Spec
CONSTANTS
  Conns = {c1}
  Ports = {p1}
  Ips = {ip1, ip2}
  FilterIp = ip1
  None = None
  AutoSwap = TRUE
  Slots = 2
  MaxResends = 1
INVARIANTS SwapKeepsWatch
CHECK_DEADLOCK FALSE
