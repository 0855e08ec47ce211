SPECIFICATION CleanSpec
CONSTANTS
  Ips = {ip1}
  Ports = {443, 8443}
  ProfilePort = 443
  ProbeThreads = 2
  Tries = 2
  TopN = 0
  ValidateXray = TRUE
  MaxScans = 1
INVARIANT MadeOnCleanPort
CHECK_DEADLOCK FALSE
