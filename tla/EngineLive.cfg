SPECIFICATION FairSpec
CONSTANTS
  Starts = {s1, s2}
  None = None
  Kinds = {"direct", "spoof"}
  Patient = FALSE
  SystemProxyOn = FALSE
  BinaryMissing = FALSE
  HasPool = FALSE
  SlowListener = FALSE
  ListenerCrash = FALSE
  MaxStops = 1
PROPERTIES ConnectingResolves
CHECK_DEADLOCK FALSE
