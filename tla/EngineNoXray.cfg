SPECIFICATION Spec
CONSTANTS
  Starts = {s1}
  None = None
  Kinds = {"direct", "spoof"}
  Patient = TRUE
  SystemProxyOn = TRUE
  BinaryMissing = TRUE
  HasPool = FALSE
  SlowListener = FALSE
  ListenerCrash = FALSE
  MaxStops = 1
PROPERTIES OsProxyHasXray
CHECK_DEADLOCK FALSE
