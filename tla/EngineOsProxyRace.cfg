SPECIFICATION Spec
CONSTANTS
  Starts = {s1}
  None = None
  Kinds = {"direct"}
  Patient = FALSE
  SystemProxyOn = TRUE
  BinaryMissing = FALSE
  HasPool = FALSE
  SlowListener = FALSE
  ListenerCrash = FALSE
  MaxStops = 1
INVARIANTS BrowserFreedByStop
CHECK_DEADLOCK FALSE
