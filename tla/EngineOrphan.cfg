SPECIFICATION Spec
CONSTANTS
  Starts = {s1}
  None = None
  Kinds = {"direct"}
  Patient = FALSE
  SystemProxyOn = FALSE
  BinaryMissing = FALSE
  HasPool = FALSE
  SlowListener = FALSE
  ListenerCrash = FALSE
  MaxStops = 1
INVARIANTS NothingOrphaned
CHECK_DEADLOCK FALSE
