SPECIFICATION Spec
CONSTANTS
  Starts = {s1, s2}
  None = None
  Kinds = {"direct"}
  Patient = FALSE
  SystemProxyOn = FALSE
  BinaryMissing = FALSE
  HasPool = FALSE
  SlowListener = FALSE
  ListenerCrash = FALSE
  MaxStops = 1
PROPERTIES TearsDownOnlyItsOwn
CHECK_DEADLOCK FALSE
