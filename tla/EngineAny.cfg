SPECIFICATION Spec
CONSTANTS
  Starts = {s1, s2}
  None = None
  Kinds = {"direct", "spoof"}
  Patient = FALSE
  SystemProxyOn = FALSE
  BinaryMissing = TRUE
  HasPool = FALSE
  SlowListener = TRUE
  ListenerCrash = TRUE
  MaxStops = 1
SYMMETRY StartSymmetry
INVARIANTS TypeOK GreenHasOwner
PROPERTIES NeverGreenAfterStop ShowsItsStatus
CHECK_DEADLOCK FALSE
