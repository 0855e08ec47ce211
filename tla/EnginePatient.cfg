SPECIFICATION Spec
CONSTANTS
  Starts = {s1, s2, s3}
  None = None
  Kinds = {"direct", "spoof", "forward"}
  Patient = TRUE
  SystemProxyOn = TRUE
  BinaryMissing = FALSE
  HasPool = TRUE
  SlowListener = FALSE
  ListenerCrash = FALSE
  MaxStops = 3
SYMMETRY StartSymmetry
INVARIANTS OffMeansClean GreenOwnsChain
CHECK_DEADLOCK FALSE
