SPECIFICATION Spec
CONSTANTS
  p0 = p0
  p1 = p1
  p2 = p2
  i1 = i1
  i2 = i2
  Pairs <- MCPairs
  Ips = {i1, i2}
  IpOf <- MCIpOf
  Combos = {p1, p2}
  Primary = p0
  Conns = {c1, c2}
  None = None
  Slots = 1
  MinProbes = 1
  LossPct = 20
  DeadPct = 60
  RealEnough = 1
  Threshold = 1
  Bursts = {1}
  InitialSample = 1
  ExploreBatch = 1
  VerifyTop = 1
  AutoSwap = TRUE
  MaxCycles = 2
  MaxDown = 1
SYMMETRY ConnSymmetry
INVARIANTS TypeOK AliveIsJudged ConnectionsBalanced ActiveSetSound RouteStays
PROPERTIES DrainedBeforeReuse SuccessNeedsDownload
CHECK_DEADLOCK FALSE
