SPECIFICATION DeskSpec
CONSTANTS
  Sessions = {e1, e2}
  MaxClicks = 3
  ResolveCap = 2
  SettleCap = 2
  Endpoints = {ea, eb}
  NoProfile = NoProfile
  MaxObjects = 3
  MaxConcurrent = 1
  Watched = 2
  Snis = {"n1"}
  Addresses = {"a1"}
  DefaultPairs <- Preset
  DefaultRoute <- PresetRoute
  OldFiles <- Earlier
  MaxEdits = 2
  Candidates = {k1, k2}
  ProbeWorkers = 1
  MaxSought = 2
  Ips = {ip1}
  Ports = {443, 8443}
  ProfilePort = 443
  ProbeThreads = 2
  Tries = 2
  TopN = 0
  ValidateXray = TRUE
  MaxScans = 2
  Probers = {w1, w2}
  SpoofOnes = {w1}
  Engine = Engine
  Nobody = Nobody
  Strategies = {"wrong_seq", "multi_fake"}
  Recipes <- Listed
  Mirrors = 2
  NumIps = 2
  RstBudget = 2
  MinSamples = 2
  Rates = {1, 4}
INVARIANTS
  DeskTypeOK
  StopIsFinal MaskSteady
  TicksFollowObjects TunnelFollows RowsTell
  CopiesAgree
  VerdictsShown NoRowDestroyed
  BusyTellsScan RowsHonest
  ProbesKeepApart MeasureLeavesNothing
PROPERTIES
  MaskResolves
  SelectionFollows MeasurementsEnd
  StopIsPrompt
  ScanEnds
  MeasureEnds
  RotationEarned
CHECK_DEADLOCK FALSE
