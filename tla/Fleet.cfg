SPECIFICATION Spec
CONSTANTS
  m1 = m1
  a = a
  b = b
  p1 = p1
  p2 = p2
  r1 = r1
  r2 = r2
  Procs = {p1}
  MaxScans = 2
  Machines = {m1}
  None = None
  MaxTokens = 4
  Bundles <- ScanBundles
  Keys = {a, b}
  Reqs = {r1, r2}
  Cli = Cli
  Keep = 2
  CliKeep = 2
  ParseSlots = 2
  MaxPosts = 4
  MaxExports = 0
  MaxBaselines = 0
  MaxCrashes = 1
  SlowRender = FALSE
  MaxTrims = 0
  Faults = {"throttle", "busy", "trim"}
  Host = m1
  BundleOf <- Scan
  Torn <- TornFile
  MaxFaults = 2
INVARIANTS
  NoBundleLost
  AckedWasStored
  OnlyCrashesGiveUp
PROPERTY
  SpoolDrains
CHECK_DEADLOCK FALSE
