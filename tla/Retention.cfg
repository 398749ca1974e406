SPECIFICATION Spec
CONSTANTS
  m1 = m1
  m2 = m2
  a = a
  b = b
  r1 = r1
  r2 = r2
  None = None
  Cli = Cli
  Machines = {m1}
  Keys = {a, b}
  Bundles <- HistoryBundles
  Reqs = {r1, r2}
  Keep = 2
  CliKeep = 2
  ParseSlots = 2
  MaxPosts = 4
  MaxExports = 0
  MaxBaselines = 0
  MaxCrashes = 0
  SlowRender = FALSE
  MaxTrims = 0
  Faults = {"trim", "busy", "throttle"}
SYMMETRY Symmetry
INVARIANTS
  UuidUnique
  DriftSound
  RetentionFloor
  RetentionBound
PROPERTY
  RefinesHistories
CHECK_DEADLOCK FALSE
