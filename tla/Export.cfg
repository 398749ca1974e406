SPECIFICATION Spec
CONSTANTS
  m1 = m1
  m2 = m2
  a = a
  b = b
  r1 = r1
  r2 = r2
  None = None
  Cli = Cli
  Machines = {m1, m2}
  Keys = {a, b}
  Bundles <- MixedBundles
  Reqs = {r1, r2}
  Keep = 2
  CliKeep = 1
  ParseSlots = 2
  MaxPosts = 2
  MaxExports = 1
  MaxBaselines = 1
  MaxCrashes = 1
  SlowRender = FALSE
  MaxTrims = 1
  Faults = {}
SYMMETRY Symmetry
INVARIANTS
  TypeOK
  Attribution
  
  RollupOutlivesRender
CHECK_DEADLOCK FALSE
