SPECIFICATION Spec
CONSTANTS
  p1 = p1
  p2 = p2
  p3 = p3
  t1 = t1
  t2 = t2
  c1 = c1
  s1 = s1
  Threads = {t1}
  Clis = {}
  Probes = {p1, p2, p3}
  Families <- TwoFamilies
  Privileged = {p3}
  Streams = {s1}
  ScanIds = {1, 2}
  QueueMax = 1
  None = None
  MaxFaults = 0
INVARIANT
  StaysOpen
CHECK_DEADLOCK FALSE
