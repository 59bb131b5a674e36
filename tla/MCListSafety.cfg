SPECIFICATION Spec
CONSTANTS
  t1 = t1
  t2 = t2
  t3 = t3
  n1 = n1
  n2 = n2
  n3 = n3
  NULL = NULL
  Threads = {t1, t2, t3}
  Nodes = {n1, n2}
  MaxId = 2
  ListMax = 1
  ScanMax = 1
SYMMETRY Symmetry
INVARIANTS TypeOK ListWellFormed NoUseAfterFree SnapshotIsExact OnlyScanRaces NoDeadlock
