SPECIFICATION FairSpec
CONSTANTS
  t1 = t1
  t2 = t2
  t3 = t3
  n1 = n1
  n2 = n2
  n3 = n3
  NULL = NULL
  Threads = {t1, t2}
  Nodes = {n1, n2}
  MaxId = 2
  ListMax = 2
  ScanMax = 2
PROPERTIES ImplementsTable ManagerReleased
