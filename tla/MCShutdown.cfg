SPECIFICATION FairShutdownSpec
CONSTANTS
  MaxThreads = 4
  Fds <- TwoFds
  MAX_CLIENTS = 1
  MaxWait = 2
CHECK_DEADLOCK FALSE
INVARIANTS ShutdownTypeOK DescriptorsNotShared OrderlyDestroy
PROPERTIES StopEnds
