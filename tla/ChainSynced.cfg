CONSTANTS
  n1 = n1
  n2 = n2
  n3 = n3
  Nodes = {n1, n2, n3}
  GenesisMiner = genesis
  Workers <- OneWorkerEach
  Host <- HostOf
  SharedRoster = {n1, n2, n3}
  Draw <- MCDraw
  Models = 2
  MaxHeight = 4
  MaxBlocks = 5
  MaxRestarts = 0
  MaxStops = 0
  MaxFaults = 0
SPECIFICATION FairSpec
CHECK_DEADLOCK FALSE
INVARIANT NoFork
PROPERTIES ImplementsAgreedLog EveryNodeCatchesUp
