CONSTANTS
  n1 = n1
  n2 = n2
  n3 = n3
  Nodes = {n1, n2}
  GenesisMiner = genesis
  Workers <- SpareWorker
  Host <- HostOf
  SharedRoster = {}
  Draw <- MCDraw
  Models = 0
  MaxHeight = 2
  MaxBlocks = 3
  MaxRestarts = 1
  MaxStops = 1
  MaxFaults = 1
SPECIFICATION Spec
CHECK_DEADLOCK FALSE
INVARIANTS NoBlockTwice OnlyOwnBlocksDisplace PeersAccuseJustly HonestMinersStayClean
