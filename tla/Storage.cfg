CONSTANTS
  f1 = f1
  f2 = f2
  o1 = o1
  o2 = o2
  Files = {f1, f2}
  Owners = {o1, o2}
  MinBlocks = 2
  MaxBlocks = 3
  Grace = 2
  Warn = 2
  MaxRest = 5
  MaxLapse = 4
SPECIFICATION FairSpec
INVARIANT PaidDataIsKept
PROPERTIES ExpiryIsAnnounced LapsedDataIsFreed
