CONSTANTS
  me = me
  peer = peer
  m1 = m1
  b1 = b1
  b2 = b2
  b3 = b3
  b4 = b4
  Addresses = {me, peer}
  Models = {m1}
  Noop = noop
  Blocks = {b1, b2, b3, b4}
  Genesis = genesis
  None = none
  Local = {b1, b2}
  Miner <- MCMiner
  Model <- MCModel
  Steps <- MCSteps
  Reasonable = {b1, b3, b4}
  Weight <- MCWeight
  TotalStake = 3
  Quorum = 66
  Veto = 33
  AttestationWindow = 1
  LockWindow = 2
  Phase1 = 1
  Phase2 = 1
  Penalty <- MCPenalty
  BanTime <- MCBanTime
  Demerit <- MCDemerit
  Stakes <- MCStakes
  FlatPenalty = 11
  Reward = 2
  Pots = {3}
  MaxCalls = 3
  MaxTime = 2
SPECIFICATION MCSpec
CHECK_DEADLOCK FALSE
INVARIANTS AttestationsCountOnce AuditedHeadIsSingle
PROPERTIES SlashingStaysWithinStake
