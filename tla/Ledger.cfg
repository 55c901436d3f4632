CONSTANTS
  me = me
  owner = owner
  m1 = m1
  m2 = m2
  Accounts = {me, owner}
  Me = me
  Genesis = genesis
  System = system
  Models = {m1, m2}
  Noop = noop
  Owner <- MCOwner
  Cost <- MCCost
  Bonus = 1
  Emission <- MCEmission
  Supply = 9
  StartLiquid = 1
  Periods = {0, 2}
  VirtualStake = 1
  Grant = 1
  MaxActive = 1
  ShareNum = 1
  ShareDen = 3
  Cooldown = 1
  AttestationReward = 1
  MinFee = 1
  MinEscrow = 1
  StartWallet = 1
  Amounts = {1}
  MaxHeight = 3
  MaxCalls = 3
  Trainees = {m1}
  t1 = t1
  t2 = t2
  r1 = r1
  r2 = r2
  Threads = {t1, t2}
  Refreshers = {r1, r2}
  Strikes = 2
  NoModel = none
  MaxRefreshes = 2
SPECIFICATION MCSpec
CHECK_DEADLOCK FALSE
INVARIANTS TypeOK EmissionIsBacked Conserved VirtualStakeIsClaimedOnce FrozenWhileStruckOut SomebodyMayMine
PROPERTIES UnbondingStaysLocked
