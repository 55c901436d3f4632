CONSTANTS
  b1 = b1
  Blocks = {b1}
  MinSlot = 15
  MaxSlot = 26
  InitialSlot = 17
  OwnFloor = 18
  Step = 4
  Stress <- MCStress
  Slack <- MCSlack
  SlowDown <- MCSlowDown
  SpeedUp <- MCSpeedUp
  MaxTimings = 4
  storage = storage
  Params = {storage}
  Networked = {storage}
  Prices = {8, 19}
  Default <- MCDefault
  Initial <- MCInitial
  Least <- MCLeast
  Most <- MCMost
  Portion = 4
  MaxDuration = 2
  MaxCalls = 4
SPECIFICATION MCSpec
INVARIANTS NothingIsAppliedTwice PricesInBounds
PROPERTY LeadersApproach
