CONSTANTS
  m1 = m1
  m2 = m2
  m3 = m3
  Models = {m1, m2, m3}
  None = none
  Priority <- TwoNormal
  Price <- UnitPrice
  MinBalance = 1
  RoundIterations = 2
  Payments = {0, 2}
  MaxCalls = 3
SPECIFICATION FairSpec
CHECK_DEADLOCK FALSE
PROPERTY NoModelStarves
