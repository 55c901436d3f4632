CONSTANTS
  t1 = t1
  t2 = t2
  t3 = t3
  t4 = t4
  t5 = t5
  m1 = m1
  m2 = m2
  m3 = m3
  m4 = m4
  Tasks = {t1, t2, t3, t4, t5}
  ModelIds = {m1, m2, m3, m4}
  ModelOf <- MCModelOf
  Tip <- MCTip
  Offer <- MCOffer
  MaxSlots = 1
  Unit = 1
  Rate = 1
  Cap = 4
  DefaultCooldown = 2
  MaxCooldown = 4
  Life = 8
  InitialFee = 8
  MinFee = 8
  MaxFee = 10
  Target <- MCTarget
  ChangeRate <- MCChangeRate
  MinTip = 0
SPECIFICATION SpecMarket
INVARIANT CompetitiveTasksAreServed
PROPERTIES ModelsRest NoTaskIsOvertaken
