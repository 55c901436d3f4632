CONSTANTS
  States = {0, 1, 2}
  Steps = 2
  Challenges = 2
  Grads = {1, 2}
  Gradient <- MCGradient
  Apply <- MCApply
  Loss <- MCLoss
  MinNorm = 1
  MaxNorm = 2
  MaxJump = 1
  NaN = nan
  Curves <- MCCurves
  Norms = {0, 1, 2}
  Weights <- MCWeights
  Shapes <- MCShapes
  Tolerance = 0
  Single <- MCSingle
  MaxStrikes = 2
  MaxCount = 2
SPECIFICATION SpecEvidence
CHECK_DEADLOCK FALSE
INVARIANTS HonestEvidencePasses FullReplayProvesTraining ProofsBindLayers FrozenWhenUseless
