CONSTANTS
  HistorySize = 5
  Damping = 2
  Settled = 6
  Singular <- MCSingular
  Solution <- MCSolution
  RingSize = 7
  Step <- MCStep
  Setups <- MCSetups
  Bits = 2
  WordBits = 2
  Low <- MCLow
  High = 1

SPECIFICATION Spec

INVARIANTS
  PredictorsTypeOK
  SamplesRestored
  LossyWithinStep
  SystemIsCovariance
  TapsArePast
  EnergyOfTaps
  LayerAsScheduled

CHECK_DEADLOCK FALSE
