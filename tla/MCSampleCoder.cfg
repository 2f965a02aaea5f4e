CONSTANTS
  Codings <- MCCodings
  Predictions <- MCPredictions
  FastGroup = 1
  Escape = 3
  WidestDraw = 2
  Unit = 4
  Scale = 2
  FirstShift = 1
  Histories = 2

SPECIFICATION Spec

INVARIANTS
  Lossless
  SameModels
  DrawsFit
  EstimatesInRange
