CONSTANTS
  Bits = 4
  SafeRange = 3
  Ranges <- MCRanges
  Multipliers <- MCMultipliers
  RemapRanges <- MCRemapRanges
  Scales <- MCScales
  ScaleUnit = 2
  Overshoot = 2
  ExpBits = 3
  MantBits = 3
  FloatBlocks <- MCFloatBlocks

SPECIFICATION MCSpec

INVARIANTS
  PostTypeOK
  RestoresExactly
  OrderKept
  LossyUnclipped
  TableIsOwn
  FloatsRestored
  SameDraws
