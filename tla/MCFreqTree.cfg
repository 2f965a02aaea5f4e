CONSTANTS
  SymbolCounts <- MCSymbolCounts
  Limits <- MCLimits

SPECIFICATION Spec

INVARIANTS
  Lockstep
  SumsKept
  FrequenciesInBounds

PROPERTY
  ImplementsTable
