CONSTANTS
  Files <- MCFiles
  Budgets <- MCBudgets
  BufferSize = 3

SPECIFICATION Spec

INVARIANT ReadAheadAligned

PROPERTY ImplementsCursor
