\* 2-bit bytes, 7-bit window; the code has 8-bit bytes and a 31-bit window.
CONSTANTS
  Base = 4
  Bot = 32
  MaxTotal = 3
  MaxBytes = 5
SPECIFICATION EncSpec
INVARIANTS
  EncTypeOK
  CarryFits
  DummyUntouched
  FlushComplete
PROPERTY ImplementsIdealCoder
\* The encoder is done after flush().
CHECK_DEADLOCK FALSE
