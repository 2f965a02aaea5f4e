CONSTANTS
  Lengths = {0, 5, 10, 25}
  TailFits = {TRUE, FALSE}

SPECIFICATION Spec

INVARIANT OpenErrorMeansNotOpened

CHECK_DEADLOCK FALSE
