CONSTANTS
  Blocks <- TwoThreeTwo
  FullLast <- FirstFull
  Reorder = FALSE
  MaxCopies = 3
  MaxFlight = 5
SPECIFICATION Spec
CHECK_DEADLOCK FALSE
INVARIANT DeliveredWhole
INVARIANT ExecutedOnce
INVARIANT SuccessMeansExecuted
