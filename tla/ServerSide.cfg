CONSTANTS
  Devices = {a, b}
  Paths <- Observable
  FirstObjects <- Has
  Operations <- Managed
  InOrder = TRUE
  MaxCalls = 3
  MaxTrans = 2
  MaxSerial = 2
SYMMETRY Either
SPECIFICATION Spec
CHECK_DEADLOCK FALSE
INVARIANTS OneObservationPerPath NotifiedRight ObservationAgrees NoCallForgotten
