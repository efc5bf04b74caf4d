CONSTANTS
  Servers <- TwoServers
  Ordered <- TwoServers
  Priority <- SecondFirst
  Blocking <- NoServer
  BootstrapOn <- NoServer
  Delayed <- OneServer
  AttemptLimit = 1
  SequenceLimit = 2
  ApiCalls <- ClientCalls
  Deregisters = FALSE
  MaxBlock = 0
  TooLarge = FALSE
  MaxVersion = 1
  MaxRequests = 1
SPECIFICATION Spec
INVARIANT OrderKept
