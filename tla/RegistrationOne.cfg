CONSTANTS
  Servers <- OneServer
  Ordered <- NoServer
  Priority <- Unordered
  Blocking <- NoServer
  BootstrapOn <- OneServer
  Delayed <- NoServer
  AttemptLimit = 1
  SequenceLimit = 2
  ApiCalls <- ClientCalls
  Deregisters = FALSE
  MaxBlock = 0
  TooLarge = FALSE
  MaxVersion = 3
  MaxRequests = 2
SPECIFICATION FairSpec
INVARIANT PendingHasRequest
INVARIANT FullUpdateHonoured
INVARIANT ListCurrent
PROPERTY RegisteringEnds
PROPERTY RequestsEnd
