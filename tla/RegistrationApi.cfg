CONSTANTS
  Servers <- OneServer
  Ordered <- NoServer
  Priority <- Unordered
  Blocking <- NoServer
  BootstrapOn <- OneServer
  Delayed <- OneServer
  AttemptLimit = 2
  SequenceLimit = 2
  ApiCalls <- AllCalls
  Deregisters = TRUE
  MaxBlock = 1
  TooLarge = TRUE
  MaxVersion = 1
  MaxRequests = 2
SPECIFICATION Spec
INVARIANT TriesBounded
