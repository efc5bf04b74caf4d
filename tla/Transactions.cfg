SPECIFICATION FairSpec
CONSTANTS
  s1 = s1
  s2 = s2
  Mids <- TwoMids
  Peers <- TwoPeers
  PeerMids <- CollidingMids
  MAX_RETRANSMIT = 2
  RESPONSE_TIMEOUT = 1
  StepTimeout = 3
  MaxLag = 1
  MaxDenied = 1
INVARIANTS CallbackOnce NoOversleep BackoffKept EndsInTime
PROPERTIES EveryRequestEnds
CHECK_DEADLOCK FALSE
