CONSTANTS
  Ids = {0, 1, 2, 3}
  ShortIds = {1, 2}
  FirstSec <- Sec
  FirstSrv <- Srv
  Commands <- Swap
  BootstrapOnFailure <- All
  HoldOff = 1
  ExchangeLifetime = 2
  MaxCommands = 4
  MaxRequests = 2
SPECIFICATION Spec
INVARIANT OldServersRestarted
