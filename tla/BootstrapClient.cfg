CONSTANTS
  Ids = {0, 1, 2, 3}
  ShortIds = {1, 2}
  FirstSec <- Sec
  FirstSrv <- Srv
  Commands <- AlsoOwn
  BootstrapOnFailure <- All
  HoldOff = 1
  ExchangeLifetime = 1
  MaxCommands = 3
  MaxRequests = 2
SPECIFICATION Spec
PROPERTIES AccountsTransactional BootstrapEnds
INVARIANTS ServersMatchAccounts SessionsClosed BootstrapAccountKept
