CONSTANTS
  Servers <- TwoServers
  Uris <- Apart
  Observes <- ThreePairs
  Resources <- AllResources
  Numeric <- OnlyReading
  Values <- Bits
  Writes <- SomeWrites
  Tokens <- TwoTokens
  Changes <- AnyChange
  Deletes <- SecondInstance
  StepTimeout = 2
  MaxWatchers = 2
  MaxAge = 2
SPECIFICATION Spec
INVARIANT NoChangeForgotten
INVARIANT SubscriptionKept
INVARIANT MaxPeriodKept
PROPERTY MinPeriodKept
INVARIANT ChangeReported
CHECK_DEADLOCK FALSE
