SPECIFICATION Spec
CONSTANTS
  Byte = 16
  UIntMax = 1048575
  Headers <- MCHeaders
  MaxCalls = 2
  Numbers <- MCNumbers
  Lengths <- MCLengths
  Strings <- MCStrings
  Blocks <- MCBlocks
  DataSets <- MCDataSets
  Clients <- MCClients
  Uris <- MCUris
  Locations <- MCLocations
INVARIANTS MessageRoundTrip DataRoundTrip RegisterUnderstood RequestUnderstood SizesSuffice PathsReturn
CHECK_DEADLOCK FALSE
