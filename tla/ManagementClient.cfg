CONSTANTS
  MaxUint8 = 2
  MaxUint16 = 4
  MaxInt = 5
  MaxUint32 = 6
  Junk = Junk
  Servers <- TwoServers
  FirstObjects <- AllObjects
  Requests <- AllRequests
  Changes <- LocalChanges
  Updates <- SecondServer
  MaxInstances = 2
  MaxCarried = 2
  MaxChanges = 3
SPECIFICATION Spec
INVARIANTS InstancesAdvertised CoreInSync RefusedLeavesNoTrace WrittenIsRead ReadsAgree
