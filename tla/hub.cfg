SPECIFICATION Spec
CONSTANTS
  d1 = d1
  Unknown = Unknown
  Devices <- MCOneDevice
  Interval = 1
  MaxDelay = 1
  MaxLost = 1
  OfflineAfter = 3
  DiskMayFail = TRUE
  MaxTime = 6
INVARIANTS
  TypeOK
  ReportingDeviceIsOnline
  OnlineReadingIsFresh
  RegistryIsKept
PROPERTIES
  ReadingsInOrder
  ImplementsDurableStore
