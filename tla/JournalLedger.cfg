SPECIFICATION Spec
CONSTANTS
  k1 = k1
  k2 = k2
  k3 = k3
  Key <- MCKey
  Session <- MCSession
  Gen <- MCGen
  PaneCap <- MCPaneCap
  RealmCap <- MCRealmCap
  Slots = 2
  Header = 1
  HeaderReserve = 2
  Frame = 1
  PendingBytes = 1
  PendingRecords = 1
  BootstrapBytes = 1
  BootstrapRecords = 1
  PayloadSizes = {1}
  MaxIdentities = 2
  MaxRestarts = 1
INVARIANTS
  TypeOK
  WithinCaps
  LedgersBalance
  SlotsBalance
  HeldReplayIsNeverRefused
CHECK_DEADLOCK FALSE
