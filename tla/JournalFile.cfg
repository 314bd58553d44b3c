SPECIFICATION Spec
CONSTANTS
  empty = empty
  text = text
  g1 = g1
  Payload <- MCPayload
  PayloadLen <- MCPayloadLen
  Geometry <- MCGeometry
  AppendFixed = 70
  CommitFixed = 58
  HeaderSize = 100
  MaxPending = 2
  MaxRecords = 3
  MaxDamage = 1
  MaxReopens = 2
  DamageKinds = {"invalid"}
INVARIANTS
  TypeOK
  CommittedViewIsPrefix
  FedRecordsSurvive
  ChargesCoverFile
PROPERTIES
  PublishedViewOnlyGrows
CHECK_DEADLOCK FALSE
