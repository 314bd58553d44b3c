SPECIFICATION FairSpec
CONSTANTS
  a = a
  c = c
  d = d
  None = None
  TTL = 2
  WriteTimeout = 1
  Attachments = {a, c, d}
  Takeover = {c, d}
  Ponging = {a}
INVARIANTS
  TypeOK
  SingleWriter
PROPERTIES
  LeaseLeavesByRule
  TakeoverEnds
CHECK_DEADLOCK FALSE
