SPECIFICATION FairSpec
CONSTANTS
  Uploads = {u1}
  Made = {m1}
  BatchSize = 1
  MaxFaults = 2
INVARIANTS
  RetentionInv
PROPERTIES
  RowGoesAfterItsObject
  OldRowsGo
CHECK_DEADLOCK FALSE
