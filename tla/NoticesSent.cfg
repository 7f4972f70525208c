SPECIFICATION FairSpec
CONSTANTS
  MaxNotices = 2
  Channels = {"WHATSAPP", "PUSH"}
  MaxAttempts = 2
  MaxFaults = 1
INVARIANTS
  NoticesInv
PROPERTIES
  EveryJobEnds
CHECK_DEADLOCK FALSE
