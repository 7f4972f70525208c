SPECIFICATION FairSpec
CONSTANTS
  Proposals = {p1}
  JobIds = {0, 1}
  Requests = {r1, r2}
  MaxAttempts = 2
  MaxCrashes = 1
  MaxSignings = 2
  ReturnsId = TRUE
  Earlier = {}
  StaffStatus = {"REJECTED"}
INVARIANTS
  SyncedIsMember
  MemberHasSigned
  SyncInv
PROPERTIES
  SignedIsSettled
CHECK_DEADLOCK FALSE
