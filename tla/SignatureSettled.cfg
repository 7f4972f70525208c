SPECIFICATION FairSpec
CONSTANTS
  p1 = p1
  e1 = e1
  e2 = e2
  NoEnvelope = NoEnvelope
  Proposals = {p1}
  Envelopes = {e1}
  Owner <- OneOwner
  JobIds = {0, 1}
  Callers = {c1}
  Deliveries = {d1, d2}
  MaxAttempts = 2
  MaxFaults = 2
  CloseTypes = {"close"}
  CancelEchoes = TRUE
  StaffStatus = {"UNDER_REVIEW"}
PROPERTIES
  ApprovalIsAnswered
  EventsAreServed
  IsInbox
CHECK_DEADLOCK FALSE
