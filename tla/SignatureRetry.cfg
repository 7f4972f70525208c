SPECIFICATION Spec
SYMMETRY Symmetry
CONSTANTS
  p1 = p1
  e1 = e1
  e2 = e2
  NoEnvelope = NoEnvelope
  Proposals = {p1}
  Envelopes = {e1, e2}
  Owner <- OneOwner
  JobIds = {0, 1}
  Callers = {c1, c2}
  Deliveries = {d1}
  MaxAttempts = 2
  MaxFaults = 1
  CloseTypes = {"close"}
  CancelEchoes = TRUE
  StaffStatus = {}
INVARIANTS
  SignedHasEvidence
  PendingIsBacked
  RecordedWasProcessed
  SignatureInv
CHECK_DEADLOCK FALSE
