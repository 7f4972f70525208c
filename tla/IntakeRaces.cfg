SPECIFICATION Spec
CONSTANTS
  s1 = s1
  doc1 = doc1
  s2 = s2
  NoDraft = NoDraft
  Drafts = {d1}
  Docs = {doc1, doc2}
  Submissions = {s1, s2}
  TypeOf <- TypeOfDoc
  Required = {"CNH"}
  OcrTypes = {"CNH"}
  Email <- SameEmail
  MaxAttempts = 2
  MaxFaults = 2
INVARIANTS
  DraftIsNotLost
  AcceptedIsComplete
  AcceptedIsRead
  IntakeInv
PROPERTIES
  DocumentsAreKept
SYMMETRY Symmetry
CHECK_DEADLOCK FALSE
