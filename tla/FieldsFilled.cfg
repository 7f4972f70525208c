SPECIFICATION FieldsSpec
CONSTANTS
  Docs = {d1, d2}
  NoDoc = NoDoc
  Papers <- MCPapers
  Typed <- MCTyped
  Cpfs = {"good", "bad"}
  InvalidCpfs = {"bad"}
  NoCpf = "none"
  MaxPct = 40
  Take = 1
  Tries = 2
  MaxTriggers = 2
  MaxEdits = 1
  MaxFaults = 1
  Ceps = {c1, c2}
  HalfCep = HalfCep
  Unfilled = Unfilled
  Unanswered = Unanswered
  Parts = {"street"}
  MaxTypings = 3
  MaxSaves = 2
  MaxLost = 1
INVARIANTS
  FieldsInv
  AddressIsOfItsCep
PROPERTIES
  VerdictIsFounded
  ConfirmedIsOfShown
  WaitEndsWell
CHECK_DEADLOCK FALSE
