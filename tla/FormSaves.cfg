SPECIFICATION Spec
CONSTANTS
  Drafts = {d1, d2}
  NoDraft = NoDraft
  Nets = {n1}
  NoNets = NoNets
  Calls = {c1, c2}
  MaxMoves = 2
INVARIANTS
  FormInv
  AcceptedIsNotOlder
PROPERTIES
  DraftGoesBackOnlyByCrossing
SYMMETRY Symmetry
CHECK_DEADLOCK FALSE
