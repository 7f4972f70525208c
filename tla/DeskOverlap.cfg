SPECIFICATION DeskSpec
CONSTANTS
  Proposals = {p1, p2}
  Calls = {c1, c2, c3}
  MaxOpen = 3
  Earlier = {p1, p2}
INVARIANTS
  DeskInv
PROPERTIES
  IsTimeline
SYMMETRY Symmetry
CHECK_DEADLOCK FALSE
