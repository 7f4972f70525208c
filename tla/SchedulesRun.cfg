SPECIFICATION SchedulesSpec
CONSTANTS
  Proposals = {p1, p2}
  Analysts = {a1, a2}
  Nobody = Nobody
  Runs = {r1, r2}
  Term = 1
  Soon = 1
  MaxNow = 2
  MaxMoves = 1
  Waiting = {w1, w2}
  Envelopes = {e1, e2}
  MaxDay = 8
  MaxTurnings = 3
  MaxMissed = 1
INVARIANTS
  TriageInv
  RemindersInv
PROPERTIES
  AssignmentStands
SYMMETRY Symmetry
CHECK_DEADLOCK FALSE
