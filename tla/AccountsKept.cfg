SPECIFICATION Spec
CONSTANTS
  Consents = {c1, c2}
  FromDraft = d0
  Views = {v1, v2}
  Networks = {"SPOTIFY", "FACEBOOK"}
  Ttl = 0
  Life = 1
  Threshold = 1
  MaxAge = 0
  MaxNow = 1
  MaxGen = 3
  MaxLooks = 2
  MaxFaults = 1
INVARIANTS
  AccountsInv
  TokensAreKept
SYMMETRY Symmetry
CHECK_DEADLOCK FALSE
