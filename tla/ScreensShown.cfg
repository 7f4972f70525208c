SPECIFICATION ScreenSpec
CONSTANTS
  p1 = p1
  p2 = p2
  Proposals = {p1, p2}
  Statuses = {"SUBMITTED", "REJECTED"}
  BulkTargets = {"REJECTED"}
  StatusFilters <- MCFilters
  Texts = {"ana"}
  Named <- MCNamed
  Sorts = {"createdAt", "fullName", "sla"}
  Orders <- MCOrders
  FirstSort = "createdAt"
  PageSize = 1
  MaxLoads = 2
  MaxMoves = 1
  MaxBulks = 1
  None = None
  Fields = {"name", "email"}
  Contact = {"email"}
  Mine = "mine"
  Others = "others"
  Docs = {"rg", "cnh"}
  MaxWrites = 1
  MaxReadings = 2
  MaxActions = 1
  OpensEach = 2
  Given = "given"
  Blank = "blank"
  Nothing = Nothing
  Accounts = {u1, u2}
  RoleSets <- MCRoleSets
  MaxRequests = 1
  MaxForeign = 1
  Absent = Absent
  Protocols = {"a", "b"}
  Nets = {"SPOTIFY"}
  NoValue = NoValue
  Gone = Gone
  MaxVisits = 1
  MaxTurns = 2
INVARIANTS
  ScreenInv
  ShownIsOfAsked
PROPERTIES
  SentIsOfShown
  SavesLoseOnlyByCrossing
SYMMETRY Symmetry
CHECK_DEADLOCK FALSE
