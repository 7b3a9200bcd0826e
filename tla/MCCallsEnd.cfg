CONSTANTS
  SetDims <- MCSetDims
  Names <- MCNames
  Patterns <- MCPatterns
  Paths <- MCPaths
  Requested <- MCRequested
  InitialSessions <- MCInitialSessions
  Shapes <- AllShapes
  None = None
  root = root
  kid = kid
  stranger = stranger
  SessionIds = {root, kid, stranger}
  Procs = {p1, p2}
  Calls = {c1}
  RequestIds = {r1}
  Agents = {"ag1"}
  Environments = {"dev"}
  MaxSecs = 0
  Ttls = {None}
  ChildBudget = 1
  MaxForgets = 1
SPECIFICATION PartSpec
PROPERTIES EveryCallAnswered EveryCallEnds
CHECK_DEADLOCK FALSE
