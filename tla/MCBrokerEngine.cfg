CONSTANTS
  SetDims <- MCSetDims
  Names <- MCNames
  Patterns <- MCPatterns
  Paths <- MCPaths
  Requested <- MCRequested
  InitialSessions <- MCInitialSessions
  Shapes <- TwoShapes
  None = None
  root = root
  kid = kid
  stranger = stranger
  SessionIds = {root, kid}
  Calls = {c1, c2}
  RequestIds = {r1}
  Agents = {"ag1"}
  Environments = {"dev"}
  MaxSecs = 0
  Ttls = {None}
  ChildBudget = 1
  MaxForgets = 1
SYMMETRY Symmetry
SPECIFICATION Spec
INVARIANTS
  
  RevocationStopsCalls
  OneEffectPerWindow
  ExecutionsPermitted
CHECK_DEADLOCK FALSE
