CONSTANTS
  SetDims <- MCSetDims
  Names <- MCNames
  Patterns <- MCPatterns
  Paths <- MCPaths
  Requested <- MCRequested
  None = None
  SessionIds = {s1, s2, s3}
  Procs = {p1, p2}
  Agents = {"ag1"}
  Environments = {"dev"}
  MaxSecs = 1
  Ttls = {1}
SYMMETRY Symmetry
SPECIFICATION Spec
INVARIANTS
  AcknowledgedIsDurable
PROPERTY StoreSpec
