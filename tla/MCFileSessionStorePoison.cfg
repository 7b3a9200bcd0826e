CONSTANTS
  SetDims <- MCSetDims
  Names <- MCNames
  Patterns <- MCPatterns
  Paths <- MCPaths
  Requested <- MCRequestedOne
  None = None
  SessionIds = {s1, s2, s3}
  Procs = {p1}
  Agents = {"ag1"}
  Environments = {"dev"}
  MaxSecs = 0
  Ttls = {None}
SPECIFICATION Spec
INVARIANT LegalFileLoads
