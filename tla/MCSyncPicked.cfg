CONSTANTS
  None = None
  Clients = {ann, bob}
  ann = ann
  bob = bob
  Founder = ann
  Commands <- MCSyncBoth
  Users = {}
  Workloads = {}
  Members = {ann, bob}
  RefNames = {"main", "prod"}
  EnvironmentRefs = {"prod"}
  ProtectedRefs = {"prod"}
  LocalProtected = {ann}
  RefOrder <- MCRefOrder
  Trees = {8}
  MaxList = 10
  MaxMissing = 1
  ProbeChunk = 2
  UploadMax = 1
  MaxCommits <- MCMaxCommits
  MaxRuns = 2
SPECIFICATION Spec
PROPERTY NeverSilentlyPicked
CHECK_DEADLOCK FALSE
