CONSTANTS
  None = None
  \* path patterns
  Segments = {"a"}
  MaxPattern = 3
  MaxPath = 3
  \* agent sessions
  SessionIds = {s1, s2, s3}
  SetDims <- SessionSetDims
  Names <- SessionNames
  Patterns <- SessionPatterns
  Paths <- SessionPaths
  Requested <- SessionRequested
  Agents = {"ag1", "ag2"}
  Environments = {"dev"}
  MaxSecs = 1
  Ttls = {None, 1}
  \* audit log
  Payloads = {"allow", "deny"}
  Handles = {broker}
  Writers = {t1, t2, t3}
  HandleOf <- OneHandle
  MaxLines = 3
  \* replay cache
  Pairs = {k1, k2, k3}
  Ttl = 2
  Capacity = 2
  MaxInstant = 2
  MaxRegistrations = 4
  \* outbound transport
  Outbound <- OutboundCalls
  Literals <- HostLiterals
  BadHosts = {"under_score"}
  Resolutions <- ResolvedTo
  Locations <- RedirectTargets
  MaxHops = 1
  AllowPrivate = FALSE
  MaxRequestBody = 2
  \* policy engine
  Torn = Torn
  Files <- PolicyFiles
  Documents <- PolicyDocuments
  Modes = {"native", "cedar", "unknown"}
  AuthRequests <- AuthRequestSet
  MaxWritten = 3
  \* secret vault
  Procs = {cli, other}
  MaxRevisions = 3
  MaxCommands = 3
  \* control plane
  Users = {"ann", "eve"}
  Workloads = {"ci"}
  Members = {"ann", "ci"}
  ProtectedRefs = {}
  EnvironmentRefs = {}
  RefNames = {"main"}
  MaxList = 2
  MaxMissing = 1
  AdminRequests <- AdminCalls
  MaxAsked = 3
  \* sync client files
  Nil = Nil
  Empty = Empty
  Processes = {p1, p2, p3}
  Servers = {v1, v2}
  Remotes = {"origin", "upstream"}
  DefaultRemote = "origin"
  Unacceptable = {2}
  Chunk = 1
  MaxEvents = 2
  \* terminal UI
  Garbage = Garbage
  NoLimits = "none"
  Limits = {"none", "some"}
  Bodies = {"b1"}
  PolicyNames <- PolicyNameList
  NewPolicy = "new"
  Keys <- PressedKeys
  Projects <- ProjectSnapshots
  MaxPresses = 5
  \* text buffer
  Chars = {"a", "b"}
  MaxChars = 5
  SeedTexts <- SeedBuffers
  \* manifest diff
  Subjects <- SubjectNames
  PolicySubjects = {"0auth"}
  Manifests <- ManifestSet
  Resolved <- PolicyObjects
  \* policy packs
  TornPack = TornPack
  Packs <- PackSet
  Providers = {"github", "gitlab"}
  Placeholders = {"{id}", "{no}"}
  StrayBraces = {"v{1}"}
  BadNames = {"Pulls"}
  Underscored <- PolicyNameOf
  RequestBodyCap = 2
  ResponseBodyCap = 2
  Adders = {a1, a2}
  MaxAdds = 2
  \* agents
  TornFile = TornFile
  AgentNames = {"ci", "dev"}
  AgentPolicies = {"read"}
  Workers = {w1, w2}
  Pinned <- PinnedCommits
  Inherited = {"PATH", "STRIPE_KEY", "VAULTX_BROKER_SESSION"}
  SessionVar = "VAULTX_BROKER_SESSION"
  IdentityVars = {"VAULTX_AGENT"}
  MaxRuns = 3
  \* MCP server
  InputLines <- ClientLines
  MaxLineBytes = 3
  PackPolicies <- PolicyOfPack
  MaxInput = 2
  \* recovery
  Commits = {1, 2, 3}
  ParentsOf <- Parents
  Unsigned = {3}
  RevisionsOf <- Revisions
  AllRevisions = {"r1", "r2"}
  BranchRefs = {"main"}
  EnvRefs = {"env"}
  MaxDamage = 3
  \* project variables
  NamesInOrder <- TwoNames
  LikelySecretNames = {"API_TOKEN"}
  InvalidNames = {"1BAD"}
  ConfigValues = {"82"}
  SecretRevisions = {"r1"}
  EnvFiles <- OneEnvFile
  MaxEdits = 2
  \* project keys
  Commands = {k1, k2}
  MaxLosses = 2
  \* redaction
  Upper = {"A"}
  Lower = {"g", "p", "s"}
  Other = {"_", "-"}
  ScrubRules <- FourRules
  TailMin = 1
  MaxBody = 5
  MaxDenyReason = 5
  MaxMetadataValue = 8
  MaxReason = 4
SPECIFICATION ComponentsSpec
INVARIANTS
  GlobsExact
  BudgetConserved
  ReplayExact
  OutboundPermitted
  
  AdminAudited
  
  
  OneAnswerEach
  VariablesFaithful
  
  RedactionExact
PROPERTIES
  ChainsContained
  ChainSpec
  AcknowledgedStays
  VaultSound
  TuiFaithful
  PacksFaithful
  AgentsContained
  
CHECK_DEADLOCK FALSE
