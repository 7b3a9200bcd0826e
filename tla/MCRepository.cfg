CONSTANTS
  Vars = {v}
  v = v
  w = w
  plain = plain
  other = other
  main = main
  side = side
  prod = prod
  msg = msg
  Entries = {plain, rev}
  Secrets = {rev}
  None = None
  Removed = Removed
  Branches = {main, side}
  Main = main
  Envs = {prod}
  Messages = {msg}
  MaxCommits = 4
CONSTRAINT Early
SPECIFICATION Spec
INVARIANTS
  RefsResolve
  SecretsNeverPicked
PROPERTIES
  HistoryAppendOnly
  StagedIntentKept
