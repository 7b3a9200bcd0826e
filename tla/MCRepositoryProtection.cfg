CONSTANTS
  v = v
  w = w
  plain = plain
  other = other
  main = main
  side = side
  prod = prod
  msg = msg
  Vars = {v, w}
  Entries = {plain, other}
  Secrets = {}
  None = None
  Removed = Removed
  Branches = {main, side}
  Main = main
  Envs = {prod}
  Messages = {msg}
  MaxCommits = 7
SPECIFICATION DivergedSpec
INVARIANT MergeKeepsProtected
