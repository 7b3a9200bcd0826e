CONSTANTS
  Brokers = {b1, b2}
  Clients = {agent, peer}
  agent = agent
  peer = peer
  Speaks <- MCSpeaks
  MaxConnections = 1
  MaxStarts = 2
  MaxCalls <- MCMaxCalls
  None = None
SPECIFICATION FairSpec
INVARIANTS
  SlotsAccounted
  ToldTheTruth
 
CHECK_DEADLOCK FALSE
