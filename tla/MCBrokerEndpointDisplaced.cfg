CONSTANTS
  Brokers = {b1, b2}
  Clients = {agent}
  agent = agent
  peer = peer
  Speaks <- MCSpeaks
  MaxConnections = 1
  MaxStarts = 2
  MaxCalls <- MCMaxCalls
  None = None
SPECIFICATION Spec
INVARIANT LiveBrokerNotDisplaced
CHECK_DEADLOCK FALSE
