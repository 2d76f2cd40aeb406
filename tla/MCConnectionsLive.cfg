CONSTANTS
  Peers = {p, g}
  Answering = {g}
  Good = {g}
  Gossip = {}
  Conns = {c1, c2}
  NoConn = NoConn
  NoPeer = NoPeer
  Maints = {m}
  Kickers = {}
  MaxConnections = 1
  Extra = 0
  MaxFails = 3
  MaxPeers = 2
  MaxWipes = 0
  MaxStops = 0
  MaxUpsets = 1
  MaxUnstarted = 1
SPECIFICATION FairSpec
INVARIANT WithinBudget
PROPERTY GoodReached
