CONSTANTS
  Peers = {p}
  Answering = {p}
  Good = {}
  Gossip = {p}
  Conns = {c1, c2}
  NoConn = NoConn
  NoPeer = NoPeer
  Maints = {m}
  Kickers = {k}
  MaxConnections = 1
  Extra = 0
  MaxFails = 3
  MaxPeers = 1
  MaxWipes = 1
  MaxStops = 1
  MaxUpsets = 1
  MaxUnstarted = 0
SPECIFICATION Spec
INVARIANT TypeOK
 
SYMMETRY Interchangeable
PROPERTY RemovedAfterFailures
