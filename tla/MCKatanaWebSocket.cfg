CONSTANTS
  c1 = c1
  c2 = c2
  Conns <- MCConns
  MaxServes = 2
  MaxIn <- MCMaxIn
  MaxOut <- MCMaxOut
SPECIFICATION Spec
INVARIANTS TableIsLive HandlersInOrder NothingLost PeerInOrder
PROPERTIES CloseIsReported
CHECK_DEADLOCK FALSE
