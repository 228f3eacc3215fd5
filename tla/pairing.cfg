SPECIFICATION FairSpec
CONSTANTS
  Process = {p1, p2}
  Main = p1
  Key = {k1, k2}
  Pin = {k1, k2, n}
  Host = {0, 1, 2}
  MaxHome = 2
  k1 = k1
  k2 = k2
  n = n
  NoFile = NoFile
  Torn = Torn
  None = None
  Explicit <- MCExplicit
  Neighbour <- MCNeighbour
CHECK_DEADLOCK FALSE
INVARIANTS OneIdentity PairingSound
PROPERTIES PinKept FindsServer StopReturns
