CONSTANTS
  p1 = p1
  p2 = p2
  n1 = n1
  Peer = {p1, p2}
  Node = {n1}
  FirstPeers = {p1}
  FirstDelays = 2
  MaxBreaks = 1
  MaxNodeFaults = 1
  MaxDialFailures = 1
SPECIFICATION FairSpec
INVARIANT TypeOK RecoveryIffLost
PROPERTY PeersMeet
CHECK_DEADLOCK FALSE
