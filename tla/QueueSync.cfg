CONSTANTS
  p1 = p1
  p2 = p2
  p3 = p3
  Peer = {p1, p2}
  NoVote = NoVote
  InitOwners <- NoItems
  Links <- FullRoom
  AntiEntropy = {p1, p2}
  Impatient = {}
  MoveTargets = {}
  MaxChanges = 2
  MaxProposals = 0
  MaxChurn = 0
SPECIFICATION FairSpec
PROPERTY ImplementsSharedQueue
PROPERTY QueuesConverge
CHECK_DEADLOCK FALSE
