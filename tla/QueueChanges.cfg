CONSTANTS
  p1 = p1
  p2 = p2
  p3 = p3
  Peer = {p1, p2}
  NoVote = NoVote
  InitOwners <- TwoItems
  Links <- FullRoom
  AntiEntropy = {}
  Impatient = {p1, p2}
  MoveTargets = {0, 2}
  MaxChanges = 1
  MaxProposals = 1
  MaxChurn = 2
SPECIFICATION Spec
INVARIANT SameStampSameQueue
INVARIANT NoDuplicateItems
PROPERTY VotesRunOnTheirVersion
PROPERTY QueuesKeepTheRest
CHECK_DEADLOCK FALSE
