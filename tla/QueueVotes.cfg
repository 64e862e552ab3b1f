CONSTANTS
  p1 = p1
  p2 = p2
  p3 = p3
  Peer = {p1, p2, p3}
  NoVote = NoVote
  InitOwners <- OneItem
  Links <- FullRoom
  AntiEntropy = {}
  Impatient = {p1}
  MoveTargets = {}
  MaxChanges = 0
  MaxProposals = 2
  MaxChurn = 0
SPECIFICATION Spec
INVARIANT CountedBallotsWereCast
INVARIANT OneBallotPerVote
INVARIANT VoteAgreement
SYMMETRY Guests
CHECK_DEADLOCK FALSE
