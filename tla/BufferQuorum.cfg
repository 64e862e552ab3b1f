CONSTANTS
  p1 = p1
  p2 = p2
  p3 = p3
  NoVote = NoVote
  TrackOf <- Favourite
  NoPlayback = NoPlayback
  NoTrack = NoTrack
  NoOperation = NoOperation
  Links <- FullRoom
  Peer = {p1, p2, p3}
  InitQueue <- OneItem
  Audio = {p1, p2}
  MediaFails = {}
  StreamFails = {p2}
  Unhealthy = {}
  SeekTargets = {"Outside"}
  MaxOperations = 1
  MaxFinishes = 0
  MaxRefreshes = 0
  MaxChurn = 1
  Leavers = {}
SPECIFICATION Spec
INVARIANT NothingPlaysWithoutQuorum
CHECK_DEADLOCK FALSE
