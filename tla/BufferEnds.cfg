CONSTANTS
  p1 = p1
  p2 = p2
  p3 = p3
  NoVote = NoVote
  TrackOf <- Favourite
  NoPlayback = NoPlayback
  NoTrack = NoTrack
  NoOperation = NoOperation
  Links <- FullRoom
  Peer = {p1, p2}
  InitQueue <- OneItem
  Audio = {p1, p2}
  MediaFails = {}
  StreamFails = {}
  Unhealthy = {p2}
  SeekTargets = {"Outside", "Ahead"}
  MaxOperations = 2
  MaxFinishes = 0
  MaxRefreshes = 0
  MaxChurn = 0
  Leavers = {}
SPECIFICATION FairSpec
INVARIANT OperationsEndOnce
INVARIANT RivalsDoNotCountEachOther
PROPERTY LeaderOperationsEnd
CHECK_DEADLOCK FALSE
