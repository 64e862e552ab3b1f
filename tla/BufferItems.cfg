CONSTANTS
  p1 = p1
  p2 = p2
  p3 = p3
  NoVote = NoVote
  TrackOf <- Favourite
  NoPlayback = NoPlayback
  NoTrack = NoTrack
  NoOperation = NoOperation
  Links <- FullRoom
  Peer = {p1, p2}
  InitQueue <- Repeated
  Audio = {p1}
  MediaFails = {}
  StreamFails = {}
  Unhealthy = {}
  SeekTargets = {"Outside", "Buffered"}
  MaxOperations = 2
  MaxFinishes = 1
  MaxRefreshes = 1
  MaxChurn = 0
  Leavers = {p2}
SPECIFICATION Spec
INVARIANT TypeOK
INVARIANT ItemsAreNotLost
PROPERTY PlaybackNeverRollsBack
CHECK_DEADLOCK FALSE
