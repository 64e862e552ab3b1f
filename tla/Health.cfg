CONSTANTS
  p1 = p1
  p2 = p2
  Peer = {p1, p2}
  Leader = p1
  Duration = 3
  ReadAhead = 3
  ReadyWindow = 2
  LowWatermark = 1
  LossGrace = 1
  StaleAfter = 1
  PublishMinInterval = 1
  MaxSessions = 2
  MaxMessages = 2
SPECIFICATION Spec
INVARIANT TypeOK StallsArePaused
PROPERTY PausesAreForLoss OnePausePerLoss
CHECK_DEADLOCK FALSE
