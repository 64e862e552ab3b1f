CONSTANTS
  a = a
  b = b
  r1 = r1
  d1 = d1
  d2 = d2
  x = x
  y = y
  End = {a, b}
  Link = {r1, d1, d2}
  RelayedLink = {r1}
  Address = {}
  WarmupTimeout = 2
  HandoffGrace = 3
  DedupWindow = 0
  RetryInterval = 0
  MediumRetryInterval = 0
  SlowRetryInterval = 0
  MediumRetryFailures = 0
  SlowRetryFailures = 0
  MaxFailures = 1
  Leavers = {b}
  Delay = 1
  MaxLearns = 0
  MaxBreaks = 1
SPECIFICATION Spec
PROPERTY KeepsALink
SYMMETRY DirectLinks
