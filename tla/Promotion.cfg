CONSTANTS
  a = a
  b = b
  r1 = r1
  d1 = d1
  d2 = d2
  x = x
  y = y
  End = {a}
  Link = {r1, d1}
  RelayedLink = {r1}
  Address = {x}
  WarmupTimeout = 1
  HandoffGrace = 2
  DedupWindow = 1
  RetryInterval = 1
  MediumRetryInterval = 2
  SlowRetryInterval = 3
  MediumRetryFailures = 1
  SlowRetryFailures = 2
  MaxFailures = 3
  Leavers = {}
  Delay = 1
  MaxLearns = 2
  MaxBreaks = 1
SPECIFICATION FairSpec
INVARIANT TypeOK
INVARIANT StateFitsRoutes
INVARIANT AttemptsAreDials
INVARIANT AttemptsAreBounded
PROPERTY PromotionSettles
PROPERTY HandoffsEnd
