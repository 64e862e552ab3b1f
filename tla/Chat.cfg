CONSTANTS
  Peer = {1, 2}
  MaxMessages = 2
  Skews <- SomeSkews
  FirstPeers = {1}
  Leavers = {2}
  Announcers = {1, 2}
  MaxMembers = 2
  MaxSent = 3
  MaxLost = 1
SPECIFICATION FairSpec
INVARIANT TypeOK NewestAreKept CausalOrder
PROPERTY AnswersGoLast HistoriesLevelOut
CHECK_DEADLOCK FALSE
