SPECIFICATION Spec
CONSTANTS
  Clients = {c1, c2}
  Messages = {m1, m2, m3}
  CacheSize = 1
  Limit = 2
  MaxPipe = 3
SYMMETRY MCSymmetry
\* Every message is sent in the end and the ids are used up.
CHECK_DEADLOCK FALSE
INVARIANTS
  EachMessageOnce
  CacheIsFeed
  FeedFollowsHistory
  NothingMissed
