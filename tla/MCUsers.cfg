SPECIFICATION Spec
CONSTANTS
  a1 = a1
  a2 = a2
  a3 = a3
  Rows = {a1, a2, a3}
  Rank <- MCRank
  NoNumber = NoNumber
  DefaultLimit = 1
  MaxLimit = 2
  Requests = {r1, r2}
  Offered <- MCOffered
  NoUser = NoUser
  NoEntry = NoEntry
  ProfileTime = 2
  ListTime = 1
  Changing = {a2}
  MaxTime = 2
  Concurrency = 2
SYMMETRY Symmetry
INVARIANTS
  TypeOK
  CacheLagIsBounded
  WalkSeesAll
  CreationsAreCounted
