SPECIFICATION Spec
CONSTANTS
  PrefixCount = 2
  UserCount = 2
  ItemCount = 1
  PageLimit = 1
  MatchLimit = 1
  MaxScan = 2
  CascadeLimit = 4
  MaxSlots = 2
  MaxWrites = 1
  InitStores <- MCStores
  OtherValues <- MCOther
  NoValue = NoValue
  All = All
  Idle = Idle
  Pending = Pending
  Failed = Failed
  Unknown = Unknown
  NoKey = NoKey
  NoList = NoList
  NoMeta = NoMeta
  Sessions <- MCSessions
  Ranges <- MCRanges
\* A session ends when its writes and requests are used up.
CHECK_DEADLOCK FALSE
INVARIANT SpinnersSettle
INVARIANT PagedComplete
INVARIANT BannerHonest
INVARIANT SearchCovers
