SPECIFICATION MCSpec
CONSTANTS
  PrefixCount = 4
  UserCount = 4
  ItemCount = 2
  Beyond = Beyond
  Absent = Absent
  EmptyText = EmptyText
  NotBuilt = NotBuilt
  Nothing = Nothing
  NoHash = NoHash
  NoName = NoName
  NoRow = NoRow
  Blank = Blank
  Free = Free
  NoChain = NoChain
  Idle = Idle
  Pending = Pending
  Failed = Failed
  Unknown = Unknown
  alice = alice
  bob = bob
  FieldNames = {"a", "b"}
  FieldTexts <- MCFieldTexts
  EmptyField <- MCEmptyField
  MaxFields = 2
  Texts <- MCTexts
  Built <- MCBuilt
  MaxTokens = 2
  MaxTokenCalls = 2
  MaxCrashes = 1
  MaxOthers = 1
  UserRecords <- MCUsers
  UserPrefixes = {2, 3}
  Holds <- MCHolds
  MaxUserLoads = 2
  NamePrefixes = {1, 2, 3}
  Registered <- MCRegistered
  SamplePool <- MCSamples
  SampleRecords <- MCSampleRecords
  BatchSize = 2
  MaxNameLoads = 2
  Lists <- MCLists
  AllStatus = "all"
  PageSize <- MCPageSize
  TreeKeys <- MCTreeKeys
  Rids = {2}
  LoadRid = 1
  MaxLeafEntries = 4
  MaxInternalKeys = 3
  Loads <- MCLoads
  MaxOps = 3
  ChainKeys = {alice, bob}
  ChainValues <- MCValues
  Chunks <- MCChunks
  ChainSlots <- MCChainSlots
  MaxIOErrors = 1
  DataRecords = {"d1", "d2"}
  LogRecords = {"l"}
  MaxUpgradeFaults = 3
  LoginRequests = {"r1", "r2"}
  MaxAttempts = 2
  Window = 2
  MaxTime = 4
\* A dialog is closed for good, and the bounded parts come to an end.
CHECK_DEADLOCK FALSE
INVARIANT DialogsSettle
INVARIANT ComputedExact
INVARIANT NamesRight
INVARIANT PillsShowCounted
INVARIANT TokensBacked
INVARIANT PanelWhole
INVARIANT KeysFit
INVARIANT AnatomyAgrees
INVARIANT TreeFinds
INVARIANT TreeScans
INVARIANT ChainsExact
INVARIANT NothingDestroyed
INVARIANT FailuresBounded
PROPERTY CreateNeverOverwrites
