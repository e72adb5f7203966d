SPECIFICATION FairSpec
CONSTANTS
  Uin = {"u1", "u2"}
  Name = {"u1", "u2", "", "friends"}
  RootName = ""
  Stores <- SeparateIds
  NoItem = NoItem
  MaxPending = 1
  MaxObjects = 6
  MaxLosses = 1
INVARIANTS
  TypeOK
  Agreement
  ServerItemsAreKnown
  AckIsForPendingEdit
  UsedIdsAreReserved
  NoNullDeref
PROPERTIES
  FollowsServer
  EditsSettle
\* The application may stop asking.
CHECK_DEADLOCK FALSE

