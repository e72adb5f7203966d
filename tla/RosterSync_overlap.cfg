SPECIFICATION Spec
CONSTANTS
  Uin = {"u1", "u2"}
  Name = {"u1", "u2", "", "friends"}
  RootName = ""
  Stores <- SeparateIds
  NoItem = NoItem
  MaxPending = 2
  MaxObjects = 5
  MaxLosses = 1
PROPERTIES
  AddedItemWasAcked
CHECK_DEADLOCK FALSE
