SPECIFICATION FairSpec
CONSTANTS
  Ann = Ann
  Bob = Bob
  Friends = Friends
  NoGroup = NoGroup
  Contacts = {Ann, Bob}
  Groups = {Friends}
  GroupList <- OneGroup
  ContactList <- TwoContacts
  Cuttable <- Waiting
  Pushes = {"NLN", "FLN", "UBX", "MSG", "OUT", "NOT"}
  MaxEvents = 1
  MaxCalls = 1
  Calls <- AllCalls
  Moving = {Ann}
INVARIANTS
  CommandsInOrder
  NothingWaits
  LoginScript
  ConnectedMeansRoster
PROPERTIES
  LogsIn
\* The server may close the connection, and then nothing follows.
CHECK_DEADLOCK FALSE
