SPECIFICATION FairSpec
CONSTANTS
  Ann = Ann
  Bob = Bob
  Friends = Friends
  NoGroup = NoGroup
  Contacts = {Ann, Bob}
  Groups = {Friends}
  GroupList <- OneGroup
  ContactList <- TwoContacts
  Cuttable = {"MSG"}
  Pushes = {"MSG"}
  MaxEvents = 0
  MaxCalls = 0
  Calls = {}
  Moving = {Ann}
PROPERTIES
  ParseEnds
\* The server may close the connection, and then nothing follows.
CHECK_DEADLOCK FALSE
