SPECIFICATION FairSpec
CONSTANTS
  Ann = Ann
  Bob = Bob
  Nobody = Nobody
  Contacts = {Ann, Bob}
  MaxChats = 2
  MaxTexts = 2
  MaxRead = 2
  MaxLosses = 1
INVARIANTS
  TypeOK
  PassportsSuffice
  CallsTheInvited
  HeardAsWritten
PROPERTIES
  LeaveIsHeard
\* Every chat may have ended, and the client may have crashed.
CHECK_DEADLOCK FALSE
