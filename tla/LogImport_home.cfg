CONSTANTS
  Accounts = {Ann, Bob, AnnSmith}
  Ann = Ann
  Bob = Bob
  AnnSmith = AnnSmith
  CutTo <- MCCutTo
  ContactLists <- MCContactLists
  AccountLists <- MCAccountLists
  Logs <- MCLogs
SPECIFICATION Spec
INVARIANTS ImportIsFaithful
CHECK_DEADLOCK FALSE
