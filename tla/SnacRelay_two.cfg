CONSTANTS
  Sender <- MCSender
  Reader <- MCReader
  Number <- MCNumber
  AwayMessage <- MCAway
  Password <- MCPassword
  Caps <- MCCaps
  Statuses <- MCStatuses
  Hash <- MCHash
  Versions <- MCVersions
  MaxSteps = 3
SPECIFICATION Spec
INVARIANTS SNACsAreReadAsMeant RequestsAreRead
CHECK_DEADLOCK FALSE
