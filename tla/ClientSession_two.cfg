SPECIFICATION FairSpec
CONSTANTS
  Family = {"location", "buddy", "icbm", "bos", "lists"}
  SSI = "lists"
  MaxAttempts = 2
INVARIANTS
  TypeOK
  ReasonReported
  LoginVerdictIsRight
  BOSInfoIsCurrent
  ConnectionHasClient
PROPERTIES
  FirstConnectIsAnswered
\* The application may stop connecting.
CHECK_DEADLOCK FALSE
