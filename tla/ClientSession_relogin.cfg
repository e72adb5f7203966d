SPECIFICATION Spec
CONSTANTS
  Family = {"location", "buddy", "icbm", "bos", "lists"}
  SSI = "lists"
  MaxAttempts = 2
PROPERTIES
  LoginFailureIsReported
CHECK_DEADLOCK FALSE
