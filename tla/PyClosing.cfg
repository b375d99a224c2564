CONSTANTS
  None = None
  Thread = {t1, t2, t3}
  Handle = {h1}
  Option <- OneOption
  Request <- TwoRequests
  Padded <- MCPadded
  Backend = {"cpu"}
  DefaultFlash = FALSE
  ViewTaking = {}
  MaxCalls = 4
SPECIFICATION PyFairSpec
INVARIANTS NoCallOnFreed
PROPERTIES KeepsTheContract ModelLockIsReleased
CHECK_DEADLOCK FALSE
