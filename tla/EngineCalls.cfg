CONSTANTS
  None = None
  Thread = {t1, t2}
  Handle = {h1, h2}
  Option <- Options
  Request <- Requests
  Padded <- MCPadded
  Backend = {"sycl", "cpu"}
  DefaultFlash = FALSE
  ViewTaking = {"sycl"}
  MaxCalls = 3
SPECIFICATION FairSpec
INVARIANTS TypeOK AnswersItsRequest StatsOfOneCall
PROPERTIES MutexIsReleased
CHECK_DEADLOCK FALSE
