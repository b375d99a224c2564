CONSTANTS
  None = None
  Thread = {t1, t2}
  Handle = {h1, h2}
  Option <- FewOptions
  Request <- PredictOrEncode
  Padded <- MCPadded
  Backend = {"sycl", "cpu"}
  DefaultFlash = FALSE
  ViewTaking = {"sycl"}
  MaxCalls = 4
SPECIFICATION Spec
INVARIANTS StatsOfPredict
CHECK_DEADLOCK FALSE
