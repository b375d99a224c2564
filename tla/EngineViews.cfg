CONSTANTS
  None = None
  Thread = {t1, t2}
  Handle = {h1, h2}
  Option <- Options
  Request <- FewRequests
  Padded <- MCPadded
  Backend = {"sycl", "cpu"}
  DefaultFlash = FALSE
  ViewTaking = {"sycl"}
  MaxCalls = 4
SPECIFICATION Spec
INVARIANTS ViewsOnlyWhereTaken
CHECK_DEADLOCK FALSE
