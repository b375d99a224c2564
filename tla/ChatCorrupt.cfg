SPECIFICATION Spec
CONSTANTS
  Client = {c1}
  Kind = {"chat"}
  Piece <- MCOneByte
  Special = {}
  AnyBytes = TRUE
  Budget = {3}
  MaxMessages = 3
  Hwm = 4
  MaxTurns = 1
  MaxFailures = 1
  None = None
INVARIANT NoReplyIsCorrupt
CHECK_DEADLOCK FALSE
