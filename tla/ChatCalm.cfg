SPECIFICATION FairSpec
CONSTANTS
  Client = {c1, c2}
  Kind = {"chat", "bad"}
  Piece <- MCOneByte
  Special = {}
  AnyBytes = TRUE
  Budget = {1}
  MaxMessages = 1
  Hwm = 3
  MaxTurns = 2
  MaxFailures = 0
  None = None
INVARIANT OwnReplies
PROPERTY TurnsAreAnswered SignalEndsIt
CHECK_DEADLOCK FALSE
