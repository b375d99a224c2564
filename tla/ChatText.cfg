SPECIFICATION Spec
CONSTANTS
  Client = {c1}
  Kind = {"chat", "bad", "oversized"}
  Piece <- MCText
  Special <- MCSpecial
  AnyBytes = FALSE
  Budget = {1, 3}
  MaxMessages = 3
  Hwm = 2
  MaxTurns = 2
  MaxFailures = 1
  None = None
INVARIANTS TypeOK MessagesAreText StreamedIsText TranscriptIsSaid
CHECK_DEADLOCK FALSE
