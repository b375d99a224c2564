SPECIFICATION CalmSpec
CONSTANTS
  None = None
  Client = {c1}
  Peer = {c1, other}
  Steps = 1
  FixedNoise = TRUE
  MaxStarts = 2
  MaxRequests = 2
  MaxEpisodes = 0
INVARIANTS
  StopsOnlyWhenSignalled
PROPERTIES
  KeepsServing
  SignalEndsIt
  CallsAreAnswered
CHECK_DEADLOCK FALSE
