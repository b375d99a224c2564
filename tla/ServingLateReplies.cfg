SPECIFICATION Spec
CONSTANTS
  None = None
  Client = {c1}
  Peer = {c1}
  Steps = 2
  FixedNoise = TRUE
  MaxStarts = 2
  MaxRequests = 3
  MaxEpisodes = 1
INVARIANTS
  TypeOK
PROPERTIES
  ImplementsPolicy
CHECK_DEADLOCK FALSE
