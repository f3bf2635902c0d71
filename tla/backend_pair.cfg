\* Two calls, every kind of request and of response, one key.
CONSTANTS
  c1 = c1
  c2 = c2
  c3 = c3
  k1 = k1
  Calls <- Two
  Keys <- OneKey
  NoKey = NoKey
  EmptyKey = EmptyKey
  Requests <- AllRequests
  Responses <- AllResponses
  Deadlined <- Two
  MaxConns = 2
  MaxHops = 0
  None = None
  Hole = Hole
  DurationBits = 8
  TicksPerSecond = 4
SYMMETRY Symmetry2
SPECIFICATION Spec
INVARIANTS
  TypeOK
  BackendInv
  NilMeansCharged
  NoConnLeak
PROPERTIES
  ResultStable
