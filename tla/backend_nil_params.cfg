\* One list call, with every kind of params.
CONSTANTS
  c1 = c1
  c2 = c2
  c3 = c3
  k1 = k1
  Calls <- OnlyFirst
  Keys <- OneKey
  NoKey = NoKey
  EmptyKey = EmptyKey
  Requests <- ListRequests
  Responses <- FewResponses
  Deadlined <- OnlyFirst
  MaxConns = 1
  MaxHops = 1
  None = None
  Hole = Hole
  DurationBits = 8
  TicksPerSecond = 4
SPECIFICATION Spec
INVARIANT NilParamsAreAllowed
