\* One list call, answered with a 3xx that is not followed.
CONSTANTS
  c1 = c1
  c2 = c2
  c3 = c3
  k1 = k1
  Calls <- OnlyFirst
  Keys <- OneKey
  NoKey = NoKey
  EmptyKey = EmptyKey
  Requests <- ListRequests
  Responses <- Unfollowed
  Deadlined <- OnlyFirst
  MaxConns = 1
  MaxHops = 1
  None = None
  Hole = Hole
  DurationBits = 8
  TicksPerSecond = 4
SPECIFICATION Spec
INVARIANT Non2xxIsError
