\* One connection; one call without a deadline, two with; bodies that are held
\* or never end.
CONSTANTS
  c1 = c1
  c2 = c2
  c3 = c3
  k1 = k1
  Calls <- Three
  Keys <- OneKey
  NoKey = NoKey
  EmptyKey = EmptyKey
  Requests <- HoldingRequests
  Responses <- SlowResponses
  Deadlined <- ThreeButFirst
  MaxConns = 1
  MaxHops = 1
  None = None
  Hole = Hole
  DurationBits = 8
  TicksPerSecond = 4
SPECIFICATION FairSpec
PROPERTIES
  DeadlineReturns
  WaiterProceeds
