\* Two calls that toggle a subscription, with and without the same key, and a
\* server that confirms or redirects.
CONSTANTS
  c1 = c1
  c2 = c2
  c3 = c3
  k1 = k1
  Calls <- Two
  Keys <- OneKey
  NoKey = NoKey
  EmptyKey = EmptyKey
  Requests <- ToggleRequests
  Responses <- ConfirmOrRedirect
  Deadlined <- Two
  MaxConns = 1
  MaxHops = 1
  None = None
  Hole = Hole
  DurationBits = 8
  TicksPerSecond = 4
SYMMETRY Symmetry2
SPECIFICATION Spec
INVARIANTS
  AtMostOnce
  BackendInv
  KeylessSentOnce
PROPERTIES
  ImplementsContract
