\* Two goroutines, two clients, one made with every short list of options, two
\* mocks.
CONSTANTS
  g1 = g1
  g2 = g2
  tenant = tenant
  other = other
  m1 = m1
  m2 = m2
  aClient = aClient
  aHost = aHost
  aLogger = aLogger
  aLeveled = aLeveled
  Goroutines <- MCGoroutines
  Mocks <- MCMocks
  Clients <- MCClients
  Keys <- MCKeys
  OptionsFor <- MCOptionsFor
  Routes <- MCRoutes
  MaxUses = 2
  ErrInvalidKey = ErrInvalidKey
  Panic = Panic
  Void = Void
  None = None
SPECIFICATION FairSpec
INVARIANTS
  TypeOK
  ClientInv
  CallsReachOwnBackend
PROPERTIES
  OptionsAsDocumented
  ImplementsRecorder
  UsesEnd
