\* Every failed response, with an 8-bit Duration of 4 ticks a second.
CONSTANTS
  DurationBits = 8
  TicksPerSecond = 4
  Statuses <- MCStatuses
  Headers <- MCHeaders
  Errors <- MCErrors
SPECIFICATION Spec
INVARIANTS
  TypeOK
  WaitOnlyWhenLimited
  WaitIsExact
  FieldsComplete
  FixtureErrorsMatch
  FixtureNilAgrees
