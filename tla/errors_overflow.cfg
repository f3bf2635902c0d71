\* The same responses.
CONSTANTS
  DurationBits = 8
  TicksPerSecond = 4
  Statuses <- MCStatuses
  Headers <- MCHeaders
  Errors <- MCErrors
SPECIFICATION Spec
INVARIANTS
  WaitIsCorrect
