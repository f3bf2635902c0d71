\* The same calls.
CONSTANTS
  Hole = Hole
  Strings <- MCStrings
  Numbers <- MCNumbers
SPECIFICATION Spec
INVARIANTS
  FiltersReachQuery
