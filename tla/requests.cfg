\* Every method with every string and every choice of fields.
CONSTANTS
  Hole = Hole
  Strings <- MCStrings
  Numbers <- MCNumbers
SPECIFICATION Spec
INVARIANTS
  RouteIsOwn
  KeyOnlyInHeader
