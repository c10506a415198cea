SPECIFICATION Spec
CONSTANTS
  Hosts = {a, b}
  LocalHost = a
  NoHost = NoHost
  Instances = {i1, i2}
  Operators = {k1, k2}
  Prefixes = {25, 26, 28}
  Cell = 2
SYMMETRY Symmetry
INVARIANTS
  TypeOK
  RowsAreInOwnedSlots
PROPERTIES
  NobodyLosesTheirAddress
  RenumberingKeepsOwners
