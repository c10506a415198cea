SPECIFICATION Spec
CONSTANTS
  Versions = {0, 1}
  Reverts = TRUE
  MaxEdits = 2
  MaxReboots = 0
  MaxFaults = 1
  Nothing = Nothing
PROPERTIES
  Converges
