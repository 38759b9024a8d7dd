SPECIFICATION Spec
CONSTANTS
  b1 = b1
  b2 = b2
  b3 = b3
  b4 = b4
  g = g
  k1 = k1
  k2 = k2
  None = None
  Hashes = {b1, b2, b3, b4}
  Genesis = g
  Keys = {k1, k2}
  Modes <- WindowModes
  MaxNumber = 3
  MaxChildren = 2
  RestartForked = TRUE
  MaxPinned = 0
SYMMETRY Symmetry
INVARIANT
  RebuiltOnStartup
CHECK_DEADLOCK FALSE
