SPECIFICATION MCSpec
CONSTANTS
  b1 = b1
  b2 = b2
  b3 = b3
  g = g
  k1 = k1
  k2 = k2
  t1 = t1
  t2 = t2
  h1 = h1
  h2 = h2
  h3 = h3
  None = None
  Hashes = {b1, b2, b3}
  Genesis = g
  Keys = {k1, k2}
  Threads = {t1, t2}
  Modes <- AllModes
  Windows = {0, 1, 2}
  MaxNumber = 3
  Forks = FALSE
  MayRestart = TRUE
  Absent = Absent
  GenesisHeader = g
  Headers = {h1, h2, h3}
  MaxHeight = 2
  Lineage <- MCChain
  State <- MCState
  FullNodes = {s1, s2}
  Faithful = {s1}
  MaxCalls = 1
  MaxPrunes = 1
SYMMETRY Symmetry
INVARIANTS
  DiskConsistent
  BackendsSound
  AnswersTrue
  
  
  SandboxesAgree
  
CHECK_DEADLOCK FALSE
