SPECIFICATION Spec
CONSTANTS
  v1 = v1
  v2 = v2
  v3 = v3
  m1 = m1
  m2 = m2
  honest = honest
  false = false
  silent = silent
  r1 = r1
  r2 = r2
  p = p
  q = q
  None = None
  Absent = Absent
  Validators = {v1, v2, v3}
  ValidatorLinks <- MCLinks
  Nodes = {v1, v2, v3}
  Links <- MCLinks
  Setups <- MCRoles
  Extrinsics = {xt}
  MaxMishaps = 1
  Messages = {m1, m2}
  Origin <- MCOrigin
  ParentOf <- MCParentOf
  MaxHeight = 1
  Listeners = {v3}
  MaxLosses = 1
  Servers = {honest, false, silent}
  Honest = {honest}
  Silent = {silent}
  Callers = {r1, r2}
  MaxFailures = 3
  MAX_BLOCKS_TO_REQUEST = 2
  Peers = {p, q}
  Branch = 1
  MaxImports = 1
  MaxAuthored = 2
  MaxDrops = 1
INVARIANTS
  
  CallsKept
  DownloadsSound
  KnowledgeTrue
PROPERTY
  AllArrives
CHECK_DEADLOCK FALSE
