SPECIFICATION Spec
CONSTANTS
  a1 = a1
  a2 = a2
  a3 = a3
  k1 = k1
  k2 = k2
  l1 = l1
  l2 = l2
  word = word
  c1 = c1
  c2 = c2
  c3 = c3
  reform = reform
  bad = bad
  cancel = cancel
  Empty = Empty
  NoChange = NoChange
  Zero = Zero
  None = None
  Nobody = Nobody
  Panic = Panic
  TransactionFee = 1
  ReclaimRebate = 1
  ENUM_SET_SIZE = 2
  RECLAIM_INDEX_MODULUS = 2
  RECLAIM_INDEX_MAGIC = 1
  Quantization = 2
INVARIANTS
  OverlaysAreCopies
  
  MotionsSound
  BlocksSound
PROPERTIES
  LedgerSound
  StakingSound
CHECK_DEADLOCK FALSE
