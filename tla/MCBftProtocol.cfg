SPECIFICATION MCSpec
CONSTANTS
  a1 = a1
  a2 = a2
  a3 = a3
  f1 = f1
  o1 = o1
  p1 = p1
  p2 = p2
  d1 = d1
  d2 = d2
  None = None
  Authorities = {a1, a2, a3, f1}
  Honest = {a1, a2, a3}
  MaxFaulty = 1
  Digests = {d1, d2}
  Rounds = {0, 1}
SYMMETRY Symmetry
INVARIANTS
  Agreement
  PreparedWasApproved
  SignaturesSound
  PendingExact
  
PROPERTIES
  LockNeverRegresses
  VotesOnTime
CHECK_DEADLOCK FALSE
