SPECIFICATION Spec
CONSTANTS
  a1 = a1
  a2 = a2
  a3 = a3
  f1 = f1
  f2 = f2
  f3 = f3
  None = None
  Authorities = {a1, f1, f2, f3}
  Honest = {a1}
  MaxFaulty = 1
  Digests = {d1, d2}
  Rounds = {0, 1}
  Proposer <- MCFaultyFirst
  FaultyMessages <- MCFaultyMessages
  Verdicts = {TRUE, FALSE}
  Pending = {None}
  TimeoutRounds = {0, 1}
SYMMETRY Symmetry

  
PROPERTY
  ImplementsProtocol
CHECK_DEADLOCK FALSE
