SPECIFICATION FairSpec
CONSTANTS
  a1 = a1
  a2 = a2
  a3 = a3
  f1 = f1
  f2 = f2
  f3 = f3
  None = None
  Authorities = {a1, a2}
  Honest = {a1, a2}
  MaxFaulty = 0
  Digests = {d1}
  Rounds = {0, 1}
  Proposer <- MCTakingTurns
  FaultyMessages = {}
  Verdicts = {TRUE}
  Pending = {}
  TimeoutRounds = {0, 1}
PROPERTY
  AgreementCompletes
CHECK_DEADLOCK FALSE
