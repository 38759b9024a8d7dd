SPECIFICATION Spec
CONSTANTS
  small = small
  medium = medium
  wide = wide
  huge = huge
  wrong = wrong
  Nil = Nil
  Relay = Relay
  Initials = {0, 1, 2, 3}
  AllowEmpty = {0, 6, 9, 11}
  MinDelay = 2
  MILLI = 3
  MaxTime = 12
  Txs = {small, medium, wide, huge, wrong}
  Size <- MCSize
  Invalid = {wrong}
  MAX_TRANSACTIONS_SIZE = 4
  InherentSize = 1
  Ids = {1, 2, 3}
  MaxBlocks = 3
  MaxOthers = 2
  ValidatorCounts = {1, 2, 3, 4}
  MaxBlock = 4
  MaxAgreements = 5
  Outside = {2}
  MaxErrors = 2
INVARIANTS
  HeadsAgreed
  GroupsCanDecide
  OneAtATime
  
PROPERTIES
  ReadyOnTime
  
CHECK_DEADLOCK FALSE
