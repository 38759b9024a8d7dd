SPECIFICATION Spec
CONSTANTS
  None = None
  Authorities = {"me", "a1", "a2"}
  Local = "me"
  Groups = {"p1", "p2"}
  Candidates = {1, 2}
  GroupOf <- TwoChains
  Members <- Validators
  Guarantors <- Holders
  NeededValidity <- OneEach
  NeededAvailability <- OneEach
  Voices <- OfOthers
  Sources = {"a1"}
  Targets <- Peers
  MaxHeard = 4
  MaxTrackers = 1
INVARIANTS
  IncludableTracked
  StatementsTrue
  RelayedAndChecked
CHECK_DEADLOCK FALSE
