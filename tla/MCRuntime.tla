----------------------------- MODULE MCRuntime ------------------------------
(***************************************************************************)
(* The runtime, part by part: the modules that keep accounts, elect and    *)
(* vote, and the executive that strings calls together into blocks.  No    *)
(* two of them share state but for the accounts, which each has with its   *)
(* own amounts, so the parts are explored one at a time.                   *)
(***************************************************************************)
EXTENDS Integers, TLC

CONSTANTS a1, a2, a3, k1, k2, l1, l2, word, c1, c2, c3, reform, bad, cancel,
          Empty, NoChange, Zero, None, Nobody, Panic

CONSTANTS TransactionFee, ReclaimRebate, ENUM_SET_SIZE, RECLAIM_INDEX_MODULUS,
          RECLAIM_INDEX_MAGIC, Quantization

(* part; the variables of Contracts and of Staking; and those of the part  *)
(* that is explored.                                                       *)
VARIABLES part, acct, drained, steps, staked, changes, st, hist, calls

(* Three contracts: one that copies and writes an entry, one that calls    *)
(* and creates it, and one that traps after a transfer.                    *)
MCContract(c) ==
  [declares_memory |-> FALSE, valid |-> TRUE,
   memory |-> IF c = c1 THEN {[initial |-> 1, maximum |-> 2]} ELSE {},
   body |->
     CASE c = c1 -> <<[op |-> "copy", gas |-> 1, from |-> l1, key |-> l2],
                      [op |-> "set", gas |-> 1, key |-> l1, value |-> word]>>
       [] c = c2 -> <<[op |-> "set", gas |-> 1, key |-> l2, value |-> word],
                      [op |-> "transfer", gas |-> 1, to |-> k1, value |-> 2],
                      [op |-> "create", gas |-> 0, code |-> c1, value |-> 2],
                      [op |-> "set", gas |-> 1, key |-> l1, value |-> Empty]>>
       [] c = c3 -> <<[op |-> "transfer", gas |-> 1, to |-> k1, value |-> 1], [op |-> "trap", gas |-> 1]>>]
MCAddress(c, origin) == IF c = c1 THEN k1 ELSE k2

MCOwners == {a1, a2, k1, k2}
MCEntries == {l1, l2}
MCCode == {c1, c2, c3}
MCOrder == <<a1, a2, k1, k2>>
MCFirst == <<a1, a2>>
MCLedgerBalances == a1 :> 7 @@ a2 :> 4
MCAmounts == {2, 3}

Ledger == INSTANCE Contracts WITH
  Accounts <- MCOwners, Modulus <- 16, ExistentialDeposit <- 2, Keys <- MCEntries,
  Code <- MCCode, Contract <- MCContract, Address <- MCAddress,
  ContractFee <- 1, CreationFee <- 1, TransferFee <- 0, GasLimit <- 3, MaxMemoryPages <- 2,
  BlockNumber <- 1, Order <- MCOrder, Genesis <- MCFirst,
  Balance <- MCLedgerBalances, Amounts <- MCAmounts, MaxSteps <- 4

MCTwo == {a1, a2}
MCThree == {a1, a2, a3}
MCIds == <<a1, a2, a3>>
MCNoKeys == {}
MCSet1 == {1}
MCSet2 == {2}
MCStakes == a1 :> 6 @@ a2 :> 4 @@ a3 :> 5
MCIntentions == <<a1>>
MCLengths == {1, 2}
MCDelays == {2, 5}

Stakes == INSTANCE Staking WITH
  s <- staked, Accounts <- MCThree, Modulus <- 64, ExistentialDeposit <- 2, Keys <- MCNoKeys,
  GenesisBalances <- MCStakes, GenesisIntentions <- MCIntentions,
  BondingDuration <- 1, SessionReward <- 4, EarlyEraSlash <- 4, BlockPeriod <- 2,
  BrokenPercentLate <- 50, Lengths <- MCLengths, Counts <- MCSet2, Delays <- MCDelays,
  MaxBlocks <- 4, MaxChanges <- 3

MCCouncilBalances == a1 :> 12 @@ a2 :> 14 @@ a3 :> 9
MCRunning == {a2, a3}
MCApprovals == {<<TRUE>>, <<FALSE, TRUE>>}

Seats == INSTANCE Council WITH
  s <- st, meant <- hist, Accounts <- MCThree, Modulus <- 64, ExistentialDeposit <- 2, Keys <- MCNoKeys,
  GenesisBalances <- MCCouncilBalances, GenesisIds <- MCIds,
  Voting <- MCTwo, Running <- MCRunning, CandidacyBond <- 3, VotingBond <- 2,
  PresentSlashPerVoter <- 1, CarryCount <- 1, InactiveGracePeriod <- 1, VotingPeriod <- 2,
  IndexModulus <- 64, PresentationDuration <- 1, TermDuration <- 3, DesiredSeats <- 2,
  Approvals <- MCApprovals, Seats <- MCSet1, Durations <- MCSet2,
  MaxBlock <- 6, MaxSlots <- 2, MaxCalls <- 6

MCKind(x) == IF x = bad THEN "fails" ELSE IF x = cancel THEN "cancel" ELSE "start"
MCSubject(x) == IF x = reform THEN bad ELSE 0
Sits(a) == [who |-> a, expiry |-> 9]
MCProposals == {reform, bad, cancel}
MCCouncils == {<<Sits(a1), Sits(a2)>>, <<Sits(a2)>>}

Votes == INSTANCE Democracy WITH
  s <- st, stalled <- hist, Accounts <- MCTwo, Modulus <- 64, ExistentialDeposit <- 1, Keys <- MCNoKeys,
  GenesisBalances <- MCLedgerBalances, GenesisIds <- MCFirst,
  Proposals <- MCProposals, Kind <- MCKind, Subject <- MCSubject, Councils <- MCCouncils,
  LaunchPeriod <- 2, VotingPeriod <- 2, MinimumDeposit <- 1, TotalStake <- 36,
  CooloffPeriod <- 2, MotionPeriod <- 1, Cooloffs <- MCSet1, Periods <- MCSet2, Deposits <- MCSet2,
  MaxBlock <- 5, MaxCalls <- 4

MCOne == {a1}
MCMoments == {2, 4}
MCPaid == {3}

Blocks == INSTANCE Executive WITH
  x <- st, Accounts <- MCOne, Funds <- 4, Fee <- 1, Period <- 2, Amounts <- MCPaid, Moments <- MCMoments,
  MaxHeight <- 2, MaxPushes <- 4

ledger == <<acct, drained, steps>>
staking == <<staked, changes>>
rest == <<hist, calls>>
vars == <<part, ledger, staking, st, rest>>

NoLedger == acct = None /\ drained = {} /\ steps = 0
NoStaking == staked = None /\ changes = 0
NoRest == hist = FALSE /\ calls = 0

Init ==
  /\ part \in {"ledger", "staking", "council", "votes", "blocks"}
  /\ IF part = "ledger" THEN Ledger!Init ELSE NoLedger
  /\ IF part = "staking" THEN Stakes!Init ELSE NoStaking
  /\ \/ part \in {"ledger", "staking"} /\ st = None /\ NoRest
     \/ part = "council" /\ Seats!Init
     \/ part = "votes" /\ Votes!Init
     \/ part = "blocks" /\ Blocks!Init /\ NoRest

Next ==
  \/ part = "ledger" /\ Ledger!Next /\ UNCHANGED <<part, staking, st, rest>>
  \/ part = "staking" /\ Stakes!Next /\ UNCHANGED <<part, ledger, st, rest>>
  \/ part = "council" /\ Seats!Next /\ UNCHANGED <<part, ledger, staking>>
  \/ part = "votes" /\ Votes!Next /\ UNCHANGED <<part, ledger, staking>>
  \/ part = "blocks" /\ Blocks!Next /\ UNCHANGED <<part, ledger, staking, rest>>

Spec == Init /\ [][Next]_vars

(* The properties of the parts. *)
LedgerSound == Ledger!LedgerSound
OverlaysAreCopies == part = "ledger" => Ledger!OverlaysAreCopies
StakingSound == Stakes!StakingSound
CouncilSound == part = "council" => Seats!CouncilSound
MotionsSound == part = "votes" => Votes!MotionsSound
BlocksSound == part = "blocks" => Blocks!BlocksSound
=============================================================================
