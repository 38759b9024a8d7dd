--------------------------- MODULE MCBftProtocol ---------------------------
(***************************************************************************)
(* The agreement on a block and what goes into it, part by part: the lock  *)
(* protocol, the signatures on its messages, when an authority votes for a *)
(* proposal, the pool whose extrinsics are proposed, and the collation of  *)
(* candidates.  Of each other they use a digest, a threshold, a list or an *)
(* outcome, which each part is given every value of, so the parts are      *)
(* explored one at a time.                                                 *)
(***************************************************************************)
EXTENDS BftProtocol, TLC

CONSTANTS a1, o1, p1, p2

VARIABLES part, other, e

MCKeys == Authorities \cup {o1}
MCParents == {p1, p2}
MCRounds == {0}

Signing == INSTANCE Signatures WITH
  g <- other, Keys <- MCKeys, Local <- a1, Parents <- MCParents, Parent <- p1, Hashes <- Digests,
  Rounds <- MCRounds, MaxSteps <- 4

MCAccounts == {a1}

Pool == INSTANCE TransactionPool WITH
  m <- other, Accounts <- MCAccounts, Local <- a1, MaxIndex <- 2, Limit <- 3, MaxCalls <- 5

(* Egress that is empty, of several blocks and of several messages; code   *)
(* with little and much memory.                                            *)
Egress(from_2, from_3) == (2 :> from_2) @@ (3 :> from_3)
MCQueues == {Egress(<<>>, <<>>), Egress(<<<<1>>, <<2, 3>>>>, <<<<4>>>>),
             Egress(<<<<1>>>>, <<<<2>>, <<>>, <<3>>>>), Egress(<<<<1>>, <<2>>>>, <<<<3>>, <<0>>>>)}
Module(initial, max, odd) == [initial |-> initial, max |-> max, odd |-> odd]
MCModules == {Module(1, None, FALSE), Module(1, 4, FALSE), Module(2, 5, FALSE),
              Module(1, 9, FALSE), Module(1, None, TRUE), Module(3, 3, FALSE)}

Collating == INSTANCE Collation WITH
  k <- other, Local <- 1, Queues <- MCQueues, Modules <- MCModules, PAGE <- 4, MAX_MEM <- 8,
  WasmPages <- 12, MaxProposals <- 2, MaxFetches <- 4

MCAuthorities == {0, 1}
MCSeeds == {3}
MCSkews == {(0 :> 0) @@ (1 :> 0), (0 :> 0) @@ (1 :> 3)}

Voting == INSTANCE Evaluation WITH
  Authorities <- MCAuthorities, Candidates <- Digests, Seeds <- MCSeeds, Skews <- MCSkews,
  AllowEmpty <- 5, MinDelay <- 2, Drift <- 1, SECOND <- 2, MILLI <- 2, MaxSetup <- 1,
  MaxProposal <- 7, MaxTime <- 12, MaxRound <- 0, MaxFalls <- 1

MCInit ==
  /\ part \in {"protocol", "signatures", "pool", "collation", "evaluation"}
  /\ Init
  /\ \/ part = "signatures" /\ Signing!Init
     \/ part = "pool" /\ Pool!Init
     \/ part = "collation" /\ Collating!Init
     \/ part \in {"protocol", "evaluation"} /\ other = None
  /\ IF part = "evaluation" THEN Voting!Init ELSE e = None

MCNext ==
  \/ part = "protocol" /\ Next /\ UNCHANGED <<part, other, e>>
  \/ part = "signatures" /\ Signing!Next /\ UNCHANGED <<part, vars, e>>
  \/ part = "pool" /\ Pool!Next /\ UNCHANGED <<part, vars, e>>
  \/ part = "collation" /\ Collating!Next /\ UNCHANGED <<part, vars, e>>
  \/ part = "evaluation" /\ Voting!Next /\ UNCHANGED <<part, vars, other>>

MCSpec == MCInit /\ [][MCNext]_<<part, other, e, vars>>

(* The candidates are alike, and so are the honest authorities but for the *)
(* one whose messages are followed.                                        *)
Symmetry == Permutations(Digests) \cup Permutations(Honest \ {a1})

(* The properties of the parts. *)
SignaturesSound == part = "signatures" => Signing!SignaturesSound
PendingExact == part = "pool" => Pool!PendingExact
CollationSound == part = "collation" => Collating!CollationSound
VotesOnTime == Voting!VotesOnTime
=============================================================================
