---------------------------- MODULE BftProtocol ----------------------------
(***************************************************************************)
(* What the BFT agreement of substrate/bft/src/generic promises, with the  *)
(* accumulators and the messages abstracted away: which votes an honest    *)
(* authority may cast, given its round and its lock, and when it may       *)
(* conclude.  Module Agreement, which has the accumulators and the polls   *)
(* of the code, implements this specification.                             *)
(*                                                                         *)
(* Messages are the two growing sets of votes cast.  An authority acts on  *)
(* a threshold of votes whenever one exists: every other authority may     *)
(* have been slow to deliver them, so nothing says when they arrive.  The  *)
(* votes of faulty authorities are always there, for every digest.         *)
(***************************************************************************)
EXTENDS Integers, FiniteSets

CONSTANTS Authorities,  \* all authorities
          Honest,       \* those that follow the protocol
          MaxFaulty,    \* Context's max_faulty
          Digests,      \* candidate digests
          Rounds,       \* bound: round numbers that are reached
          None

ASSUME AuthoritiesAssumption ==
  IsFiniteSet(Authorities) /\ Honest \subseteq Authorities

(* "Should be less than 1/3 of nodes, otherwise agreement may never be     *)
(* reached" (generic/mod.rs): no more than max_faulty are faulty.          *)
ASSUME FaultyAssumption ==
  /\ MaxFaulty \in Nat
  /\ Cardinality(Authorities \ Honest) <= MaxFaulty
  /\ 3 * MaxFaulty < Cardinality(Authorities)

ASSUME RoundsAssumption == Rounds \subseteq Nat /\ 0 \in Rounds

ASSUME NoneAssumption == None \notin Digests

VARIABLES round,     \* the current round of every honest authority
          locked,    \* its lock: round and digest of a prepare justification
          approved,  \* <<authority, digest>>: it evaluated the proposal as valid
          prepares,  \* <<authority, round, digest>>: prepare votes cast
          commits,   \* <<authority, round, digest>>: commit votes cast
          decided    \* the digest it concluded with, or None

vars == <<round, locked, approved, prepares, commits, decided>>

(* bft_threshold *)
Threshold == Cardinality(Authorities) - MaxFaulty

Faulty == Authorities \ Honest

Lock(r, d) == [round |-> r, digest |-> d]

Unlocked == Lock(-1, None)

(* A threshold of authorities, counting on every faulty one. *)
Suffices(voters) == Cardinality(voters \cup Faulty) >= Threshold

Voters(votes, r, d) == {n \in Honest : <<n, r, d>> \in votes}

PrepareJustified(r, d) == Suffices(Voters(prepares, r, d))

CommitJustified(r, d) == Suffices(Voters(commits, r, d))

-----------------------------------------------------------------------------
Init ==
  /\ round = [n \in Honest |-> 0]
  /\ locked = [n \in Honest |-> Unlocked]
  /\ approved = {}
  /\ prepares = {}
  /\ commits = {}
  /\ decided = [n \in Honest |-> None]

(* Mutants of Prepare: the lock is not looked at; nothing is evaluated. *)
PrepareAnything(n, d) ==
  /\ decided[n] = None
  /\ \A e \in Digests : <<n, round[n], e>> \notin prepares
  /\ approved' = approved \cup {<<n, d>>}
  /\ prepares' = prepares \cup {<<n, round[n], d>>}
  /\ UNCHANGED <<round, locked, commits, decided>>

PrepareUnseen(n, d) ==
  /\ decided[n] = None
  /\ \A e \in Digests : <<n, round[n], e>> \notin prepares
  /\ locked[n] = Unlocked \/ locked[n].digest = d
  /\ prepares' = prepares \cup {<<n, round[n], d>>}
  /\ UNCHANGED <<round, locked, approved, commits, decided>>

(* An unlocked authority prepares what it finds valid; a locked one only   *)
(* what it is locked to, whatever its validity.                            *)
Prepare(n, d) ==
  /\ decided[n] = None
  /\ \A e \in Digests : <<n, round[n], e>> \notin prepares
  /\ locked[n] = Unlocked \/ locked[n].digest = d
  /\ approved' = IF locked[n] = Unlocked THEN approved \cup {<<n, d>>}
                                         ELSE approved
  /\ prepares' = prepares \cup {<<n, round[n], d>>}
  /\ UNCHANGED <<round, locked, commits, decided>>

(* A mutant of Commit: it does not lock. *)
CommitUnlocked(n, d) ==
  /\ decided[n] = None
  /\ \A e \in Digests : <<n, round[n], e>> \notin commits
  /\ PrepareJustified(round[n], d)
  /\ commits' = commits \cup {<<n, round[n], d>>}
  /\ UNCHANGED <<round, locked, approved, prepares, decided>>

(* Committing locks the authority to the justification it commits to. *)
Commit(n, d) ==
  /\ decided[n] = None
  /\ \A e \in Digests : <<n, round[n], e>> \notin commits
  /\ PrepareJustified(round[n], d)
  /\ commits' = commits \cup {<<n, round[n], d>>}
  /\ locked' = [locked EXCEPT ![n] = Lock(round[n], d)]
  /\ UNCHANGED <<round, approved, prepares, decided>>

(* Leaving a round locks to a prepare justification witnessed in it. *)
AdvanceRound(n) ==
  /\ decided[n] = None
  /\ round[n] + 1 \in Rounds
  /\ round' = [round EXCEPT ![n] = round[n] + 1]
  /\ \/ UNCHANGED locked
     \/ \E d \in Digests :
          /\ PrepareJustified(round[n], d)
          /\ locked' = [locked EXCEPT ![n] = Lock(round[n], d)]
  /\ UNCHANGED <<approved, prepares, commits, decided>>

(* Mutants of ImportLockProof: the older lock wins; the authority goes on  *)
(* to the round after the proof's.                                         *)
ImportAnyLockProof(n, r, d) ==
  /\ decided[n] = None
  /\ PrepareJustified(r, d)
  /\ round' = [round EXCEPT ![n] = IF r > round[n] THEN r ELSE round[n]]
  /\ locked' = [locked EXCEPT ![n] = Lock(r, d)]
  /\ UNCHANGED <<approved, prepares, commits, decided>>

ImportLockProofPastRound(n, r, d) ==
  /\ decided[n] = None
  /\ PrepareJustified(r, d)
  /\ round' = [round EXCEPT ![n] = IF r >= round[n] THEN r + 1 ELSE round[n]]
  /\ UNCHANGED <<locked, approved, prepares, commits, decided>>

(* A lock proof of a later round moves the authority there.  It replaces   *)
(* an older lock only.                                                     *)
ImportLockProof(n, r, d) ==
  /\ decided[n] = None
  /\ PrepareJustified(r, d)
  /\ round' = [round EXCEPT ![n] = IF r > round[n] THEN r ELSE round[n]]
  /\ locked' = IF locked[n].round < r
               THEN [locked EXCEPT ![n] = Lock(r, d)]
               ELSE locked
  /\ UNCHANGED <<approved, prepares, commits, decided>>

Decide(n, d) ==
  /\ decided[n] = None
  /\ CommitJustified(round[n], d)
  /\ decided' = [decided EXCEPT ![n] = d]
  /\ UNCHANGED <<round, locked, approved, prepares, commits>>

Next ==
  \E n \in Honest :
    \/ \E d \in Digests : Prepare(n, d)
    \/ \E d \in Digests : Commit(n, d)
    \/ AdvanceRound(n)
    \/ \E r \in Rounds, d \in Digests : ImportLockProof(n, r, d)
    \/ \E d \in Digests : Decide(n, d)

Spec == Init /\ [][Next]_vars

-----------------------------------------------------------------------------
TypeOK ==
  /\ round \in [Honest -> Rounds]
  /\ locked \in [Honest -> [round : Rounds \cup {-1},
                            digest : Digests \cup {None}]]
  /\ approved \subseteq Honest \X Digests
  /\ prepares \subseteq Honest \X Rounds \X Digests
  /\ commits \subseteq Honest \X Rounds \X Digests
  /\ decided \in [Honest -> Digests \cup {None}]

(* Two honest authorities never conclude the agreement with different      *)
(* candidates, in whatever rounds they conclude.                           *)
Agreement ==
  \A m, n \in Honest :
    (decided[m] # None /\ decided[n] # None) => decided[m] = decided[n]

(* Once a threshold of commits exists for a digest, no later round ever    *)
(* prepares another one: an authority that has not concluded yet can be    *)
(* locked to, propose and prepare only that digest.                        *)
CommittedStaysLocked ==
  \A r1, r2 \in Rounds, d1, d2 \in Digests :
    (r1 <= r2 /\ CommitJustified(r1, d1) /\ PrepareJustified(r2, d2))
      => d1 = d2

(* "don't check validity if we are locked": although a locked authority    *)
(* votes without looking, whatever gathers a prepare justification was     *)
(* found valid by a threshold of authorities at some time.                 *)
PreparedWasApproved ==
  \A r \in Rounds, d \in Digests :
    PrepareJustified(r, d) => Suffices({n \in Honest : <<n, d>> \in approved})

(* No authority votes twice in one round, nor in a round that it has not   *)
(* reached, nor changes a vote.                                            *)
OneVotePerRound ==
  \A votes \in {prepares, commits} : \A v1, v2 \in votes :
    /\ v1[2] <= round[v1[1]]
    /\ (v1[1] = v2[1] /\ v1[2] = v2[2]) => v1 = v2

(* A lock is never dropped, and never replaced by one of an earlier round. *)
LockNeverRegresses ==
  [][\A n \in Honest : locked'[n].round >= locked[n].round]_vars
=============================================================================
