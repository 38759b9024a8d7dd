------------------------- MODULE BftProtocolProofs -------------------------
(***************************************************************************)
(* Proofs about BftProtocol, for any number of authorities, rounds and     *)
(* digests.                                                                *)
(***************************************************************************)
EXTENDS BftProtocol, FiniteSetTheorems, TLAPS

-----------------------------------------------------------------------------
(* Quorums. *)

(* Two thresholds of authorities have an honest one in common: what        *)
(* n - f votes out of n > 3f authorities are good for.                     *)
LEMMA QuorumsMeet ==
  ASSUME NEW S \in SUBSET Honest, NEW T \in SUBSET Honest,
         Suffices(S), Suffices(T)
  PROVE  \E n \in Honest : n \in S /\ n \in T
<1> DEFINE A == S \cup Faulty
           B == T \cup Faulty
<1>1. /\ IsFiniteSet(Authorities)
      /\ A \subseteq Authorities
      /\ B \subseteq Authorities
      /\ Faulty \subseteq Authorities
  BY AuthoritiesAssumption DEF Faulty
<1>2. /\ IsFiniteSet(A) /\ IsFiniteSet(B) /\ IsFiniteSet(Faulty)
      /\ IsFiniteSet(A \cup B) /\ IsFiniteSet(A \cap B)
  BY <1>1, FS_Subset
<1>3. Cardinality(A \cup B) =
        Cardinality(A) + Cardinality(B) - Cardinality(A \cap B)
  BY <1>2, FS_Union
<1>4. Cardinality(A \cup B) <= Cardinality(Authorities)
  BY <1>1, FS_Subset
<1>5. /\ Cardinality(A) \in Nat /\ Cardinality(B) \in Nat
      /\ Cardinality(Authorities) \in Nat
      /\ Cardinality(A \cap B) \in Nat
      /\ Cardinality(Faulty) \in Nat
      /\ Cardinality(A \cup B) \in Nat
  BY <1>1, <1>2, FS_CardinalityType
<1>6. Cardinality(A) >= Threshold /\ Cardinality(B) >= Threshold
  BY DEF Suffices
<1>7. Cardinality(A \cap B) > Cardinality(Faulty)
  BY <1>3, <1>4, <1>5, <1>6, FaultyAssumption DEF Threshold, Faulty
<1>8. A \cap B # Faulty
  BY <1>7, <1>5
<1> QED
  BY <1>8, AuthoritiesAssumption DEF Faulty

LEMMA MoreVotersSuffice ==
  ASSUME NEW S \in SUBSET Honest, NEW T \in SUBSET Honest, S \subseteq T,
         Suffices(S)
  PROVE  Suffices(T)
<1>1. IsFiniteSet(Authorities) /\ T \cup Faulty \subseteq Authorities
  BY AuthoritiesAssumption DEF Faulty
<1>2. IsFiniteSet(T \cup Faulty)
  BY <1>1, FS_Subset
<1>3. S \cup Faulty \in SUBSET (T \cup Faulty)
  OBVIOUS
<1>4. Cardinality(S \cup Faulty) <= Cardinality(T \cup Faulty)
  BY <1>2, <1>3, FS_Subset
<1>5. /\ Cardinality(S \cup Faulty) \in Nat
      /\ Cardinality(T \cup Faulty) \in Nat
      /\ Cardinality(Authorities) \in Nat
  BY <1>1, <1>2, <1>3, FS_Subset, FS_CardinalityType
<1>6. Threshold \in Int
  BY <1>5, FaultyAssumption DEF Threshold
<1> QED
  BY <1>4, <1>5, <1>6 DEF Suffices

-----------------------------------------------------------------------------
(* The inductive invariant.                                                *)
(*                                                                         *)
(* Agreement rests on SafeInv, which is about the past: when a digest      *)
(* gathers a prepare justification in a round, then for every earlier      *)
(* round and every other digest there is a threshold of authorities that   *)
(* have left that round without committing to it, so that no commit        *)
(* threshold for it exists or can still form.                              *)

VotedOnce(votes, rounds) ==
  \A n \in Honest, r \in Rounds, d, e \in Digests :
    /\ <<n, r, d>> \in votes => r <= rounds[n]
    /\ (<<n, r, d>> \in votes /\ <<n, r, e>> \in votes) => d = e

VotesInv == VotedOnce(prepares, round) /\ VotedOnce(commits, round)

LockInv ==
  \A n \in Honest :
    /\ locked[n].round <= round[n]
    /\ locked[n] = Unlocked
         \/ /\ locked[n].round \in Rounds
            /\ locked[n].digest \in Digests
            /\ PrepareJustified(locked[n].round, locked[n].digest)

CommitInv ==
  \A n \in Honest, r \in Rounds, d \in Digests :
    <<n, r, d>> \in commits =>
      /\ PrepareJustified(r, d)
      /\ r <= locked[n].round
      /\ r = locked[n].round => d = locked[n].digest

(* Who prepares against an earlier commit of its own does so because the   *)
(* other digest was justified later than that commit.                      *)
PrepareInv ==
  \A n \in Honest, r1, r2 \in Rounds, d1, d2 \in Digests :
    (/\ <<n, r1, d1>> \in commits
     /\ <<n, r2, d2>> \in prepares
     /\ r1 < r2
     /\ d1 # d2)
      => \E r \in Rounds : r > r1 /\ PrepareJustified(r, d2)

Missed(r, d) ==
  {n \in Honest : round[n] > r /\ <<n, r, d>> \notin commits}

SafeInv ==
  \A r1, r2 \in Rounds, d1, d2 \in Digests :
    (PrepareJustified(r2, d2) /\ r1 < r2 /\ d1 # d2)
      => Suffices(Missed(r1, d1))

ApprovedInv ==
  /\ PreparedWasApproved
  /\ \A n \in Honest, r \in Rounds, d \in Digests :
       <<n, r, d>> \in prepares =>
         \/ <<n, d>> \in approved
         \/ \E s \in Rounds : PrepareJustified(s, d)

DecidedInv ==
  \A n \in Honest :
    decided[n] # None => \E r \in Rounds : CommitJustified(r, decided[n])

Inv == /\ TypeOK
       /\ VotesInv
       /\ LockInv
       /\ CommitInv
       /\ PrepareInv
       /\ SafeInv
       /\ ApprovedInv
       /\ DecidedInv

-----------------------------------------------------------------------------
LEMMA RoundsAreNumbers ==
  ASSUME TypeOK
  PROVE  \A n \in Honest : /\ round[n] \in Rounds /\ round[n] \in Nat
                          /\ locked[n].round \in Int
<1> TAKE n \in Honest
<1>1. round[n] \in Rounds /\ locked[n].round \in Rounds \cup {-1}
  BY DEF TypeOK
<1>2. round[n] \in Nat
  BY <1>1, RoundsAssumption
<1>3. Rounds \cup {-1} \subseteq Int
  BY RoundsAssumption
<1>4. locked[n].round \in Int
  BY <1>1, <1>3
<1> QED
  BY <1>1, <1>2, <1>4

(* Votes are only added, so a justification once there stays. *)
LEMMA JustifiedStays ==
  ASSUME prepares \subseteq prepares'
  PROVE  \A r \in Rounds, d \in Digests :
           PrepareJustified(r, d) => PrepareJustified(r, d)'
<1> SUFFICES ASSUME NEW r \in Rounds, NEW d \in Digests,
                    PrepareJustified(r, d)
             PROVE  PrepareJustified(r, d)'
  OBVIOUS
<1>1. Voters(prepares, r, d) \subseteq Voters(prepares', r, d)
  BY DEF Voters
<1>2. Suffices(Voters(prepares', r, d))
  BY <1>1, MoreVotersSuffice DEF PrepareJustified, Voters
<1> QED
  BY <1>2 DEF PrepareJustified, Voters, Suffices

LEMMA CommitJustifiedStays ==
  ASSUME commits \subseteq commits'
  PROVE  \A r \in Rounds, d \in Digests \cup {None} :
           CommitJustified(r, d) => CommitJustified(r, d)'
<1> SUFFICES ASSUME NEW r \in Rounds, NEW d \in Digests \cup {None},
                    CommitJustified(r, d)
             PROVE  CommitJustified(r, d)'
  OBVIOUS
<1>1. Voters(commits, r, d) \subseteq Voters(commits', r, d)
  BY DEF Voters
<1>2. Suffices(Voters(commits', r, d))
  BY <1>1, MoreVotersSuffice DEF CommitJustified, Voters
<1> QED
  BY <1>2 DEF CommitJustified, Voters, Suffices

(* At most one digest of a round is justified. *)
LEMMA OneJustified ==
  ASSUME VotesInv, NEW r \in Rounds, NEW d \in Digests, NEW e \in Digests,
         PrepareJustified(r, d), PrepareJustified(r, e)
  PROVE  d = e
<1>1. PICK n \in Honest : /\ n \in Voters(prepares, r, d)
                          /\ n \in Voters(prepares, r, e)
  BY QuorumsMeet DEF PrepareJustified, Voters
<1> QED
  BY <1>1 DEF Voters, VotesInv, VotedOnce

(* Agreement needs no more than the invariant. *)
LEMMA InvImpliesAgreement == Inv => Agreement /\ CommittedStaysLocked
<1> SUFFICES ASSUME Inv PROVE Agreement /\ CommittedStaysLocked
  OBVIOUS
<1> USE DEF Inv
<1>1. ASSUME NEW r \in Rounds, NEW d \in Digests, CommitJustified(r, d)
      PROVE  PrepareJustified(r, d)
  <2>1. PICK n \in Honest : <<n, r, d>> \in commits
    BY <1>1, QuorumsMeet DEF CommitJustified, Voters
  <2> QED
    BY <2>1 DEF CommitInv
<1>2. ASSUME NEW r1 \in Rounds, NEW r2 \in Rounds,
             NEW d1 \in Digests, NEW d2 \in Digests,
             r1 <= r2, CommitJustified(r1, d1), PrepareJustified(r2, d2)
      PROVE  d1 = d2
  <2>1. CASE r1 = r2
    BY <2>1, <1>1, <1>2, OneJustified
  <2>2. CASE r1 # r2
    <3>1. SUFFICES ASSUME d1 # d2 PROVE FALSE
      OBVIOUS
    <3>2. r1 < r2
      BY <2>2, <1>2, RoundsAssumption
    <3>3. Suffices(Missed(r1, d1))
      BY <1>2, <3>1, <3>2 DEF SafeInv
    <3>4. PICK n \in Honest : /\ n \in Missed(r1, d1)
                              /\ n \in Voters(commits, r1, d1)
      BY <1>2, <3>3, QuorumsMeet DEF Missed, Voters, CommitJustified
    <3> QED
      BY <3>4 DEF Missed, Voters
  <2> QED
    BY <2>1, <2>2
<1>3. CommittedStaysLocked
  BY <1>2 DEF CommittedStaysLocked
<1>4. Agreement
  <2> SUFFICES ASSUME NEW m \in Honest, NEW n \in Honest,
                      decided[m] # None, decided[n] # None
               PROVE  decided[m] = decided[n]
    BY DEF Agreement
  <2>1. decided[m] \in Digests /\ decided[n] \in Digests
    BY DEF TypeOK
  <2>2. PICK r1 \in Rounds : CommitJustified(r1, decided[m])
    BY DEF DecidedInv
  <2>3. PICK r2 \in Rounds : CommitJustified(r2, decided[n])
    BY DEF DecidedInv
  <2>4. r1 <= r2 \/ r2 <= r1
    BY RoundsAssumption
  <2> QED
    BY <1>1, <1>2, <2>1, <2>2, <2>3, <2>4
<1> QED
  BY <1>3, <1>4

-----------------------------------------------------------------------------
(* The invariant holds initially and is preserved, action by action. *)

LEMMA InitInv == Init => Inv
<1> SUFFICES ASSUME Init PROVE Inv
  OBVIOUS
<1> USE DEF Init
<1>1. TypeOK
  BY RoundsAssumption DEF TypeOK, Unlocked, Lock
<1>2. \A r \in Rounds, d \in Digests : ~PrepareJustified(r, d)
  <2> SUFFICES ASSUME NEW r \in Rounds, NEW d \in Digests,
                      PrepareJustified(r, d)
               PROVE  FALSE
    OBVIOUS
  <2>1. \E n \in Honest : n \in Voters(prepares, r, d)
    BY QuorumsMeet DEF PrepareJustified, Voters
  <2> QED
    BY <2>1 DEF Voters
<1>3. VotesInv /\ CommitInv /\ PrepareInv
  BY DEF VotesInv, VotedOnce, CommitInv, PrepareInv
<1>4. LockInv
  BY DEF LockInv, Unlocked, Lock
<1>5. SafeInv /\ ApprovedInv
  BY <1>2 DEF SafeInv, ApprovedInv, PreparedWasApproved
<1>6. DecidedInv
  BY DEF DecidedInv
<1> QED
  BY <1>1, <1>3, <1>4, <1>5, <1>6 DEF Inv

(* A step that casts no prepare vote, adds no commit to a round that its   *)
(* author has left and moves nobody back keeps SafeInv and ApprovedInv.    *)
LEMMA SafeStays ==
  ASSUME Inv, UNCHANGED <<approved, prepares>>,
         round' \in [Honest -> Rounds],
         \A n \in Honest : round[n] <= round'[n],
         \A n \in Honest, r \in Rounds, d \in Digests :
           (<<n, r, d>> \in commits' /\ round[n] > r) => <<n, r, d>> \in commits
  PROVE  SafeInv' /\ ApprovedInv'
<1> USE DEF Inv
<1>1. \A r \in Rounds, d \in Digests :
        PrepareJustified(r, d)' <=> PrepareJustified(r, d)
  BY DEF PrepareJustified, Voters, Suffices
<1>2. ApprovedInv'
  BY <1>1 DEF ApprovedInv, PreparedWasApproved, Suffices
<1>3. SafeInv'
  <2> SUFFICES ASSUME NEW r1 \in Rounds, NEW r2 \in Rounds,
                      NEW d1 \in Digests, NEW d2 \in Digests,
                      PrepareJustified(r2, d2)', r1 < r2, d1 # d2
               PROVE  Suffices(Missed(r1, d1))'
    BY DEF SafeInv
  <2>1. Suffices(Missed(r1, d1))
    BY <1>1 DEF SafeInv
  <2>2. Missed(r1, d1) \subseteq Missed(r1, d1)'
    <3> SUFFICES ASSUME NEW m \in Honest, round[m] > r1,
                        <<m, r1, d1>> \notin commits
                 PROVE  round'[m] > r1 /\ <<m, r1, d1>> \notin commits'
      BY DEF Missed
    <3>1. round[m] \in Nat /\ round'[m] \in Nat /\ r1 \in Nat
      BY RoundsAssumption DEF TypeOK
    <3> QED
      BY <3>1
  <2>3. Suffices(Missed(r1, d1)')
    BY <2>1, <2>2, MoreVotersSuffice DEF Missed
  <2> QED
    BY <2>3 DEF Suffices
<1> QED
  BY <1>2, <1>3

LEMMA PrepareInvariant ==
  ASSUME Inv, NEW n \in Honest, NEW d \in Digests, Prepare(n, d)
  PROVE  Inv'
<1> USE DEF Inv
<1> DEFINE r0 == round[n]
<1>0. r0 \in Rounds /\ r0 \in Nat
  BY RoundsAssumption DEF TypeOK
<1>1. /\ prepares' = prepares \cup {<<n, r0, d>>}
      /\ UNCHANGED <<round, locked, commits, decided>>
      /\ approved \subseteq approved'
  BY DEF Prepare
<1>2. TypeOK'
  BY <1>0, <1>1 DEF TypeOK, Prepare
<1>3. VotesInv'
  <2> SUFFICES ASSUME NEW m \in Honest, NEW r \in Rounds,
                      NEW e1 \in Digests, NEW e2 \in Digests
               PROVE  /\ <<m, r, e1>> \in prepares' => r <= round[m]
                      /\ (<<m, r, e1>> \in prepares' /\ <<m, r, e2>> \in prepares')
                           => e1 = e2
    <3>1. VotedOnce(commits', round')
      BY <1>1 DEF VotesInv
    <3> QED
      BY <1>1, <3>1 DEF VotesInv, VotedOnce
  <2>1. <<m, r, e1>> \in prepares' =>
          <<m, r, e1>> \in prepares \/ (m = n /\ r = r0 /\ e1 = d)
    BY <1>1
  <2>2. <<m, r, e2>> \in prepares' =>
          <<m, r, e2>> \in prepares \/ (m = n /\ r = r0 /\ e2 = d)
    BY <1>1
  <2>3. \A e \in Digests : <<n, r0, e>> \notin prepares
    BY DEF Prepare
  <2> QED
    BY <1>0, <2>1, <2>2, <2>3 DEF VotesInv, VotedOnce
<1>4. \A r \in Rounds, e \in Digests :
        PrepareJustified(r, e) => PrepareJustified(r, e)'
  BY <1>1, JustifiedStays
<1>5. LockInv'
  BY <1>1, <1>4 DEF LockInv
<1>6. CommitInv'
  BY <1>1, <1>4 DEF CommitInv
<1>7. locked[n] = Unlocked \/ /\ locked[n].digest = d
                              /\ locked[n].round \in Rounds
                              /\ PrepareJustified(locked[n].round, d)
  BY DEF Prepare, LockInv
<1>8. PrepareInv'
  <2> SUFFICES ASSUME NEW m \in Honest, NEW r1 \in Rounds, NEW r2 \in Rounds,
                      NEW d1 \in Digests, NEW d2 \in Digests,
                      <<m, r1, d1>> \in commits, <<m, r2, d2>> \in prepares',
                      r1 < r2, d1 # d2
               PROVE  \E r \in Rounds : r > r1 /\ PrepareJustified(r, d2)'
    BY <1>1 DEF PrepareInv
  <2>1. CASE <<m, r2, d2>> \in prepares
    <3>1. PICK r \in Rounds : r > r1 /\ PrepareJustified(r, d2)
      BY <2>1 DEF PrepareInv
    <3> QED
      BY <3>1, <1>4
  <2>2. CASE <<m, r2, d2>> \notin prepares
    <3>1. m = n /\ r2 = r0 /\ d2 = d
      BY <2>2, <1>1
    <3>2. /\ r1 <= locked[n].round
          /\ r1 = locked[n].round => d1 = locked[n].digest
      BY <3>1 DEF CommitInv
    <3>3. locked[n] # Unlocked
      BY <3>2, RoundsAssumption DEF Unlocked, Lock
    <3>4. locked[n].round > r1
      BY <1>7, <3>1, <3>2, <3>3, RoundsAssumption
    <3> QED
      BY <1>4, <1>7, <3>1, <3>3, <3>4
  <2> QED
    BY <2>1, <2>2
<1>9. SafeInv'
  <2> SUFFICES ASSUME NEW r1 \in Rounds, NEW r2 \in Rounds,
                      NEW d1 \in Digests, NEW d2 \in Digests,
                      PrepareJustified(r2, d2)', r1 < r2, d1 # d2
               PROVE  Suffices(Missed(r1, d1))
    BY <1>1 DEF SafeInv, Missed, Suffices
  <2>1. CASE \E r \in Rounds : r > r1 /\ PrepareJustified(r, d2)
    BY <2>1, RoundsAssumption DEF SafeInv
  <2>2. CASE ~ \E r \in Rounds : r > r1 /\ PrepareJustified(r, d2)
    <3> DEFINE S == Voters(prepares', r2, d2)
    <3>1. S \subseteq Missed(r1, d1)
      <4> SUFFICES ASSUME NEW m \in Honest, <<m, r2, d2>> \in prepares'
                   PROVE  round[m] > r1 /\ <<m, r1, d1>> \notin commits
        BY DEF Voters, Missed
      <4>1. r2 <= round[m]
        BY <1>1, <1>3 DEF VotesInv, VotedOnce
      <4>2. round[m] > r1
        <5>1. round[m] \in Nat /\ r1 \in Nat /\ r2 \in Nat
          BY RoundsAssumption DEF TypeOK
        <5> QED
          BY <4>1, <5>1
      <4>3. CASE <<m, r2, d2>> \in prepares
        BY <2>2, <4>2, <4>3 DEF PrepareInv
      <4>4. CASE <<m, r2, d2>> \notin prepares
        <5>1. m = n /\ r2 = r0 /\ d2 = d
          BY <4>4, <1>1
        <5>2. SUFFICES ASSUME <<n, r1, d1>> \in commits PROVE FALSE
          BY <4>2, <5>1
        <5>3. /\ r1 <= locked[n].round
              /\ r1 = locked[n].round => d1 = locked[n].digest
          BY <5>2 DEF CommitInv
        <5>4. locked[n] # Unlocked
          BY <5>3, RoundsAssumption DEF Unlocked, Lock
        <5>5. locked[n].round > r1
          BY <1>7, <5>1, <5>3, <5>4, RoundsAssumption
        <5> QED
          BY <1>7, <2>2, <5>1, <5>4, <5>5
      <4> QED
        BY <4>3, <4>4
    <3>2. Suffices(S)
      BY DEF PrepareJustified, Suffices, Voters
    <3> QED
      BY <3>1, <3>2, MoreVotersSuffice DEF Voters, Missed
  <2> QED
    BY <2>1, <2>2
<1>10. ApprovedInv'
  <2>1. ASSUME NEW m \in Honest, NEW r \in Rounds, NEW e \in Digests,
               <<m, r, e>> \in prepares'
        PROVE  \/ <<m, e>> \in approved'
               \/ \E q \in Rounds : PrepareJustified(q, e)
    <3>1. CASE <<m, r, e>> \in prepares
      BY <3>1, <1>1 DEF ApprovedInv
    <3>2. CASE <<m, r, e>> \notin prepares
      <4>1. m = n /\ e = d
        BY <3>2, <2>1, <1>1
      <4>2. locked[n] = Unlocked => <<n, d>> \in approved'
        BY DEF Prepare
      <4> QED
        BY <4>1, <4>2, <1>7
    <3> QED
      BY <3>1, <3>2
  <2>2. ASSUME NEW r \in Rounds, NEW e \in Digests, PrepareJustified(r, e)'
        PROVE  Suffices({m \in Honest : <<m, e>> \in approved'})
    <3> DEFINE A == {m \in Honest : <<m, e>> \in approved'}
    <3>1. CASE \E q \in Rounds : PrepareJustified(q, e)
      <4>1. Suffices({m \in Honest : <<m, e>> \in approved})
        BY <3>1 DEF ApprovedInv, PreparedWasApproved
      <4>2. {m \in Honest : <<m, e>> \in approved} \subseteq A
        BY <1>1
      <4> QED
        BY <4>1, <4>2, MoreVotersSuffice
    <3>2. CASE ~ \E q \in Rounds : PrepareJustified(q, e)
      <4>1. Voters(prepares', r, e) \subseteq A
        BY <2>1, <3>2 DEF Voters
      <4>2. Suffices(Voters(prepares', r, e))
        BY <2>2 DEF PrepareJustified, Suffices, Voters
      <4> QED
        BY <4>1, <4>2, MoreVotersSuffice DEF Voters
    <3> QED
      BY <3>1, <3>2
  <2> QED
    BY <1>4, <2>1, <2>2 DEF ApprovedInv, PreparedWasApproved, Suffices
<1>11. DecidedInv'
  BY <1>1 DEF DecidedInv, CommitJustified, Voters, Suffices
<1> QED
  BY <1>2, <1>3, <1>5, <1>6, <1>8, <1>9, <1>10, <1>11

LEMMA CommitInvariant ==
  ASSUME Inv, NEW n \in Honest, NEW d \in Digests, Commit(n, d)
  PROVE  Inv'
<1> USE DEF Inv
<1> DEFINE r0 == round[n]
<1>0. r0 \in Rounds /\ r0 \in Nat
  BY RoundsAssumption DEF TypeOK
<1>1. /\ commits' = commits \cup {<<n, r0, d>>}
      /\ locked' = [locked EXCEPT ![n] = Lock(r0, d)]
      /\ PrepareJustified(r0, d)
      /\ UNCHANGED <<round, approved, prepares, decided>>
      /\ \A e \in Digests : <<n, r0, e>> \notin commits
  BY DEF Commit
<1>2. TypeOK'
  BY <1>0, <1>1 DEF TypeOK, Lock
<1>3. VotesInv'
  <2> SUFFICES ASSUME NEW m \in Honest, NEW r \in Rounds,
                      NEW e1 \in Digests, NEW e2 \in Digests
               PROVE  /\ <<m, r, e1>> \in commits' => r <= round[m]
                      /\ (<<m, r, e1>> \in commits' /\ <<m, r, e2>> \in commits')
                           => e1 = e2
    <3>1. round' = round /\ prepares' = prepares
      BY <1>1
    <3>2. VotedOnce(prepares', round')
      BY <3>1 DEF VotesInv
    <3> QED
      BY <3>1, <3>2 DEF VotesInv, VotedOnce
  <2>1. <<m, r, e1>> \in commits' =>
          <<m, r, e1>> \in commits \/ (m = n /\ r = r0 /\ e1 = d)
    BY <1>1
  <2>2. <<m, r, e2>> \in commits' =>
          <<m, r, e2>> \in commits \/ (m = n /\ r = r0 /\ e2 = d)
    BY <1>1
  <2> QED
    BY <1>0, <1>1, <2>1, <2>2 DEF VotesInv, VotedOnce
<1>4. \A r \in Rounds, e \in Digests :
        PrepareJustified(r, e)' <=> PrepareJustified(r, e)
  BY <1>1 DEF PrepareJustified, Voters, Suffices
<1>5. \A m \in Honest : locked'[m] = IF m = n THEN Lock(r0, d) ELSE locked[m]
  BY <1>1 DEF TypeOK
<1>6. LockInv'
  BY <1>0, <1>1, <1>4, <1>5 DEF LockInv, Lock
<1>7. CommitInv'
  <2> SUFFICES ASSUME NEW m \in Honest, NEW r \in Rounds, NEW e \in Digests,
                      <<m, r, e>> \in commits'
               PROVE  /\ PrepareJustified(r, e)
                      /\ r <= locked'[m].round
                      /\ r = locked'[m].round => e = locked'[m].digest
    BY <1>4 DEF CommitInv
  <2>1. CASE m # n
    BY <2>1, <1>1, <1>5 DEF CommitInv
  <2>2. CASE m = n /\ <<m, r, e>> \in commits
    <3>1. r <= r0 /\ PrepareJustified(r, e)
      BY <2>2 DEF VotesInv, VotedOnce, CommitInv
    <3>2. r # r0
      BY <2>2, <1>1
    <3> QED
      BY <3>1, <3>2, <2>2, <1>5 DEF Lock
  <2>3. CASE m = n /\ r = r0 /\ e = d
    BY <2>3, <1>0, <1>1, <1>5 DEF Lock
  <2> QED
    BY <2>1, <2>2, <2>3, <1>1
<1>8. PrepareInv'
  <2> SUFFICES ASSUME NEW m \in Honest, NEW r1 \in Rounds, NEW r2 \in Rounds,
                      NEW d1 \in Digests, NEW d2 \in Digests,
                      <<m, r1, d1>> \in commits', <<m, r2, d2>> \in prepares,
                      r1 < r2, d1 # d2
               PROVE  \E r \in Rounds : r > r1 /\ PrepareJustified(r, d2)
    BY <1>1, <1>4 DEF PrepareInv
  <2>1. r2 <= round[m]
    BY DEF VotesInv, VotedOnce
  <2>2. <<m, r1, d1>> \in commits
    <3>1. ~(m = n /\ r1 = r0)
      BY <2>1, <1>0, RoundsAssumption
    <3> QED
      BY <3>1, <1>1
  <2> QED
    BY <2>2 DEF PrepareInv
<1>9. SafeInv' /\ ApprovedInv'
  <2>1. \A m \in Honest : round[m] <= round'[m]
    BY <1>1, RoundsAreNumbers
  <2>2. ASSUME NEW m \in Honest, NEW r \in Rounds, NEW e \in Digests,
               <<m, r, e>> \in commits', round[m] > r
        PROVE  <<m, r, e>> \in commits
    <3>1. ~(m = n /\ r = r0)
      BY <2>2, <1>0
    <3> QED
      BY <2>2, <3>1, <1>1
  <2>3. round' \in [Honest -> Rounds]
    BY <1>2 DEF TypeOK
  <2> QED
    BY <1>1, <2>1, <2>2, <2>3, SafeStays
<1>10. DecidedInv'
  BY <1>1, CommitJustifiedStays DEF DecidedInv, TypeOK
<1> QED
  BY <1>2, <1>3, <1>6, <1>7, <1>8, <1>9, <1>10

(* AdvanceRound and ImportLockProof have the same effect on the invariant: *)
(* no votes, a round that does not go back, and a lock that stays or is    *)
(* replaced by a justified one that is not older than it.                  *)
LEMMA RelockInvariant ==
  ASSUME Inv, NEW n \in Honest,
         UNCHANGED <<approved, prepares, commits, decided>>,
         NEW r0 \in Rounds, round[n] <= r0,
         round' = [round EXCEPT ![n] = r0],
         \/ locked' = locked
         \/ \E r \in Rounds, d \in Digests :
              /\ PrepareJustified(r, d)
              /\ locked[n].round <= r
              /\ r <= r0
              /\ locked' = [locked EXCEPT ![n] = Lock(r, d)]
  PROVE  Inv'
<1> USE DEF Inv
<1>1. /\ \A m \in Honest : round'[m] = IF m = n THEN r0 ELSE round[m]
      /\ round' \in [Honest -> Rounds]
      /\ \A m \in Honest : /\ round[m] \in Nat /\ round'[m] \in Nat
                            /\ locked[m].round \in Int
                            /\ round[m] <= round'[m]
  <2>1. \A m \in Honest : round'[m] = IF m = n THEN r0 ELSE round[m]
    BY DEF TypeOK
  <2>2. round' \in [Honest -> Rounds]
    BY DEF TypeOK
  <2> QED
    BY <2>1, <2>2, RoundsAreNumbers, RoundsAssumption
<1>2. \A r \in Rounds, e \in Digests :
        PrepareJustified(r, e)' <=> PrepareJustified(r, e)
  BY DEF PrepareJustified, Voters, Suffices
<1>3. TypeOK'
  BY <1>1 DEF TypeOK, Lock
<1>4. VotesInv'
  <2>1. ASSUME NEW m \in Honest, NEW q \in Rounds, q <= round[m] PROVE q <= round'[m]
    BY <1>1, <2>1, RoundsAssumption
  <2>2. VotedOnce(prepares, round') /\ VotedOnce(commits, round')
    BY <2>1 DEF VotesInv, VotedOnce
  <2> QED
    BY <2>2 DEF VotesInv
<1>5. PrepareInv' /\ SafeInv' /\ ApprovedInv'
  BY <1>1, <1>2, SafeStays DEF PrepareInv
<1>6. DecidedInv'
  BY DEF DecidedInv, CommitJustified, Voters, Suffices
<1>7. CASE locked' = locked
  <2>2. LockInv'
    BY <1>1, <1>2, <1>7 DEF LockInv
  <2>3. CommitInv'
    BY <1>2, <1>7 DEF CommitInv
  <2> QED
    BY <1>3, <1>4, <1>5, <1>6, <2>2, <2>3
<1>8. ASSUME NEW r \in Rounds, NEW d \in Digests,
             PrepareJustified(r, d), locked[n].round <= r, r <= r0,
             locked' = [locked EXCEPT ![n] = Lock(r, d)]
      PROVE  Inv'
  <2>1. \A m \in Honest : locked'[m] = IF m = n THEN Lock(r, d) ELSE locked[m]
    BY <1>8 DEF TypeOK
  <2>3. LockInv'
    BY <1>1, <1>2, <1>8, <2>1, RoundsAssumption DEF LockInv, Lock
  <2>4. CommitInv'
    <3> SUFFICES ASSUME NEW m \in Honest, NEW q \in Rounds, NEW e \in Digests,
                        <<m, q, e>> \in commits
                 PROVE  /\ PrepareJustified(q, e)
                        /\ q <= locked'[m].round
                        /\ q = locked'[m].round => e = locked'[m].digest
      BY <1>2 DEF CommitInv
    <3>1. CASE m # n
      BY <3>1, <2>1 DEF CommitInv
    <3>2. CASE m = n
      <4>1. PrepareJustified(q, e) /\ q <= locked[n].round
        BY <3>2 DEF CommitInv
      <4>2. q <= r
        BY <4>1, <1>8, <1>1, RoundsAssumption
      <4>3. q = r => e = d
        BY <4>1, <1>8, OneJustified
      <4> QED
        BY <3>2, <4>1, <4>2, <4>3, <2>1 DEF Lock
    <3> QED
      BY <3>1, <3>2
  <2> QED
    BY <1>3, <1>4, <1>5, <1>6, <2>3, <2>4
<1> QED
  BY <1>7, <1>8

LEMMA AdvanceRoundInvariant ==
  ASSUME Inv, NEW n \in Honest, AdvanceRound(n)
  PROVE  Inv'
<1> USE DEF Inv
<1>1. /\ round[n] \in Rounds /\ round[n] \in Nat /\ locked[n].round \in Int
      /\ locked[n].round <= round[n]
  BY RoundsAreNumbers DEF LockInv
<1>2. \/ locked' = locked
      \/ \E r \in Rounds, d \in Digests :
           /\ PrepareJustified(r, d)
           /\ locked[n].round <= r
           /\ r <= round[n] + 1
           /\ locked' = [locked EXCEPT ![n] = Lock(r, d)]
  BY <1>1 DEF AdvanceRound
<1>3. /\ round[n] + 1 \in Rounds
      /\ round[n] <= round[n] + 1
      /\ round' = [round EXCEPT ![n] = round[n] + 1]
      /\ UNCHANGED <<approved, prepares, commits, decided>>
  BY <1>1 DEF AdvanceRound
<1> QED
  BY <1>2, <1>3, RelockInvariant

LEMMA ImportLockProofInvariant ==
  ASSUME Inv, NEW n \in Honest, NEW r \in Rounds, NEW d \in Digests,
         ImportLockProof(n, r, d)
  PROVE  Inv'
<1> USE DEF Inv
<1> DEFINE r0 == IF r > round[n] THEN r ELSE round[n]
<1>1. /\ round[n] \in Rounds /\ round[n] \in Nat /\ locked[n].round \in Int
      /\ r \in Nat
  BY RoundsAreNumbers, RoundsAssumption
<1>2. r0 \in Rounds /\ round[n] <= r0 /\ r <= r0
  BY <1>1
<1>3. \/ locked' = locked
      \/ \E q \in Rounds, e \in Digests :
           /\ PrepareJustified(q, e)
           /\ locked[n].round <= q
           /\ q <= r0
           /\ locked' = [locked EXCEPT ![n] = Lock(q, e)]
  BY <1>1, <1>2 DEF ImportLockProof
<1>4. /\ round' = [round EXCEPT ![n] = r0]
      /\ UNCHANGED <<approved, prepares, commits, decided>>
  BY DEF ImportLockProof
<1> HIDE DEF r0
<1> QED
  BY <1>2, <1>3, <1>4, RelockInvariant

LEMMA DecideInvariant ==
  ASSUME Inv, NEW n \in Honest, NEW d \in Digests, Decide(n, d)
  PROVE  Inv'
<1> USE DEF Inv
<1>1. /\ UNCHANGED <<round, locked, approved, prepares, commits>>
      /\ decided' = [decided EXCEPT ![n] = d]
      /\ CommitJustified(round[n], d)
  BY DEF Decide
<1>2. TypeOK'
  BY <1>1 DEF TypeOK
<1>3. /\ \A r \in Rounds, e \in Digests :
           PrepareJustified(r, e)' <=> PrepareJustified(r, e)
      /\ \A r \in Rounds, e \in Digests :
           CommitJustified(r, e)' <=> CommitJustified(r, e)
  BY <1>1 DEF PrepareJustified, CommitJustified, Voters, Suffices
<1>4. VotesInv' /\ LockInv' /\ CommitInv' /\ PrepareInv'
  BY <1>1, <1>3 DEF VotesInv, VotedOnce, LockInv, CommitInv, PrepareInv
<1>5. SafeInv' /\ ApprovedInv'
  BY <1>1, <1>3
     DEF SafeInv, Missed, Suffices, ApprovedInv, PreparedWasApproved
<1>6. DecidedInv'
  <2> SUFFICES ASSUME NEW m \in Honest, decided'[m] # None
               PROVE  \E r \in Rounds : CommitJustified(r, decided'[m])
    BY <1>1 DEF DecidedInv, CommitJustified, Voters, Suffices
  <2>1. CASE m = n
    <3>1. decided'[m] = d /\ round[n] \in Rounds
      BY <2>1, <1>1 DEF TypeOK
    <3> QED
      BY <3>1, <1>1
  <2>2. CASE m # n
    <3>1. decided'[m] = decided[m]
      BY <2>2, <1>1 DEF TypeOK
    <3> QED
      BY <3>1 DEF DecidedInv
  <2> QED
    BY <2>1, <2>2
<1> QED
  BY <1>2, <1>4, <1>5, <1>6

LEMMA NextInv == Inv /\ [Next]_vars => Inv'
<1> SUFFICES ASSUME Inv, [Next]_vars PROVE Inv'
  OBVIOUS
<1>1. CASE Next
  <2>1. PICK n \in Honest :
          \/ \E d \in Digests : Prepare(n, d)
          \/ \E d \in Digests : Commit(n, d)
          \/ AdvanceRound(n)
          \/ \E r \in Rounds, d \in Digests : ImportLockProof(n, r, d)
          \/ \E d \in Digests : Decide(n, d)
    BY <1>1 DEF Next
  <2> QED
    BY <2>1, PrepareInvariant, CommitInvariant, AdvanceRoundInvariant,
       ImportLockProofInvariant, DecideInvariant
<1>2. CASE UNCHANGED vars
  <2>1. /\ round' = round /\ locked' = locked /\ approved' = approved
        /\ prepares' = prepares /\ commits' = commits /\ decided' = decided
    BY <1>2 DEF vars
  <2>2. TypeOK' /\ VotesInv'
    BY <2>1 DEF Inv, TypeOK, VotesInv, VotedOnce
  <2>3. LockInv' /\ CommitInv' /\ PrepareInv'
    BY <2>1, SMTT(60) DEF Inv, LockInv, CommitInv, PrepareInv, PrepareJustified, Voters,
                Suffices
  <2>4. SafeInv' /\ ApprovedInv' /\ DecidedInv'
    BY <2>1, SMTT(60) DEF Inv, SafeInv, Missed, ApprovedInv, PreparedWasApproved,
                DecidedInv, PrepareJustified, CommitJustified, Voters, Suffices
  <2> QED
    BY <2>2, <2>3, <2>4 DEF Inv
<1> QED
  BY <1>1, <1>2

-----------------------------------------------------------------------------
(* Type correctness of the protocol, for any authorities and rounds. *)
THEOREM TypeCorrect == Spec => []TypeOK
<1>1. Inv => TypeOK
  BY DEF Inv
<1> QED
  BY <1>1, InitInv, NextInv, PTL DEF Spec

(* Safety of the BFT agreement for any number n of authorities of which at *)
(* most f are faulty, n > 3f, and any number of rounds: no two honest      *)
(* authorities conclude with different candidates.                         *)
THEOREM AgreementHolds == Spec => []Agreement
<1> QED
  BY InitInv, NextInv, InvImpliesAgreement, PTL DEF Spec

(* A commit threshold fixes the digest of every later prepare threshold:   *)
(* what makes locking work across round changes.                           *)
THEOREM CommittedStaysLockedHolds == Spec => []CommittedStaysLocked
<1> QED
  BY InitInv, NextInv, InvImpliesAgreement, PTL DEF Spec

(* Whatever is prepared by a threshold, and so whatever is decided, was    *)
(* evaluated as valid by a threshold, although locked voters do not look.  *)
THEOREM PreparedWasApprovedHolds == Spec => []PreparedWasApproved
<1>1. Inv => PreparedWasApproved
  BY DEF Inv, ApprovedInv
<1> QED
  BY <1>1, InitInv, NextInv, PTL DEF Spec

(* An honest authority casts at most one prepare and one commit a round,   *)
(* which is what the misbehaviour reports accuse a faulty one of breaking. *)
THEOREM OneVotePerRoundHolds == Spec => []OneVotePerRound
<1>1. ASSUME Inv PROVE OneVotePerRound
  <2> SUFFICES ASSUME NEW votes \in {prepares, commits},
                      NEW v1 \in votes, NEW v2 \in votes
               PROVE  /\ v1[2] <= round[v1[1]]
                      /\ (v1[1] = v2[1] /\ v1[2] = v2[2]) => v1 = v2
    BY DEF OneVotePerRound
  <2>1. votes \subseteq Honest \X Rounds \X Digests
    BY <1>1 DEF Inv, TypeOK
  <2>2. PICK n1 \in Honest, r1 \in Rounds, d1 \in Digests : v1 = <<n1, r1, d1>>
    BY <2>1
  <2>3. PICK n2 \in Honest, r2 \in Rounds, d2 \in Digests : v2 = <<n2, r2, d2>>
    BY <2>1
  <2>4. /\ v1[1] = n1 /\ v1[2] = r1 /\ v2[1] = n2 /\ v2[2] = r2
    BY <2>2, <2>3
  <2>5. r1 <= round[n1] /\ ((n1 = n2 /\ r1 = r2) => d1 = d2)
    BY <1>1, <2>2, <2>3 DEF Inv, VotesInv, VotedOnce
  <2> QED
    BY <2>2, <2>3, <2>4, <2>5
<1> QED
  BY <1>1, InitInv, NextInv, PTL DEF Spec

(* A lock is only ever replaced by one of the same or a later round, in    *)
(* commit, in the round change and on a lock proof alike.                  *)
THEOREM LockNeverRegressesHolds == Spec => LockNeverRegresses
<1>1. ASSUME Inv, Next, NEW n \in Honest
      PROVE  locked'[n].round >= locked[n].round
  <2>1. /\ round[n] \in Nat /\ locked[n].round \in Int
        /\ locked[n].round <= round[n]
    BY <1>1, RoundsAreNumbers DEF Inv, LockInv
  <2>2. \/ locked'[n] = locked[n]
        \/ \E r \in Rounds, d \in Digests :
             locked'[n] = Lock(r, d) /\ locked[n].round <= r
    <3>1. PICK m \in Honest :
            \/ \E d \in Digests : Prepare(m, d)
            \/ \E d \in Digests : Commit(m, d)
            \/ AdvanceRound(m)
            \/ \E r \in Rounds, d \in Digests : ImportLockProof(m, r, d)
            \/ \E d \in Digests : Decide(m, d)
      BY <1>1 DEF Next
    <3>2. DOMAIN locked = Honest /\ round[n] \in Rounds
      BY <1>1 DEF Inv, TypeOK
    <3>3. CASE m # n \/ locked' = locked
      BY <3>1, <3>2, <3>3 DEF Prepare, Commit, AdvanceRound, ImportLockProof,
                             Decide
    <3>4. CASE m = n /\ locked' # locked
      <4>1. ASSUME NEW d \in Digests, Commit(n, d)
            PROVE  locked'[n] = Lock(round[n], d)
        BY <4>1, <3>2 DEF Commit
      <4>2. ASSUME AdvanceRound(n)
            PROVE  \E d \in Digests : locked'[n] = Lock(round[n], d)
        BY <4>2, <3>2, <3>4 DEF AdvanceRound
      <4>3. ASSUME NEW r \in Rounds, NEW d \in Digests, ImportLockProof(n, r, d)
            PROVE  locked'[n] = Lock(r, d) /\ locked[n].round <= r
        <5>1. r \in Int
          BY RoundsAssumption
        <5> QED
          BY <4>3, <5>1, <3>2, <3>4, <2>1 DEF ImportLockProof
      <4>4. ~ \E d \in Digests : Prepare(n, d) \/ Decide(n, d)
        BY <3>4 DEF Prepare, Decide
      <4> QED
        BY <3>1, <3>2, <3>4, <2>1, <4>1, <4>2, <4>3, <4>4
    <3> QED
      BY <3>3, <3>4
  <2>3. CASE locked'[n] = locked[n]
    BY <2>1, <2>3
  <2>4. CASE \E r \in Rounds, d \in Digests :
               locked'[n] = Lock(r, d) /\ locked[n].round <= r
    BY <2>1, <2>4, RoundsAssumption DEF Lock
  <2> QED
    BY <2>2, <2>3, <2>4
<1>2. Inv /\ [Next]_vars
        => [\A n \in Honest : locked'[n].round >= locked[n].round]_vars
  BY <1>1
<1> QED
  BY <1>2, InitInv, NextInv, PTL DEF Spec, LockNeverRegresses
=============================================================================
