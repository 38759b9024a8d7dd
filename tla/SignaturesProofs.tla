----------------------------- MODULE SignaturesProofs ---------------------------
(***************************************************************************)
(* Proofs about Signatures, for any keys, digests, rounds and messages.    *)
(* What an accumulator counts is what was signed, each honest authority    *)
(* signs one vote of a kind a round, and both together make reports and    *)
(* justifications hold elsewhere.                                          *)
(***************************************************************************)
EXTENDS Signatures, FiniteSetTheorems, TLAPS

(* The authorities are known keys, this node's is one of them, and fewer   *)
(* than a third of them are faulty.                                        *)
Signers ==
  /\ IsFiniteSet(Keys) /\ Authorities \subseteq Keys
  /\ Local \in Honest /\ Local \in Authorities
  /\ Cardinality(Authorities \ Honest) <= MaxFaultyOf(Cardinality(Authorities))
  /\ None \notin Hashes

VoteKinds == {"Prepare", "Commit"}
Choice == Hashes \cup {None}

Tallies ==
  [round_number : Rounds, threshold : {Threshold}, round_proposer : {Local}, proposal : Choice,
   prepares : [Keys -> Choice], commits : [Keys -> Choice],
   vote_counts : [Hashes -> [prepared : Nat, committed : Nat]], advance_round : SUBSET Keys,
   state : [kind : {"Begin", "Proposed", "Prepared", "Committed", "Advanced"}, digest : Choice,
            signatures : SUBSET Keys]]

Votes(a, kind) == IF kind = "Prepare" THEN a.prepares ELSE a.commits

Tallied(a) ==
  \A d \in Hashes :
    /\ a.vote_counts[d].prepared = Cardinality(Acc!VotersFor(a.prepares, d))
    /\ a.vote_counts[d].committed = Cardinality(Acc!VotersFor(a.commits, d))

(* A threshold of votes for one digest. *)
Backs(votes, state) ==
  /\ state.digest \in Hashes
  /\ state.signatures \subseteq Acc!VotersFor(votes, state.digest)
  /\ Cardinality(state.signatures) >= Threshold

Backed(a) ==
  /\ a.state.kind = "Prepared" => Backs(a.prepares, a.state)
  /\ a.state.kind = "Committed" => Backs(a.commits, a.state)

TallyGood(a, r) == a \in Tallies /\ a.round_number = r /\ Tallied(a) /\ Backed(a)

-----------------------------------------------------------------------------
(* Accumulator counts as this module does. *)
LEMMA SameCount ==
  ASSUME NEW S
  PROVE  Acc!Cardinality(S) = Cardinality(S)
BY Zenon DEF Acc!Cardinality, Cardinality

(* The number of authorities and the threshold are numbers.                *)
LEMMA ThresholdType ==
  ASSUME Signers
  PROVE  Threshold \in Int /\ Cardinality(Authorities) \in Nat
<1>1. Cardinality(Authorities) \in Nat
  BY FS_Subset, FS_CardinalityType DEF Signers
<1>2. \A n \in Nat : MaxFaultyOf(n) \in Int
  BY DEF MaxFaultyOf
<1> QED
  BY <1>1, <1>2 DEF Threshold

(* The voters of a digest are finitely many.                               *)
LEMMA VotersCount ==
  ASSUME Signers, NEW votes, NEW d
  PROVE  IsFiniteSet(Acc!VotersFor(votes, d)) /\ Cardinality(Acc!VotersFor(votes, d)) \in Nat
<1>1. Acc!VotersFor(votes, d) \subseteq Keys
  BY DEF Acc!VotersFor
<1> QED
  BY <1>1, FS_Subset, FS_CardinalityType DEF Signers

(* A first vote is one more for its digest, and none for the others. *)
LEMMA OneVoteMore ==
  ASSUME Signers, NEW votes \in [Keys -> Choice], NEW k \in Keys, votes[k] = None, NEW d \in Hashes,
         NEW new, new = [votes EXCEPT ![k] = d]
  PROVE  /\ new \in [Keys -> Choice]
         /\ \A e \in Hashes :
              /\ Acc!VotersFor(votes, e) \subseteq Acc!VotersFor(new, e)
              /\ Cardinality(Acc!VotersFor(new, e)) =
                   Cardinality(Acc!VotersFor(votes, e)) + (IF e = d THEN 1 ELSE 0)
<1>1. new \in [Keys -> Choice]
  BY DEF Choice
<1>2. None \notin Hashes
  BY DEF Signers
<1>3. Acc!VotersFor(new, d) = Acc!VotersFor(votes, d) \cup {k} /\ k \notin Acc!VotersFor(votes, d)
  BY <1>2 DEF Acc!VotersFor
<1>4. Cardinality(Acc!VotersFor(new, d)) = Cardinality(Acc!VotersFor(votes, d)) + 1
  BY <1>3, VotersCount, FS_AddElement
<1>5. ASSUME NEW e \in Hashes, e # d PROVE Acc!VotersFor(new, e) = Acc!VotersFor(votes, e)
  BY <1>2, <1>5 DEF Acc!VotersFor
<1>6. ASSUME NEW e \in Hashes
      PROVE  /\ Acc!VotersFor(votes, e) \subseteq Acc!VotersFor(new, e)
             /\ Cardinality(Acc!VotersFor(new, e)) =
                  Cardinality(Acc!VotersFor(votes, e)) + (IF e = d THEN 1 ELSE 0)
  <2>1. Cardinality(Acc!VotersFor(votes, e)) \in Nat
    BY VotersCount
  <2>2. CASE e = d
    BY <1>3, <1>4, <2>1, <2>2
  <2>3. CASE e # d
    <3>1. Acc!VotersFor(new, e) = Acc!VotersFor(votes, e)
      BY <1>5, <2>3
    <3> QED
      BY <2>1, <2>3, <3>1
  <2> QED
    BY <2>2, <2>3
<1> QED
  BY <1>1, <1>6

(* With another state, another justification. *)
LEMMA BacksMore ==
  ASSUME NEW votes, NEW new, NEW state, Backs(votes, state),
         \A e \in Hashes : Acc!VotersFor(votes, e) \subseteq Acc!VotersFor(new, e)
  PROVE  Backs(new, state)
BY DEF Backs

(* An accumulator starts a round with no vote and counts that say so.      *)
LEMMA NewTally ==
  ASSUME Signers, NEW r \in Rounds
  PROVE  /\ TallyGood(Acc!NewAccumulator(r, Threshold, Local), r)
         /\ \A kind \in VoteKinds : Votes(Acc!NewAccumulator(r, Threshold, Local), kind) = [k \in Keys |-> None]
<1> DEFINE a == Acc!NewAccumulator(r, Threshold, Local)
<1>1. a \in Tallies /\ a.round_number = r /\ a.state.kind = "Begin"
      /\ a.prepares = [k \in Keys |-> None] /\ a.commits = [k \in Keys |-> None]
      /\ a.vote_counts = [d \in Hashes |-> [prepared |-> 0, committed |-> 0]]
  BY DEF Acc!NewAccumulator, Acc!State, Tallies, Choice
<1>2. \A d \in Hashes : Acc!VotersFor([k \in Keys |-> None], d) = {}
  BY DEF Acc!VotersFor, Signers
<1> HIDE DEF a
<1>3. Tallied(a)
  BY <1>1, <1>2, FS_EmptySet DEF Tallied
<1>4. Backed(a)
  BY <1>1 DEF Backed
<1> QED
  BY <1>1, <1>3, <1>4 DEF TallyGood, Votes, a

(* What importing a message does to the votes of an accumulator. *)
Adds(a, b, k, d, kinds) ==
  \A kind \in VoteKinds :
    Votes(b, kind) = IF kind \in kinds /\ Votes(a, kind)[k] = None THEN [Votes(a, kind) EXCEPT ![k] = d]
                     ELSE Votes(a, kind)

(* import_proposal touches no vote.                                        *)
LEMMA ProposalTallied ==
  ASSUME NEW a, NEW r, TallyGood(a, r), NEW k \in Keys, NEW d \in Hashes,
         NEW b, b = Acc!ImportProposal(a, k, d)
  PROVE  TallyGood(b, r) /\ Adds(a, b, k, d, {})
<1> DEFINE st == IF a.state.kind = "Begin" THEN Acc!State("Proposed", d, {}) ELSE a.state
<1>0. a \in Tallies /\ a.round_number = r /\ Tallied(a) /\ Backed(a)
  BY DEF TallyGood
<1>1. CASE k # a.round_proposer \/ a.proposal \notin {None, d}
  BY <1>1 DEF Acc!ImportProposal, Adds
<1>2. CASE ~(k # a.round_proposer \/ a.proposal \notin {None, d})
  <2>1. b = [a EXCEPT !.proposal = d, !.state = st]
    BY <1>0, <1>2 DEF Acc!ImportProposal, Tallies
  <2>2. st \in [kind : {"Begin", "Proposed", "Prepared", "Committed", "Advanced"}, digest : Choice,
                signatures : SUBSET Keys]
    BY <1>0 DEF Tallies, Acc!State, Choice
  <2>3. st.kind = "Proposed" \/ st = a.state
    BY DEF Acc!State
  <2> HIDE DEF st
  <2>4. /\ b \in Tallies /\ b.round_number = r /\ b.state = st
        /\ b.prepares = a.prepares /\ b.commits = a.commits /\ b.vote_counts = a.vote_counts
    BY <1>0, <2>1, <2>2 DEF Tallies, Choice
  <2>5. Tallied(b)
    BY <1>0, <2>4, Zenon DEF Tallied
  <2>6. Backed(b)
    BY <1>0, <2>3, <2>4 DEF Backed
  <2> QED
    BY <2>4, <2>5, <2>6 DEF TallyGood, Adds, Votes
<1> QED
  BY <1>1, <1>2

(* import_prepare adds at most the one vote it is given, and what is       *)
(* prepared by it is backed.                                               *)
LEMMA PrepareTallied ==
  ASSUME Signers, NEW a, NEW r, TallyGood(a, r), NEW k \in Keys, NEW d \in Hashes,
         NEW b, b = Acc!ImportPrepare(a, k, d)
  PROVE  TallyGood(b, r) /\ Adds(a, b, k, d, {"Prepare"})
<1> DEFINE votes == [a.prepares EXCEPT ![k] = d]
           count == a.vote_counts[d].prepared + 1
           counts == [a.vote_counts EXCEPT ![d].prepared = count]
           st == IF count >= a.threshold /\ a.state.kind \in {"Begin", "Proposed"}
                 THEN Acc!State("Prepared", d, Acc!VotersFor(votes, d)) ELSE a.state
<1>0. a \in Tallies /\ a.round_number = r /\ Tallied(a) /\ Backed(a)
  BY DEF TallyGood
<1>1. CASE a.prepares[k] # None
  BY <1>1 DEF Acc!ImportPrepare, Adds, Votes
<1>2. CASE a.prepares[k] = None
  <2>1. b = [a EXCEPT !.prepares = votes, !.vote_counts = counts, !.state = st]
    BY <1>0, <1>2 DEF Acc!ImportPrepare, Tallies
  <2>2. /\ votes \in [Keys -> Choice]
        /\ \A e \in Hashes :
             /\ Acc!VotersFor(a.prepares, e) \subseteq Acc!VotersFor(votes, e)
             /\ Cardinality(Acc!VotersFor(votes, e)) =
                  Cardinality(Acc!VotersFor(a.prepares, e)) + (IF e = d THEN 1 ELSE 0)
    <3>1. a.prepares \in [Keys -> Choice]
      BY <1>0 DEF Tallies
    <3> QED
      BY <1>2, <3>1, OneVoteMore
  <2>3. /\ counts \in [Hashes -> [prepared : Nat, committed : Nat]]
        /\ \A e \in Hashes :
             /\ counts[e].prepared = a.vote_counts[e].prepared + (IF e = d THEN 1 ELSE 0)
             /\ counts[e].committed = a.vote_counts[e].committed
    <3>1. a.vote_counts \in [Hashes -> [prepared : Nat, committed : Nat]]
      BY <1>0 DEF Tallies
    <3> QED
      BY <3>1
  <2>4. st \in [kind : {"Begin", "Proposed", "Prepared", "Committed", "Advanced"}, digest : Choice,
                signatures : SUBSET Keys]
    BY <1>0 DEF Tallies, Acc!State, Choice, Acc!VotersFor
  <2>5. count = Cardinality(Acc!VotersFor(votes, d))
    BY <1>0, <2>2 DEF Tallied
  <2>6. (st.kind = "Prepared" /\ Backs(votes, st)) \/ st = a.state
    <3>1. CASE st = Acc!State("Prepared", d, Acc!VotersFor(votes, d)) /\ count >= a.threshold
      <4>1. a.threshold = Threshold
        BY <1>0 DEF Tallies
      <4> QED
        BY <2>5, <3>1, <4>1 DEF Backs, Acc!State
    <3> QED
      BY <3>1
  <2> HIDE DEF st, votes, count, counts
  <2>7. /\ b \in Tallies /\ b.round_number = r /\ b.state = st
        /\ b.prepares = votes /\ b.commits = a.commits /\ b.vote_counts = counts
    BY <1>0, <2>1, <2>2, <2>3, <2>4, Zenon DEF Tallies
  <2>8. Tallied(b)
    BY <1>0, <2>2, <2>3, <2>7 DEF Tallied
  <2>9. Backed(b)
    <3>1. a.state.kind = "Prepared" => Backs(votes, a.state)
      BY <1>0, <2>2, BacksMore DEF Backed
    <3> QED
      BY <1>0, <2>6, <2>7, <3>1 DEF Backed
  <2> QED
    BY <1>2, <2>7, <2>8, <2>9 DEF TallyGood, Adds, Votes, votes
<1> QED
  BY <1>1, <1>2

(* import_commit, likewise.                                                *)
LEMMA CommitTallied ==
  ASSUME Signers, NEW a, NEW r, TallyGood(a, r), NEW k \in Keys, NEW d \in Hashes,
         NEW b, b = Acc!ImportCommit(a, k, d)
  PROVE  TallyGood(b, r) /\ Adds(a, b, k, d, {"Commit"})
<1> DEFINE votes == [a.commits EXCEPT ![k] = d]
           count == a.vote_counts[d].committed + 1
           counts == [a.vote_counts EXCEPT ![d].committed = count]
           st == IF count >= a.threshold
                 THEN Acc!State("Committed", d, Acc!VotersFor(votes, d)) ELSE a.state
<1>0. a \in Tallies /\ a.round_number = r /\ Tallied(a) /\ Backed(a)
  BY DEF TallyGood
<1>1. CASE a.commits[k] # None
  BY <1>1 DEF Acc!ImportCommit, Adds, Votes
<1>2. CASE a.commits[k] = None
  <2>1. b = [a EXCEPT !.commits = votes, !.vote_counts = counts, !.state = st]
    BY <1>0, <1>2 DEF Acc!ImportCommit, Tallies
  <2>2. /\ votes \in [Keys -> Choice]
        /\ \A e \in Hashes :
             /\ Acc!VotersFor(a.commits, e) \subseteq Acc!VotersFor(votes, e)
             /\ Cardinality(Acc!VotersFor(votes, e)) =
                  Cardinality(Acc!VotersFor(a.commits, e)) + (IF e = d THEN 1 ELSE 0)
    <3>1. a.commits \in [Keys -> Choice]
      BY <1>0 DEF Tallies
    <3> QED
      BY <1>2, <3>1, OneVoteMore
  <2>3. /\ counts \in [Hashes -> [prepared : Nat, committed : Nat]]
        /\ \A e \in Hashes :
             /\ counts[e].committed = a.vote_counts[e].committed + (IF e = d THEN 1 ELSE 0)
             /\ counts[e].prepared = a.vote_counts[e].prepared
    <3>1. a.vote_counts \in [Hashes -> [prepared : Nat, committed : Nat]]
      BY <1>0 DEF Tallies
    <3> QED
      BY <3>1
  <2>4. st \in [kind : {"Begin", "Proposed", "Prepared", "Committed", "Advanced"}, digest : Choice,
                signatures : SUBSET Keys]
    BY <1>0 DEF Tallies, Acc!State, Choice, Acc!VotersFor
  <2>5. count = Cardinality(Acc!VotersFor(votes, d))
    BY <1>0, <2>2 DEF Tallied
  <2>6. (st.kind = "Committed" /\ Backs(votes, st)) \/ st = a.state
    <3>1. CASE st = Acc!State("Committed", d, Acc!VotersFor(votes, d)) /\ count >= a.threshold
      <4>1. a.threshold = Threshold
        BY <1>0 DEF Tallies
      <4> QED
        BY <2>5, <3>1, <4>1 DEF Backs, Acc!State
    <3> QED
      BY <3>1
  <2> HIDE DEF st, votes, count, counts
  <2>7. /\ b \in Tallies /\ b.round_number = r /\ b.state = st
        /\ b.commits = votes /\ b.prepares = a.prepares /\ b.vote_counts = counts
    BY <1>0, <2>1, <2>2, <2>3, <2>4, Zenon DEF Tallies
  <2>8. Tallied(b)
    BY <1>0, <2>2, <2>3, <2>7 DEF Tallied
  <2>9. Backed(b)
    <3>1. a.state.kind = "Committed" => Backs(votes, a.state)
      BY <1>0, <2>2, BacksMore DEF Backed
    <3> QED
      BY <1>0, <2>6, <2>7, <3>1 DEF Backed
  <2> QED
    BY <1>2, <2>7, <2>8, <2>9 DEF TallyGood, Adds, Votes, votes, VoteKinds
<1> QED
  BY <1>1, <1>2

(* import_advance_round touches no vote.                                   *)
LEMMA AdvanceTallied ==
  ASSUME NEW a, NEW r, TallyGood(a, r), NEW k \in Keys, NEW d,
         NEW b, b = Acc!ImportAdvanceRound(a, k)
  PROVE  TallyGood(b, r) /\ Adds(a, b, k, d, {})
<1> DEFINE advance == a.advance_round \cup {k}
           st == IF Acc!Cardinality(advance) < a.threshold \/ a.state.kind \in {"Committed", "Advanced"}
                 THEN a.state
                 ELSE IF a.state.kind = "Prepared"
                      THEN Acc!State("Advanced", a.state.digest, a.state.signatures)
                      ELSE Acc!State("Advanced", None, {})
<1>0. a \in Tallies /\ a.round_number = r /\ Tallied(a) /\ Backed(a)
  BY DEF TallyGood
<1>1. b = [a EXCEPT !.advance_round = advance, !.state = st]
  BY <1>0 DEF Acc!ImportAdvanceRound, Tallies
<1>2. st \in [kind : {"Begin", "Proposed", "Prepared", "Committed", "Advanced"}, digest : Choice,
              signatures : SUBSET Keys]
  BY <1>0 DEF Tallies, Acc!State, Choice
<1>3. st.kind = "Advanced" \/ st = a.state
  BY DEF Acc!State
<1>4. advance \subseteq Keys
  BY <1>0 DEF Tallies
<1> HIDE DEF st, advance
<1>5. /\ b \in Tallies /\ b.round_number = r /\ b.state = st
      /\ b.prepares = a.prepares /\ b.commits = a.commits /\ b.vote_counts = a.vote_counts
  BY <1>0, <1>1, <1>2, <1>4 DEF Tallies
<1>6. Tallied(b)
  BY <1>0, <1>5, Zenon DEF Tallied
<1>7. Backed(b)
  BY <1>0, <1>3, <1>5 DEF Backed
<1> QED
  BY <1>5, <1>6, <1>7 DEF TallyGood, Adds, Votes

(* import_message: whatever the kind, a vote is added only for the sender, *)
(* and only when the sender had none.                                      *)
LEMMA MessageTallied ==
  ASSUME Signers, NEW a, NEW r, TallyGood(a, r), NEW m, m.round = r, m.kind \in Kinds, m.sender \in Keys,
         m.kind # "AdvanceRound" => m.digest \in Hashes,
         NEW b, b = Acc!ImportMessage(a, m)
  PROVE  TallyGood(b, r) /\ Adds(a, b, m.sender, m.digest, {m.kind})
<1>1. a.round_number = r
  BY DEF TallyGood
<1>2. CASE m.kind = "Propose"
  <2>1. b = Acc!ImportProposal(a, m.sender, m.digest)
    BY <1>1, <1>2 DEF Acc!ImportMessage
  <2>2. TallyGood(b, r) /\ Adds(a, b, m.sender, m.digest, {})
    BY <1>2, <2>1, ProposalTallied
  <2> QED
    BY <1>2, <2>2 DEF Adds, VoteKinds
<1>3. CASE m.kind = "Prepare"
  <2>1. b = Acc!ImportPrepare(a, m.sender, m.digest)
    BY <1>1, <1>3 DEF Acc!ImportMessage
  <2> QED
    BY <1>3, <2>1, PrepareTallied
<1>4. CASE m.kind = "Commit"
  <2>1. b = Acc!ImportCommit(a, m.sender, m.digest)
    BY <1>1, <1>4 DEF Acc!ImportMessage
  <2> QED
    BY <1>4, <2>1, CommitTallied
<1>5. CASE m.kind = "AdvanceRound"
  <2>1. b = Acc!ImportAdvanceRound(a, m.sender)
    BY <1>1, <1>5 DEF Acc!ImportMessage
  <2>2. TallyGood(b, r) /\ Adds(a, b, m.sender, m.digest, {})
    BY <2>1, AdvanceTallied
  <2> QED
    BY <1>5, <2>2 DEF Adds, VoteKinds
<1> QED
  BY <1>2, <1>3, <1>4, <1>5 DEF Kinds

-----------------------------------------------------------------------------
(* The inductive invariant. *)

Action(kind, r, d) == [kind |-> kind, round |-> r, hash |-> d]

Vote(s, r, kind, k) == Votes(s.acc[r], kind)[k]

Layout(s) ==
  s = [signed |-> s.signed, acc |-> s.acc, held |-> s.held, reports |-> s.reports, steps |-> s.steps]

(* An honest key signs one prepare and one commit in a round. *)
SignedOnce(S) ==
  \A kind \in VoteKinds, k \in Honest, r \in Rounds, d, e \in Hashes :
    Sign(k, Parent, Action(kind, r, d)) \in S /\ Sign(k, Parent, Action(kind, r, e)) \in S => d = e

(* A counted vote is an authority's, who signed it, and its signature is   *)
(* at hand.                                                                *)
VotesSigned(s) ==
  \A kind \in VoteKinds, r \in Rounds, k \in Keys :
    Vote(s, r, kind, k) # None =>
      /\ k \in Authorities
      /\ k \in Honest => Sign(k, Parent, Action(kind, r, Vote(s, r, kind, k))) \in s.signed
      /\ \E h \in s.held : h.kind = kind /\ h.round = r /\ h.sender = k

(* A signature at hand is that of a counted vote. *)
HeldCounted(s) ==
  \A h \in s.held : h.kind \in VoteKinds =>
    /\ h.round \in Rounds /\ h.sender \in Keys /\ Vote(s, h.round, h.kind, h.sender) # None
    /\ h.sig = Sign(h.sender, Parent, Action(h.kind, h.round, Vote(s, h.round, h.kind, h.sender)))

Convicts(r) ==
  r.kind \in {"DoublePrepare", "DoubleCommit"} =>
    EvaluateMisbehavior(r.target, Parent, r) /\ r.target \notin Honest

SigInv(s) ==
  /\ Layout(s)
  /\ s.acc \in [Rounds -> Tallies] /\ \A r \in Rounds : TallyGood(s.acc[r], r)
  /\ SignedOnce(s.signed) /\ VotesSigned(s) /\ HeldCounted(s)
  /\ \A r \in s.reports : Convicts(r)

(* A message that is imported: from an authority, which signed it. *)
Checked(s, m) ==
  /\ m.kind \in Kinds /\ m.round \in Rounds /\ m.sender \in Authorities
  /\ m.kind # "AdvanceRound" => m.digest \in Hashes
  /\ m.kind \in VoteKinds =>
       /\ m.sigs[1] = Sign(m.sender, Parent, Action(m.kind, m.round, m.digest))
       /\ m.sender \in Honest => m.sigs[1] \in s.signed

(* With the same votes and signatures, and no fewer that were signed. *)
LEMMA VotesKept ==
  ASSUME NEW s, NEW t, VotesSigned(s), HeldCounted(s),
         t.acc = s.acc, t.held = s.held, s.signed \subseteq t.signed
  PROVE  VotesSigned(t) /\ HeldCounted(t)
<1>1. \A r, kind, k : Vote(t, r, kind, k) = Vote(s, r, kind, k)
  BY Zenon DEF Vote
<1>2. VotesSigned(t)
  BY <1>1 DEF VotesSigned
<1>3. HeldCounted(t)
  BY <1>1, ZenonT(40) DEF HeldCounted
<1> QED
  BY <1>2, <1>3

(* What a signature says. *)
Says(x, k, p, kind, r, d) ==
  x.key = k /\ x.parent = p /\ x.action.kind = kind /\ x.action.round = r /\ x.action.hash = d

LEMMA SignFields ==
  ASSUME NEW k, NEW p, NEW kind, NEW r, NEW d
  PROVE  Says(Sign(k, p, Action(kind, r, d)), k, p, kind, r, d)
BY DEF Says, Sign, Action

(* The message that is sent with the signatures. *)
LEMMA MessageFields ==
  ASSUME NEW kind, NEW r, NEW d, NEW k, NEW p
  PROVE  /\ SignMessage(kind, r, d, k, p).kind = kind /\ SignMessage(kind, r, d, k, p).round = r
         /\ SignMessage(kind, r, d, k, p).digest = d /\ SignMessage(kind, r, d, k, p).sender = k
BY DEF SignMessage

(* A counted vote is for a digest.                                         *)
LEMMA VoteType ==
  ASSUME NEW s, SigInv(s), NEW r \in Rounds, NEW kind \in VoteKinds, NEW k \in Keys
  PROVE  Vote(s, r, kind, k) \in Choice
<1>1. s.acc[r] \in Tallies
  BY DEF SigInv
<1>2. s.acc[r].prepares \in [Keys -> Choice] /\ s.acc[r].commits \in [Keys -> Choice]
  BY <1>1 DEF Tallies
<1> QED
  BY <1>2 DEF Vote, Votes

(* The signature that is found for a counted vote is of this vote. *)
LEMMA HeldSigRight ==
  ASSUME NEW s, SigInv(s), NEW r \in Rounds, NEW kind \in VoteKinds, NEW k \in Keys, Vote(s, r, kind, k) # None
  PROVE  HeldSig(s, kind, r, k) = Sign(k, Parent, Action(kind, r, Vote(s, r, kind, k)))
<1> DEFINE h == CHOOSE h \in s.held : h.kind = kind /\ h.round = r /\ h.sender = k
<1>1. \E x \in s.held : x.kind = kind /\ x.round = r /\ x.sender = k
  BY DEF SigInv, VotesSigned
<1>2. h \in s.held /\ h.kind = kind /\ h.round = r /\ h.sender = k
  BY <1>1
<1>3. HeldSig(s, kind, r, k) = h.sig
  BY DEF HeldSig
<1> HIDE DEF h
<1> QED
  BY <1>2, <1>3 DEF SigInv, HeldCounted

(* A report of two votes stands. *)
LEMMA TwoVotesConvict ==
  ASSUME NEW k, NEW r, NEW kind, NEW v, NEW w, v # w, NEW name, NEW report,
         report = [target |-> k, kind |-> name, round |-> r,
                   first |-> [hash |-> v, sig |-> Sign(k, Parent, Action(kind, r, v))],
                   second |-> [hash |-> w, sig |-> Sign(k, Parent, Action(kind, r, w))]],
         (IF report.kind = "DoublePrepare" THEN "Prepare" ELSE "Commit") = kind
  PROVE  EvaluateMisbehavior(k, Parent, report)
BY DEF EvaluateMisbehavior, Verify, Sign, Action

(* What is reported of a prepare or a commit is that its sender voted for  *)
(* another block before.                                                   *)
LEMMA DoubleVoteReported ==
  ASSUME NEW a, NEW m, m.kind \in VoteKinds, Acc!Misbehavior(a, m) # None
  PROVE  /\ Votes(a, m.kind)[m.sender] \notin {None, m.digest}
         /\ Acc!Misbehavior(a, m).first = Votes(a, m.kind)[m.sender]
         /\ Acc!Misbehavior(a, m).kind = IF m.kind = "Prepare" THEN "DoublePrepare" ELSE "DoubleCommit"
BY DEF Acc!Misbehavior, Acc!Report, Votes, VoteKinds

LEMMA ReportConvicts ==
  ASSUME Signers, NEW s, SigInv(s), NEW m, Checked(s, m),
         Acc!Misbehavior(s.acc[m.round], m) # None
  PROVE  SigInv(Imported(s, m)) /\ Imported(s, m).signed = s.signed
<1> DEFINE a == s.acc[m.round]
           bad == Acc!Misbehavior(a, m)
           report == [target |-> m.sender, kind |-> bad.kind, round |-> m.round,
                      first |-> [hash |-> bad.first,
                                 sig |-> IF bad.first = None THEN m.sigs[1]
                                         ELSE HeldSig(s, m.kind, m.round, m.sender)],
                      second |-> [hash |-> m.digest, sig |-> m.sigs[1]]]
           reports == s.reports \cup {report}
           t == [s EXCEPT !.reports = reports]
<1>1. Imported(s, m) = t
  BY DEF Imported
<1>2. m.round \in Rounds /\ m.sender \in Keys /\ a.round_number = m.round /\ m.kind \in Kinds
  BY DEF Checked, Signers, SigInv, TallyGood
<1>3. Convicts(report)
  <2>1. ASSUME NEW kind \in VoteKinds, m.kind = kind,
               Votes(a, kind)[m.sender] \notin {None, m.digest},
               bad.first = Votes(a, kind)[m.sender],
               bad.kind = IF kind = "Prepare" THEN "DoublePrepare" ELSE "DoubleCommit"
        PROVE  Convicts(report)
    <3> DEFINE v == Vote(s, m.round, kind, m.sender)
    <3>1. v \notin {None, m.digest} /\ v = bad.first /\ v \in Choice
      BY <1>2, <2>1, VoteType DEF Vote
    <3>2. HeldSig(s, kind, m.round, m.sender) = Sign(m.sender, Parent, Action(kind, m.round, v))
      BY <1>2, <3>1, HeldSigRight
    <3>3. m.sigs[1] = Sign(m.sender, Parent, Action(kind, m.round, m.digest))
          /\ (m.sender \in Honest => m.sigs[1] \in s.signed) /\ m.digest \in Hashes
      BY <2>1 DEF Checked, VoteKinds
    <3>4. m.sender \in Honest => Sign(m.sender, Parent, Action(kind, m.round, v)) \in s.signed
      BY <1>2, <3>1 DEF SigInv, VotesSigned
    <3>5. m.sender \notin Honest
      <4>1. v \in Hashes /\ v # m.digest
        BY <3>1 DEF Choice
      <4> HIDE DEF v
      <4> QED
        BY <1>2, <3>3, <3>4, <4>1 DEF SigInv, SignedOnce
    <3> HIDE DEF v, bad
    <3>6. report = [target |-> m.sender, kind |-> bad.kind, round |-> m.round,
                    first |-> [hash |-> v, sig |-> Sign(m.sender, Parent, Action(kind, m.round, v))],
                    second |-> [hash |-> m.digest, sig |-> Sign(m.sender, Parent, Action(kind, m.round, m.digest))]]
      BY <2>1, <3>1, <3>2, <3>3
    <3>7. (IF report.kind = "DoublePrepare" THEN "Prepare" ELSE "Commit") = kind
      BY <2>1, <3>6 DEF VoteKinds
    <3> HIDE DEF report
    <3>8. EvaluateMisbehavior(m.sender, Parent, report)
      <4>1. v # m.digest
        BY <3>1
      <4> QED
        BY <2>1, <3>6, <3>7, <4>1, TwoVotesConvict
    <3>9. report.target = m.sender
      BY <3>6, Zenon
    <3> QED
      BY <3>5, <3>8, <3>9, Zenon DEF Convicts
  <2>2. CASE m.kind \in VoteKinds
    BY <2>1, <2>2, DoubleVoteReported
  <2>4. CASE m.kind = "Propose"
    <3>1. bad.kind \in {"ProposeOutOfTurn", "DoublePropose"}
      BY <1>2, <2>4 DEF Acc!Misbehavior, Acc!Report
    <3> QED
      BY <3>1 DEF Convicts
  <2>5. CASE m.kind = "AdvanceRound"
    BY <2>5 DEF Acc!Misbehavior
  <2> QED
    BY <1>2, <2>2, <2>4, <2>5 DEF Kinds, VoteKinds
<1> HIDE DEF report
<1>4. /\ Layout(t) /\ t.signed = s.signed /\ t.acc = s.acc /\ t.held = s.held
      /\ t.reports = s.reports \cup {report}
  BY DEF SigInv, Layout
<1> HIDE DEF t
<1>5. VotesSigned(t) /\ HeldCounted(t)
  <2>1. VotesSigned(s) /\ HeldCounted(s)
    BY Zenon DEF SigInv
  <2> QED
    BY <1>4, <2>1, VotesKept
<1> QED
  BY <1>1, <1>3, <1>4, <1>5 DEF SigInv

(* A message that is no misbehaviour is counted, with the signature it     *)
(* came with.                                                              *)
LEMMA ImportCounts ==
  ASSUME Signers, NEW s, SigInv(s), NEW m, Checked(s, m),
         Acc!Misbehavior(s.acc[m.round], m) = None
  PROVE  SigInv(Imported(s, m)) /\ Imported(s, m).signed = s.signed
<1> DEFINE a == s.acc[m.round]
           b == Acc!ImportMessage(a, m)
           new == /\ m.kind # "AdvanceRound"
                  /\ \A h \in s.held : h.kind # m.kind \/ h.round # m.round \/ h.sender # m.sender
           entry == [kind |-> m.kind, round |-> m.round, sender |-> m.sender, sig |-> m.sigs[1]]
           held == IF new THEN s.held \cup {entry} ELSE s.held
           accs == [s.acc EXCEPT ![m.round] = b]
           t == [s EXCEPT !.acc = accs, !.held = held]
<1>1. Imported(s, m) = t
  BY DEF Imported
<1>2. m.round \in Rounds /\ m.sender \in Authorities /\ m.sender \in Keys /\ m.kind \in Kinds
      /\ (m.kind # "AdvanceRound" => m.digest \in Hashes) /\ TallyGood(a, m.round)
      /\ s.acc \in [Rounds -> Tallies] /\ None \notin Hashes
  BY DEF Checked, Signers, SigInv
<1>3. TallyGood(b, m.round) /\ Adds(a, b, m.sender, m.digest, {m.kind})
  <2> HIDE DEF a, b
  <2> QED
    BY <1>2, MessageTallied DEF b
<1>4. b \in Tallies
  BY <1>3 DEF TallyGood
<1> HIDE DEF b
<1>5. /\ accs \in [Rounds -> Tallies] /\ accs[m.round] = b
      /\ \A r \in Rounds : r # m.round => accs[r] = s.acc[r]
  BY <1>2, <1>4
<1> HIDE DEF accs, held
<1>6. Layout(t) /\ t.signed = s.signed /\ t.acc = accs /\ t.held = held /\ t.reports = s.reports
  <2> DEFINE u == [s EXCEPT !.acc = accs]
  <2>1. t = [u EXCEPT !.held = held]
    OBVIOUS
  <2>2. Layout(s)
    BY DEF SigInv
  <2>3. Layout(u) /\ u.signed = s.signed /\ u.acc = accs /\ u.reports = s.reports
    BY <2>2 DEF Layout
  <2> HIDE DEF t, u
  <2>4. Layout(t) /\ t.signed = u.signed /\ t.acc = u.acc /\ t.held = held /\ t.reports = u.reports
    BY <2>1, <2>3 DEF Layout
  <2> QED
    BY <2>3, <2>4
<1> HIDE DEF t
<1>7. \A r \in Rounds : TallyGood(t.acc[r], r)
  BY <1>3, <1>5, <1>6 DEF SigInv
<1> DEFINE fresh == m.kind \in VoteKinds /\ Vote(s, m.round, m.kind, m.sender) = None
<1>8. ASSUME NEW r \in Rounds, NEW kind \in VoteKinds, NEW k \in Keys
      PROVE  Vote(t, r, kind, k) = IF fresh /\ r = m.round /\ kind = m.kind /\ k = m.sender
                                   THEN m.digest ELSE Vote(s, r, kind, k)
  <2>1. CASE r # m.round
    BY <1>5, <1>6, <2>1 DEF Vote
  <2>2. CASE r = m.round
    <3>1. Votes(b, kind) = IF kind \in {m.kind} /\ Votes(a, kind)[m.sender] = None
                           THEN [Votes(a, kind) EXCEPT ![m.sender] = m.digest] ELSE Votes(a, kind)
      BY <1>3 DEF Adds
    <3>2. Votes(a, kind) \in [Keys -> Choice]
      <4>1. a.prepares \in [Keys -> Choice] /\ a.commits \in [Keys -> Choice]
        BY <1>2 DEF TallyGood, Tallies
      <4> QED
        BY <4>1 DEF Votes
    <3>3. Vote(t, r, kind, k) = Votes(b, kind)[k] /\ Vote(s, r, kind, k) = Votes(a, kind)[k]
          /\ Vote(s, m.round, kind, m.sender) = Votes(a, kind)[m.sender]
      BY <1>5, <1>6, <2>2 DEF Vote
    <3> HIDE DEF a
    <3>4. CASE kind = m.kind /\ Votes(a, kind)[m.sender] = None
      BY <2>2, <3>1, <3>2, <3>3, <3>4
    <3>5. CASE ~(kind = m.kind /\ Votes(a, kind)[m.sender] = None)
      BY <2>2, <3>1, <3>2, <3>3, <3>5
    <3> QED
      BY <3>4, <3>5
  <2> QED
    BY <2>1, <2>2
<1>9. m.kind \in VoteKinds => (new <=> fresh)
  <2>1. ASSUME m.kind \in VoteKinds, fresh PROVE new
    BY <1>2, <2>1 DEF SigInv, HeldCounted, VoteKinds
  <2>2. ASSUME m.kind \in VoteKinds, ~fresh PROVE ~new
    BY <1>2, <2>2 DEF SigInv, VotesSigned
  <2> QED
    BY <2>1, <2>2
<1>10. s.held \subseteq held /\ (new => entry \in held) /\ (\A h \in held : h \in s.held \/ (new /\ h = entry))
  BY DEF held
<1> HIDE DEF new, fresh
<1>11. fresh => m.kind \in VoteKinds /\ m.digest \in Hashes
               /\ m.sigs[1] = Sign(m.sender, Parent, Action(m.kind, m.round, m.digest))
               /\ (m.sender \in Honest => m.sigs[1] \in s.signed)
  BY <1>2 DEF fresh, VoteKinds, Checked
<1>12. VotesSigned(t)
  <2> SUFFICES ASSUME NEW kind \in VoteKinds, NEW r \in Rounds, NEW k \in Keys, Vote(t, r, kind, k) # None
               PROVE  /\ k \in Authorities
                      /\ k \in Honest => Sign(k, Parent, Action(kind, r, Vote(t, r, kind, k))) \in t.signed
                      /\ \E h \in t.held : h.kind = kind /\ h.round = r /\ h.sender = k
    BY DEF VotesSigned
  <2>1. CASE fresh /\ r = m.round /\ kind = m.kind /\ k = m.sender
    <3>1. Vote(t, r, kind, k) = m.digest
      BY <1>8, <2>1
    <3>2. new /\ entry \in t.held
      BY <1>6, <1>9, <1>10, <1>11, <2>1
    <3>3. entry.kind = kind /\ entry.round = r /\ entry.sender = k
      BY <2>1
    <3> HIDE DEF entry
    <3> QED
      BY <1>2, <1>6, <1>11, <2>1, <3>1, <3>2, <3>3
  <2>2. CASE ~(fresh /\ r = m.round /\ kind = m.kind /\ k = m.sender)
    <3>1. Vote(t, r, kind, k) = Vote(s, r, kind, k)
      BY <1>8, <2>2
    <3>2. /\ k \in Authorities
          /\ k \in Honest => Sign(k, Parent, Action(kind, r, Vote(s, r, kind, k))) \in s.signed
          /\ \E h \in s.held : h.kind = kind /\ h.round = r /\ h.sender = k
      BY <3>1 DEF SigInv, VotesSigned
    <3> QED
      BY <1>6, <1>10, <3>1, <3>2
  <2> QED
    BY <2>1, <2>2
<1>13. HeldCounted(t)
  <2> SUFFICES ASSUME NEW h \in t.held, h.kind \in VoteKinds
               PROVE  /\ h.round \in Rounds /\ h.sender \in Keys /\ Vote(t, h.round, h.kind, h.sender) # None
                      /\ h.sig = Sign(h.sender, Parent,
                                      Action(h.kind, h.round, Vote(t, h.round, h.kind, h.sender)))
    BY DEF HeldCounted
  <2>1. CASE h \in s.held
    <3>1. /\ h.round \in Rounds /\ h.sender \in Keys /\ Vote(s, h.round, h.kind, h.sender) # None
          /\ h.sig = Sign(h.sender, Parent, Action(h.kind, h.round, Vote(s, h.round, h.kind, h.sender)))
      BY <2>1 DEF SigInv, HeldCounted
    <3>2. Vote(t, h.round, h.kind, h.sender) = Vote(s, h.round, h.kind, h.sender)
      <4>1. ~(fresh /\ h.round = m.round /\ h.kind = m.kind /\ h.sender = m.sender)
        BY <3>1 DEF fresh
      <4> QED
        BY <1>8, <3>1, <4>1
    <3> QED
      BY <3>1, <3>2
  <2>2. CASE new /\ h = entry
    <3>1. h.kind = m.kind /\ h.round = m.round /\ h.sender = m.sender /\ h.sig = m.sigs[1]
      BY <2>2
    <3> HIDE DEF entry
    <3>2. fresh
      BY <1>9, <2>2, <3>1
    <3>3. Vote(t, m.round, m.kind, m.sender) = m.digest
      BY <1>2, <1>8, <1>11, <3>2
    <3> QED
      BY <1>2, <1>11, <3>1, <3>2, <3>3
  <2> QED
    BY <1>6, <1>10, <2>1, <2>2
<1> QED
  BY <1>1, <1>5, <1>6, <1>7, <1>12, <1>13 DEF SigInv

(* Either way the invariant holds again.                                   *)
LEMMA ImportGood ==
  ASSUME Signers, NEW s, SigInv(s), NEW m, Checked(s, m)
  PROVE  SigInv(Imported(s, m)) /\ Imported(s, m).signed = s.signed
BY ReportConvicts, ImportCounts

(* The number of steps is no part of the invariant.                        *)
LEMMA CountedGood ==
  ASSUME NEW s, SigInv(s)
  PROVE  SigInv(Counted(s))
<1> DEFINE n == g.steps + 1
           t == [s EXCEPT !.steps = n]
<1>1. Layout(s)
  BY Zenon DEF SigInv
<1> HIDE DEF n
<1>2. /\ Layout(t) /\ t.signed = s.signed /\ t.acc = s.acc /\ t.held = s.held
      /\ t.reports = s.reports
  BY <1>1 DEF Layout
<1>3. t = Counted(s)
  BY DEF Counted, n
<1> HIDE DEF t
<1>4. VotesSigned(t) /\ HeldCounted(t)
  <2>1. VotesSigned(s) /\ HeldCounted(s)
    BY Zenon DEF SigInv
  <2> QED
    BY <1>2, <2>1, VotesKept
<1>5. SigInv(t)
  BY <1>2, <1>4 DEF SigInv
<1> QED
  BY <1>3, <1>5

(* The first signature of a vote is on its action. *)
LEMMA VoteSigs ==
  ASSUME NEW kind \in VoteKinds, NEW r, NEW d, NEW k, NEW p
  PROVE  /\ DOMAIN SignMessage(kind, r, d, k, p).sigs = {1}
         /\ SignMessage(kind, r, d, k, p).sigs[1] = Sign(k, p, Action(kind, r, d))
<1>1. Actions(kind, r, d) = <<Action(kind, r, d)>>
  BY DEF Actions, Action, VoteKinds
<1>2. DOMAIN <<Action(kind, r, d)>> = {1} /\ <<Action(kind, r, d)>>[1] = Action(kind, r, d)
  OBVIOUS
<1> QED
  BY <1>1, <1>2 DEF SignMessage

(* sign_message with a key that is used honestly: each vote is signed      *)
(* once, and this node counts its own.                                     *)
LEMMA SignLocalGood ==
  ASSUME Signers, SigInv(g), NEW key \in Honest, NEW parent, NEW kind \in Kinds, NEW round \in Rounds,
         NEW hash \in HashesFor(kind), SignLocal(key, parent, kind, round, hash)
  PROVE  SigInv(g')
<1> DEFINE m == SignMessage(kind, round, hash, key, parent)
           more == {m.sigs[i] : i \in DOMAIN m.sigs}
           signed == g.signed \cup more
           s == [g EXCEPT !.signed = signed]
<1>1. /\ \A sig \in g.signed : ~(sig.key = key /\ sig.parent = parent
                                  /\ sig.action.kind = kind /\ sig.action.round = round)
      /\ g' = Counted(IF key = Local /\ parent = Parent THEN Imported(s, m) ELSE s)
  BY DEF SignLocal
<1>2. ASSUME kind \in VoteKinds
      PROVE  m.sigs[1] = Sign(key, parent, Action(kind, round, hash))
             /\ more = {Sign(key, parent, Action(kind, round, hash))}
  <2> DEFINE z == Sign(key, parent, Action(kind, round, hash))
  <2>1. DOMAIN m.sigs = {1} /\ m.sigs[1] = z
    BY <1>2, VoteSigs
  <2> HIDE DEF m, z
  <2> QED
    BY <2>1 DEF z
<1>3. ASSUME kind \notin VoteKinds, NEW x \in more
      PROVE  x.action.kind \notin VoteKinds
  <2>1. PICK i \in DOMAIN Actions(kind, round, hash) : x = Sign(key, parent, Actions(kind, round, hash)[i])
    BY DEF SignMessage
  <2>2. ASSUME NEW j \in DOMAIN Actions(kind, round, hash)
        PROVE  Actions(kind, round, hash)[j].kind \notin VoteKinds
    <3>1. CASE kind = "Propose"
      BY <3>1 DEF Actions, VoteKinds
    <3>2. CASE kind # "Propose"
      BY <1>3, <3>2 DEF Actions
    <3> QED
      BY <3>1, <3>2
  <2>3. x.action = Actions(kind, round, hash)[i]
    BY <2>1 DEF Sign
  <2> QED
    BY <2>2, <2>3
<1>4. m.kind = kind /\ m.round = round /\ m.digest = hash /\ m.sender = key
  BY MessageFields
<1> HIDE DEF m, more
<1>5. SignedOnce(signed)
  <2> SUFFICES ASSUME NEW vote \in VoteKinds, NEW k \in Honest, NEW r \in Rounds, NEW d \in Hashes, NEW e \in Hashes,
                      Sign(k, Parent, Action(vote, r, d)) \in signed, Sign(k, Parent, Action(vote, r, e)) \in signed
               PROVE  d = e
    BY DEF SignedOnce
  <2> DEFINE x == Sign(k, Parent, Action(vote, r, d))
             y == Sign(k, Parent, Action(vote, r, e))
  <2>1. Says(x, k, Parent, vote, r, d) /\ Says(y, k, Parent, vote, r, e)
    BY SignFields, Zenon
  <2>2. x \in g.signed /\ y \in g.signed => d = e
    BY Zenon DEF SigInv, SignedOnce
  <2> HIDE DEF x, y
  <2>3. CASE kind \in VoteKinds
    <3> DEFINE z == Sign(key, parent, Action(kind, round, hash))
    <3>1. Says(z, key, parent, kind, round, hash)
      BY SignFields, Zenon
    <3> HIDE DEF z
    <3>2. (x \in g.signed \/ x = z) /\ (y \in g.signed \/ y = z)
      BY <1>2, <2>3 DEF x, y, z
    <3> QED
      BY <1>1, <2>1, <2>2, <3>1, <3>2 DEF Says
  <2>4. CASE kind \notin VoteKinds
    <3>1. x \notin more /\ y \notin more
      BY <1>3, <2>1, <2>4 DEF Says
    <3> QED
      BY <2>2, <3>1 DEF x, y
  <2> QED
    BY <2>3, <2>4
<1>6. more \subseteq signed /\ g.signed \subseteq signed
  OBVIOUS
<1> HIDE DEF signed
<1>7. /\ Layout(s) /\ s.signed = signed /\ s.acc = g.acc /\ s.held = g.held /\ s.reports = g.reports
  <2>1. Layout(g)
    BY Zenon DEF SigInv
  <2> QED
    BY <2>1 DEF Layout
<1> HIDE DEF s
<1>8. VotesSigned(g) /\ HeldCounted(g)
  BY Zenon DEF SigInv
<1>9. VotesSigned(s) /\ HeldCounted(s)
  BY <1>6, <1>7, <1>8, VotesKept
<1>10. SigInv(s)
  BY <1>5, <1>7, <1>9 DEF SigInv
<1>11. CASE key = Local /\ parent = Parent
  <2>1. kind \in VoteKinds => m.sigs[1] = Sign(key, Parent, Action(kind, round, hash)) /\ m.sigs[1] \in signed
    BY <1>2, <1>6, <1>11
  <2>2. Checked(s, m)
    BY <1>4, <1>7, <1>11, <2>1 DEF Checked, HashesFor, Signers
  <2> QED
    BY <1>1, <1>10, <1>11, <2>2, ImportGood, CountedGood
<1>12. CASE ~(key = Local /\ parent = Parent)
  BY <1>1, <1>10, <1>12, CountedGood
<1> QED
  BY <1>11, <1>12

(* check_* and then the import: what did not carry its sender's signature  *)
(* changes nothing.                                                        *)
LEMMA ReceiveGood ==
  ASSUME Signers, SigInv(g), NEW kind \in Kinds, NEW parent, NEW says \in Claims(kind), NEW was \in Claims(kind),
         Receive(says, was, parent)
  PROVE  SigInv(g')
<1> DEFINE sigs == SignMessage(was.kind, was.round, was.hash, was.key, parent).sigs
           m == [SignMessage(says.kind, says.round, says.hash, says.key, Parent) EXCEPT !.sigs = sigs]
<1>1. /\ was.key \in Honest => \A i \in DOMAIN m.sigs : m.sigs[i] \in g.signed
      /\ g' = Counted(Processed(g, m))
  BY DEF Receive
<1>2. m.kind = kind /\ m.round = says.round /\ m.digest = says.hash /\ m.sender = says.key /\ m.sigs = sigs
  BY DEF SignMessage, Claims
<1>3. was.kind = kind /\ says.round \in Rounds /\ says.hash \in HashesFor(kind)
  BY DEF Claims
<1> HIDE DEF m
<1>4. ASSUME IF m.kind = "Propose" THEN CheckProposal(m, Parent) ELSE CheckVote(m, Parent)
      PROVE  Checked(g, m)
  <2>1. m.sender \in Authorities
    BY <1>4 DEF CheckProposal, CheckVote
  <2>2. ASSUME kind \in VoteKinds
        PROVE  /\ m.sigs[1] = Sign(m.sender, Parent, Action(m.kind, m.round, m.digest))
               /\ m.sender \in Honest => m.sigs[1] \in g.signed
    <3>1. CheckVote(m, Parent)
      BY <1>2, <1>4, <2>2 DEF VoteKinds
    <3>2. Actions(m.kind, m.round, m.digest)[1] = Action(m.kind, m.round, m.digest)
      BY <1>2, <2>2 DEF Actions, Action, VoteKinds
    <3>3. m.sigs[1] = Sign(m.sender, Parent, Action(m.kind, m.round, m.digest))
      BY <3>1, <3>2 DEF CheckVote, CheckAction, Verify
    <3> DEFINE z == Sign(was.key, parent, Action(kind, was.round, was.hash))
    <3>4. DOMAIN sigs = {1} /\ sigs[1] = z
      BY <1>3, <2>2, VoteSigs
    <3>5. z.key = was.key /\ m.sigs[1].key = m.sender
      BY <3>3 DEF Sign
    <3> HIDE DEF z, sigs
    <3>6. m.sigs[1] = z /\ 1 \in DOMAIN m.sigs
      BY <1>2, <3>4
    <3> QED
      BY <1>1, <3>3, <3>5, <3>6
  <2> QED
    BY <1>2, <1>3, <2>1, <2>2 DEF Checked, HashesFor
<1>5. SigInv(Processed(g, m))
  <2>1. CASE /\ m.sender # Local
             /\ IF m.kind = "Propose" THEN CheckProposal(m, Parent) ELSE CheckVote(m, Parent)
    <3>1. Processed(g, m) = Imported(g, m)
      BY <2>1 DEF Processed
    <3> QED
      BY <1>4, <2>1, <3>1, ImportGood
  <2>2. CASE ~(/\ m.sender # Local
               /\ IF m.kind = "Propose" THEN CheckProposal(m, Parent) ELSE CheckVote(m, Parent))
    <3>1. Processed(g, m) = g
      BY <2>2 DEF Processed
    <3> QED
      BY <3>1
  <2> QED
    BY <2>1, <2>2
<1> QED
  BY <1>1, <1>5, CountedGood

-----------------------------------------------------------------------------
(* max_faulty_of leaves more than two thirds.                              *)
LEMMA ThirdFaulty ==
  ASSUME NEW n \in Nat \ {0}
  PROVE  MaxFaultyOf(n) \in Nat /\ n > 3 * MaxFaultyOf(n)
BY DEF MaxFaultyOf

(* Two thresholds of authorities have an honest one in common. *)
LEMMA ThresholdsMeet ==
  ASSUME Signers, NEW S \in SUBSET Authorities, NEW T \in SUBSET Authorities,
         Cardinality(S) >= Threshold, Cardinality(T) >= Threshold
  PROVE  \E k \in Honest : k \in S /\ k \in T
<1> DEFINE F == Authorities \ Honest
           n == Cardinality(Authorities)
           f == MaxFaultyOf(n)
<1>1. IsFiniteSet(Authorities)
  BY FS_Subset DEF Signers
<1>2. IsFiniteSet(S) /\ IsFiniteSet(T) /\ IsFiniteSet(F) /\ IsFiniteSet(S \cup T) /\ IsFiniteSet(S \cap T)
  BY <1>1, FS_Subset
<1>3. Cardinality(S \cup T) = Cardinality(S) + Cardinality(T) - Cardinality(S \cap T)
  BY <1>2, FS_Union
<1>4. Cardinality(S \cup T) <= n
  BY <1>1, FS_Subset
<1>5. /\ Cardinality(S) \in Nat /\ Cardinality(T) \in Nat /\ n \in Nat /\ Cardinality(S \cap T) \in Nat
      /\ Cardinality(F) \in Nat /\ Cardinality(S \cup T) \in Nat
  BY <1>1, <1>2, FS_CardinalityType
<1>6. n # 0
  BY <1>1, FS_EmptySet DEF Signers
<1>7. f \in Nat /\ n > 3 * f
  BY <1>5, <1>6, ThirdFaulty
<1>8. Threshold = n - f /\ Cardinality(F) <= f
  BY DEF Threshold, Signers
<1> HIDE DEF f, n
<1>9. Cardinality(S \cap T) > Cardinality(F)
  <2>1. Cardinality(S) >= n - f /\ Cardinality(T) >= n - f
    BY <1>8
  <2> QED
    BY <1>3, <1>4, <1>5, <1>7, <1>8, <2>1
<1>10. ~(S \cap T \subseteq F)
  <2> SUFFICES ASSUME S \cap T \subseteq F PROVE FALSE
    OBVIOUS
  <2>1. Cardinality(S \cap T) <= Cardinality(F)
    BY <1>2, FS_Subset
  <2> HIDE DEF F
  <2> QED
    BY <1>5, <1>9, <2>1
<1> QED
  BY <1>10

(* A set of records, one for each of a finite set of keys, has as many. *)
Labelled(R, S, sig) == R = {[signer |-> a, sig |-> sig[a]] : a \in S}

LEMMA OnePerKey ==
  ASSUME NEW S, IsFiniteSet(S), NEW sig,
         NEW R, Labelled(R, S, sig)
  PROVE  {x.signer : x \in R} = S /\ Cardinality(R) = Cardinality(S)
<1> DEFINE f == [a \in S |-> [signer |-> a, sig |-> sig[a]]]
<1>1. f \in [S -> R] /\ \A x \in R : \E a \in S : f[a] = x
  BY DEF Labelled
<1>0. \A a \in S : f[a].signer = a
  OBVIOUS
<1> HIDE DEF f
<1>2. ASSUME NEW a \in S, NEW b \in S, f[a] = f[b] PROVE a = b
  BY <1>0, <1>2
<1>3. f \in Bijection(S, R)
  BY <1>1, <1>2 DEF Bijection, Injection, Surjection, IsInjective
<1>4. ExistsBijection(S, R)
  BY <1>3 DEF ExistsBijection
<1>5. Cardinality(R) = Cardinality(S)
  BY <1>4, FS_Bijection
<1>6. {x.signer : x \in R} = S
  <2>1. ASSUME NEW a \in S PROVE a \in {x.signer : x \in R}
    BY <1>0, <1>1
  <2>2. ASSUME NEW y \in {x.signer : x \in R} PROVE y \in S
    BY <1>0, <1>1
  <2> QED
    BY <2>1, <2>2
<1> QED
  BY <1>5, <1>6

(* The justification that an accumulator stands for is accepted. *)
LEMMA JustificationPasses ==
  ASSUME Signers, SigInv(g), NEW r \in Rounds, NEW kind \in VoteKinds,
         Backs(Votes(g.acc[r], kind), g.acc[r].state)
  PROVE  CheckSigned(JustificationOf(r, kind), Parent, kind)
<1> DEFINE state == g.acc[r].state
           sig == [a \in state.signatures |-> HeldSig(g, kind, r, a)]
           R == {[signer |-> a, sig |-> HeldSig(g, kind, r, a)] : a \in state.signatures}
           just == JustificationOf(r, kind)
           action == [kind |-> kind, round |-> just.round, hash |-> just.digest]
           signers == {s.signer : s \in just.signatures}
           accepted == {s.signer : s \in {t \in just.signatures :
                          t.signer \in Authorities /\ Verify(t.sig, Parent, action, t.signer)}}
<1>1. just.round = r /\ just.digest = state.digest /\ just.signatures = R
  BY ZenonT(40) DEF JustificationOf
<1>2. state.digest \in Hashes /\ state.signatures \subseteq Acc!VotersFor(Votes(g.acc[r], kind), state.digest)
      /\ Cardinality(state.signatures) >= Threshold
  BY ZenonT(40) DEF Backs
<1> HIDE DEF state, just
<1>3. ASSUME NEW a \in state.signatures
      PROVE  a \in Authorities /\ HeldSig(g, kind, r, a) = Sign(a, Parent, Action(kind, r, state.digest))
  <2>1. a \in Keys /\ Vote(g, r, kind, a) = state.digest /\ state.digest # None
    <3>1. a \in Keys /\ Votes(g.acc[r], kind)[a] = state.digest
      BY <1>2 DEF Acc!VotersFor
    <3> QED
      BY <1>2, <3>1, Zenon DEF Vote, Signers
  <2>2. a \in Authorities
    <3>1. VotesSigned(g)
      BY Zenon DEF SigInv
    <3> QED
      BY <2>1, <3>1, Zenon DEF VotesSigned
  <2> QED
    BY <2>1, <2>2, HeldSigRight
<1>4. IsFiniteSet(state.signatures)
  BY <1>2, VotersCount, FS_Subset
<1>5. Labelled(R, state.signatures, sig)
  BY ZenonT(40) DEF Labelled
<1>6. {x.signer : x \in R} = state.signatures /\ Cardinality(R) = Cardinality(state.signatures)
  <2> HIDE DEF R, sig
  <2> QED
    BY <1>4, <1>5, OnePerKey
<1>7. signers = state.signatures
  BY <1>1, <1>6
<1>8. state.signatures \subseteq accepted
  <2> SUFFICES ASSUME NEW a \in state.signatures PROVE a \in accepted
    BY ZenonT(40)
  <2> DEFINE x == [signer |-> a, sig |-> HeldSig(g, kind, r, a)]
  <2>1. x \in just.signatures /\ x.signer = a /\ x.sig = Sign(a, Parent, Action(kind, r, state.digest))
    BY <1>1, <1>3
  <2>2. action = Action(kind, r, state.digest)
    BY <1>1 DEF Action
  <2> HIDE DEF x, action
  <2> QED
    BY <1>3, <2>1, <2>2 DEF Verify
<1>9. Acc!Check([just EXCEPT !.signatures = signers], Threshold, accepted)
  <2> DEFINE j == [just EXCEPT !.signatures = signers]
  <2>1. j.signatures = signers
    BY DEF just, JustificationOf
  <2> HIDE DEF j, signers, accepted
  <2>2. Acc!Cardinality(j.signatures) >= Threshold
    BY <1>2, <1>7, <2>1, SameCount
  <2>3. j.signatures \subseteq accepted
    BY <1>7, <1>8, <2>1
  <2>4. Acc!Check(j, Threshold, accepted)
    BY <2>2, <2>3 DEF Acc!Check
  <2> QED
    BY <2>4, Zenon DEF j
<1>10. Cardinality(signers) = Cardinality(just.signatures)
  BY <1>1, <1>6, <1>7
<1> QED
  BY <1>9, <1>10, Zenon DEF CheckSigned, just

(* Two justifications of one kind and one round share an honest signer,    *)
(* who signed for one digest only.                                         *)
LEMMA OneIsMade ==
  ASSUME Signers, SigInv(g)
  PROVE  OneJustification
<1> DEFINE who(kind, r, d) == {j \in Authorities : j \notin Honest
                                 \/ Sign(j, Parent, [kind |-> kind, round |-> r, hash |-> d]) \in g.signed}
           made(kind, r, d) == {[signer |-> k, sig |-> Sign(k, Parent, [kind |-> kind, round |-> r, hash |-> d])] :
                                  k \in who(kind, r, d)}
           just(kind, r, d) == [round |-> r, digest |-> d, signatures |-> made(kind, r, d)]
<1>1. ASSUME NEW kind, NEW r, NEW d, CheckSigned(just(kind, r, d), Parent, kind)
      PROVE  Cardinality(who(kind, r, d)) >= Threshold
  <2> DEFINE S == who(kind, r, d)
             sig == [k \in S |-> Sign(k, Parent, [kind |-> kind, round |-> r, hash |-> d])]
             x == just(kind, r, d)
             signers == {s.signer : s \in x.signatures}
             y == [x EXCEPT !.signatures = signers]
  <2>1. Labelled(x.signatures, S, sig)
    BY ZenonT(40) DEF Labelled
  <2>2. IsFiniteSet(S)
    <3>1. S \subseteq Keys
      BY DEF Signers
    <3> QED
      BY <3>1, FS_Subset DEF Signers
  <2>3. y.signatures = signers
    OBVIOUS
  <2>4. \E accepted : Acc!Check(y, Threshold, accepted)
    <3> HIDE DEF just
    <3> QED
      BY <1>1, Zenon DEF CheckSigned
  <2> HIDE DEF S, sig, x, y
  <2>5. signers = S
    BY <2>1, <2>2, OnePerKey
  <2> HIDE DEF signers
  <2>6. Acc!Cardinality(S) >= Threshold
    BY <2>3, <2>4, <2>5 DEF Acc!Check
  <2> QED
    BY <2>6, SameCount DEF S
<1> HIDE DEF made, just
<1>2. ASSUME NEW kind \in VoteKinds, NEW r \in Rounds, NEW d \in Hashes, NEW e \in Hashes,
             CheckSigned(just(kind, r, d), Parent, kind), CheckSigned(just(kind, r, e), Parent, kind)
      PROVE  d = e
  <2>0. who(kind, r, d) \in SUBSET Authorities /\ who(kind, r, e) \in SUBSET Authorities
    OBVIOUS
  <2> HIDE DEF who
  <2>1. Cardinality(who(kind, r, d)) >= Threshold /\ Cardinality(who(kind, r, e)) >= Threshold
    BY <1>1, <1>2, ZenonT(40)
  <2>2. PICK k \in Honest : k \in who(kind, r, d) /\ k \in who(kind, r, e)
    BY <2>1, <2>0, ThresholdsMeet
  <2>3. Sign(k, Parent, Action(kind, r, d)) \in g.signed /\ Sign(k, Parent, Action(kind, r, e)) \in g.signed
    BY <2>2 DEF Action, who
  <2> QED
    BY <2>3, Zenon DEF SigInv, SignedOnce
<1> QED
  BY <1>2, ZenonT(40) DEF OneJustification, VoteKinds, made, just

(* The invariant implies the three parts of SignaturesSound.               *)
LEMMA InvariantSound ==
  ASSUME Signers, SigInv(g)
  PROVE  SignaturesSound
<1>1. ReportsConfirmed
  BY DEF SigInv, Convicts, ReportsConfirmed, Filed
<1>2. JustificationsAccepted
  <2> SUFFICES ASSUME NEW r \in Rounds
               PROVE  /\ g.acc[r].state.kind = "Committed" =>
                           CheckSigned(JustificationOf(r, "Commit"), Parent, "Commit")
                      /\ g.acc[r].state.kind = "Prepared" =>
                           CheckSigned(JustificationOf(r, "Prepare"), Parent, "Prepare")
    BY DEF JustificationsAccepted, JustifiedHeader, CheckJustification, CheckPrepareJustification
  <2>1. Backed(g.acc[r])
    BY DEF SigInv, TallyGood
  <2>2. Votes(g.acc[r], "Commit") = g.acc[r].commits /\ Votes(g.acc[r], "Prepare") = g.acc[r].prepares
        /\ "Commit" \in VoteKinds /\ "Prepare" \in VoteKinds
    BY DEF Votes, VoteKinds
  <2> QED
    BY <2>1, <2>2, JustificationPasses DEF Backed
<1> QED
  BY <1>1, <1>2, OneIsMade DEF SignaturesSound

(* Whatever the faulty authorities sign and send: a report of a double     *)
(* vote stands up to evaluate_misbehavior, what an accumulator takes as    *)
(* prepared or committed is a justification that check_justification and   *)
(* check_prepare_justification accept, and all the signatures that exist   *)
(* make justifications for one digest only in a round.                     *)
THEOREM SignaturesSoundHolds ==
  ASSUME Signers
  PROVE  Spec => []SignaturesSound
<1>1. Init => SigInv(g)
  <2> SUFFICES ASSUME Init PROVE SigInv(g)
    OBVIOUS
  <2> DEFINE new(r) == Acc!NewAccumulator(r, Threshold, Local)
  <2>1. Layout(g) /\ g.signed = {} /\ g.acc = [r \in Rounds |-> new(r)] /\ g.held = {} /\ g.reports = {}
    BY DEF Init, Layout
  <2>2. ASSUME NEW r \in Rounds
        PROVE  TallyGood(new(r), r) /\ \A kind \in VoteKinds : Votes(new(r), kind) = [k \in Keys |-> None]
    BY NewTally
  <2> HIDE DEF new
  <2>3. g.acc \in [Rounds -> Tallies] /\ \A r \in Rounds : TallyGood(g.acc[r], r)
    BY <2>1, <2>2 DEF TallyGood
  <2>4. \A kind \in VoteKinds, r \in Rounds, k \in Keys : Vote(g, r, kind, k) = None
    BY <2>1, <2>2 DEF Vote
  <2>5. VotesSigned(g) /\ HeldCounted(g) /\ SignedOnce(g.signed)
    BY <2>1, <2>4 DEF VotesSigned, HeldCounted, SignedOnce
  <2> QED
    BY <2>1, <2>3, <2>5 DEF SigInv
<1>2. SigInv(g) /\ [Next]_g => SigInv(g)'
  <2> SUFFICES ASSUME SigInv(g), [Next]_g PROVE SigInv(g')
    OBVIOUS
  <2>1. CASE UNCHANGED g
    BY <2>1
  <2>2. CASE Next
    BY <2>2, SignLocalGood, ReceiveGood DEF Next
  <2> QED
    BY <2>1, <2>2
<1>3. SigInv(g) => SignaturesSound
  BY InvariantSound
<1> QED
  BY <1>1, <1>2, <1>3, PTL DEF Spec
=============================================================================
