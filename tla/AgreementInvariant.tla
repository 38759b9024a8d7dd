------------------------ MODULE AgreementInvariant -------------------------
(***************************************************************************)
(* The inductive invariant of Agreement, and that what an honest authority *)
(* receives, sends and goes on to preserves it.  AgreementProofs has the   *)
(* calls of a poll and the theorems.                                       *)
(***************************************************************************)
EXTENDS Agreement, FiniteSetTheorems, TLAPS

Option(S) == S \cup {None}

Kinds == {"Begin", "Proposed", "Prepared", "Committed", "Advanced"}

LocalStates ==
  {"Start", "Proposed", "PreparedValid", "PreparedInvalid", "Committed", "VoteAdvance"}

Accumulators ==
  [round_number : Rounds, threshold : {bft_threshold}, round_proposer : Authorities,
   proposal : Option(Digests),
   prepares : [Authorities -> Option(Digests)], commits : [Authorities -> Option(Digests)],
   vote_counts : [Digests -> [prepared : Nat, committed : Nat]],
   advance_round : SUBSET Authorities,
   state : [kind : Kinds, digest : Option(Digests), signatures : SUBSET Authorities]]

Cast(kind, r, n, d) == [kind |-> kind, round |-> r, sender |-> n, digest |-> d]

(* The counts are those of the votes. *)
Counted(a) ==
  \A d \in Digests :
    /\ a.vote_counts[d].prepared = Cardinality(VotersFor(a.prepares, d))
    /\ a.vote_counts[d].committed = Cardinality(VotersFor(a.commits, d))

(* The state stands for a proposal or for a threshold of votes. *)
Justified(a) ==
  /\ a.state.kind = "Proposed" => a.state.digest = a.proposal /\ a.proposal # None
  /\ a.state.kind \in {"Prepared", "Committed"} => a.state.digest # None
  /\ a.state.kind \in {"Prepared", "Advanced"} /\ a.state.digest # None =>
       /\ a.state.signatures \subseteq VotersFor(a.prepares, a.state.digest)
       /\ Cardinality(a.state.signatures) >= bft_threshold
  /\ a.state.kind = "Committed" => Cardinality(VotersFor(a.commits, a.state.digest)) >= bft_threshold

(* What it holds of honest authorities, they have sent. *)
Heard(a, S) ==
  /\ a.proposal # None /\ a.round_proposer \in Honest =>
       Cast("Propose", a.round_number, a.round_proposer, a.proposal) \in S
  /\ \A n \in Honest : a.prepares[n] # None =>
       Cast("Prepare", a.round_number, n, a.prepares[n]) \in S
  /\ \A n \in Honest : a.commits[n] # None =>
       Cast("Commit", a.round_number, n, a.commits[n]) \in S

Good(a, r, S) ==
  /\ a \in Accumulators /\ a.round_number = r /\ a.round_proposer = Proposer(r)
  /\ Counted(a) /\ Justified(a) /\ Heard(a, S)

Sorts == {"Propose", "Prepare", "Commit"}

Calls == {"propose", "prepare", "commit", "vote_advance", "conclude"}

NoVote(kind, n, r, S) == \A d \in Digests : Cast(kind, r, n, d) \notin S

(* One vote of a kind in a round. *)
Unique(S) ==
  \A kind \in Sorts, n \in Honest, r \in Rounds, d, e \in Digests :
    Cast(kind, r, n, d) \in S /\ Cast(kind, r, n, e) \in S => d = e

InTurn(S) ==
  \A n \in Honest, r \in Rounds, d \in Digests :
    Cast("Propose", r, n, d) \in S => n = Proposer(r)

(* The accumulators of every authority. *)
AllGood(accs, futures, S) ==
  /\ accs \in [Honest -> Accumulators]
  /\ futures \in [Honest -> [Rounds -> Option(Accumulators)]]
  /\ \A n \in Honest :
       /\ Good(accs[n], accs[n].round_number, S)
       /\ \A r \in Rounds : futures[n][r] # None => Good(futures[n][r], r, S)

(* What an authority has not sent yet, given its round and local state. *)
Quiet(n, r, ls, S) ==
  /\ \A kind \in Sorts, q \in Rounds : q > r => NoVote(kind, n, q, S)
  /\ ls = "Start" => NoVote("Propose", n, r, S)
  /\ ls \in {"Start", "Proposed"} => NoVote("Prepare", n, r, S)
  /\ ls \notin {"Committed", "VoteAdvance"} => NoVote("Commit", n, r, S)

AllQuiet == \A n \in Honest : Quiet(n, Round(n), local_state[n], sent)

(* Votes and CandidateKnown, of any set of messages. *)
VotesIn(S, kind) ==
  {<<m.sender, m.round, m.digest>> : m \in {c \in S : ~IsLockProof(c) /\ c.kind = kind}}

Known(con, S) ==
  \A n \in Honest : con[n] # None =>
    \/ con[n].candidate # None
    \/ \A r \in Rounds : Cast("Prepare", r, n, con[n].digest) \notin S

Checked(just) == Check(just, bft_threshold, Prepared(just.round, just.digest))

(* A candidate that was voted for is still at hand. *)
Remembered ==
  \A n \in Honest, r \in Rounds, d \in Digests :
    Cast("Prepare", r, n, d) \in sent => d \in {acc[n].proposal} \cup notable[n]

Types ==
  /\ local_state \in [Honest -> LocalStates]
  /\ locked \in [Honest -> Option(Justification(Rounds))]
  /\ notable \in [Honest -> SUBSET Digests]
  /\ accused \in [Honest -> SUBSET Authorities]
  /\ concluded \in [Honest -> Option([digest : Digests, candidate : Option(Digests)])]
  /\ sent \subseteq Message(Rounds, Honest) \cup Justification(Rounds)

PollTypes ==
  \/ polling = Idle
  \/ /\ polling \in [who : Honest, call : Calls, watermark : Rounds \X LocalStates]
     /\ concluded[polling.who] = None

AgreementInv ==
  /\ Types /\ PollTypes
  /\ AllGood(acc, future, sent)
  /\ AllQuiet /\ Unique(sent) /\ InTurn(sent)
  /\ Remembered
  /\ HonestNotAccused
  /\ LockProofsCheckOut
  /\ Known(concluded, sent)

-----------------------------------------------------------------------------
(* Accumulators. *)

LEMMA Threshold == bft_threshold \in Int
  BY AuthoritiesAssumption, MaxFaultyAssumption, FS_CardinalityType DEF bft_threshold

(* The voters are finitely many. *)
LEMMA VotersFinite ==
  ASSUME NEW votes, NEW d
  PROVE  IsFiniteSet(VotersFor(votes, d)) /\ Cardinality(VotersFor(votes, d)) \in Nat
<1>1. VotersFor(votes, d) \subseteq Authorities
  BY DEF VotersFor
<1> QED
  BY <1>1, AuthoritiesAssumption, FS_Subset, FS_CardinalityType

(* A first vote is one more for its digest, and none for the others. *)
LEMMA OneMoreVote ==
  ASSUME NEW votes \in [Authorities -> Option(Digests)], NEW s \in Authorities, votes[s] = None,
         NEW d \in Digests
  PROVE  LET new == [votes EXCEPT ![s] = d]
         IN  /\ new \in [Authorities -> Option(Digests)]
             /\ \A e \in Digests :
                  /\ VotersFor(votes, e) \subseteq VotersFor(new, e)
                  /\ Cardinality(VotersFor(new, e)) =
                       Cardinality(VotersFor(votes, e)) + (IF e = d THEN 1 ELSE 0)
<1> DEFINE new == [votes EXCEPT ![s] = d]
<1>1. new \in [Authorities -> Option(Digests)]
  BY DEF Option
<1>2. None \notin Digests
  BY NoneAssumption
<1>3. VotersFor(new, d) = VotersFor(votes, d) \cup {s} /\ s \notin VotersFor(votes, d)
  BY <1>2 DEF VotersFor
<1>4. Cardinality(VotersFor(new, d)) = Cardinality(VotersFor(votes, d)) + 1
  BY <1>3, VotersFinite, FS_AddElement
<1>5. ASSUME NEW e \in Digests, e # d PROVE VotersFor(new, e) = VotersFor(votes, e)
  BY <1>2, <1>5 DEF VotersFor
<1>6. ASSUME NEW e \in Digests
      PROVE  /\ VotersFor(votes, e) \subseteq VotersFor(new, e)
             /\ Cardinality(VotersFor(new, e)) = Cardinality(VotersFor(votes, e)) + (IF e = d THEN 1 ELSE 0)
  <2>1. Cardinality(VotersFor(votes, e)) \in Nat
    BY VotersFinite
  <2> HIDE DEF new
  <2>2. CASE e = d
    BY <1>3, <1>4, <2>1, <2>2
  <2>3. CASE e # d
    BY <1>5, <2>1, <2>3
  <2> QED
    BY <2>2, <2>3
<1> QED
  BY <1>1, <1>6, Zenon

LEMMA NewGood ==
  ASSUME NEW r \in Rounds, NEW S
  PROVE  Good(New(r), r, S)
<1> DEFINE a == New(r)
<1>1. a \in Accumulators /\ a.round_number = r /\ a.round_proposer = Proposer(r)
  BY ProposerAssumption DEF New, NewAccumulator, State, Accumulators, Kinds, Option
<1>2. \A d \in Digests : VotersFor([n \in Authorities |-> None], d) = {}
  BY NoneAssumption DEF VotersFor
<1>3. Counted(a)
  BY <1>2, FS_EmptySet, ZenonT(40) DEF Counted, New, NewAccumulator
<1>4. Justified(a) /\ Heard(a, S)
  BY HonestAssumption DEF Justified, Heard, New, NewAccumulator, State
<1> QED
  BY <1>1, <1>3, <1>4 DEF Good

(* A later proposal or vote only adds to what was heard. *)
LEMMA ImportProposalGood ==
  ASSUME NEW a, NEW r \in Rounds, NEW S, Good(a, r, S), NEW s \in Authorities, NEW d \in Digests,
         s \in Honest => Cast("Propose", r, s, d) \in S
  PROVE  LET b == ImportProposal(a, s, d)
         IN  Good(b, r, S) /\ (a.proposal # None => b.proposal = a.proposal)
<1> DEFINE b == ImportProposal(a, s, d)
           st == IF a.state.kind = "Begin" THEN State("Proposed", d, {}) ELSE a.state
<1>0. /\ a \in Accumulators /\ a.round_number = r /\ a.round_proposer = Proposer(r)
      /\ Counted(a) /\ Justified(a) /\ Heard(a, S)
  BY DEF Good
<1>1. CASE s # a.round_proposer \/ a.proposal \notin {None, d}
  BY <1>1 DEF ImportProposal
<1>2. CASE ~(s # a.round_proposer \/ a.proposal \notin {None, d})
  <2>1. b = [a EXCEPT !.proposal = d, !.state = st]
    BY <1>0, <1>2 DEF ImportProposal, Accumulators
  <2>2. st \in [kind : Kinds, digest : Option(Digests), signatures : SUBSET Authorities]
    BY <1>0 DEF Accumulators, State, Kinds, Option
  <2>3. st = State("Proposed", d, {}) \/ (st = a.state /\ st.kind # "Begin")
    OBVIOUS
  <2> HIDE DEF b, st
  <2>4. /\ b \in Accumulators /\ b.round_number = r /\ b.round_proposer = Proposer(r)
        /\ b.proposal = d /\ b.state = st
        /\ b.prepares = a.prepares /\ b.commits = a.commits /\ b.vote_counts = a.vote_counts
    BY <1>0, <2>1, <2>2 DEF Accumulators, Option
  <2>5. Counted(b)
    BY <1>0, <2>4 DEF Counted
  <2>6. Justified(b)
    BY <1>0, <1>2, <2>3, <2>4, NoneAssumption DEF Justified, State
  <2>7. Heard(b, S)
    BY <1>0, <1>2, <2>4 DEF Heard
  <2> QED
    BY <1>2, <2>4, <2>5, <2>6, <2>7 DEF Good, b
<1> QED
  BY <1>1, <1>2

LEMMA ImportPrepareGood ==
  ASSUME NEW a, NEW r \in Rounds, NEW S, Good(a, r, S), NEW s \in Authorities, NEW d \in Digests,
         s \in Honest => Cast("Prepare", r, s, d) \in S
  PROVE  LET b == ImportPrepare(a, s, d)
         IN  Good(b, r, S) /\ b.proposal = a.proposal
<1> DEFINE b == ImportPrepare(a, s, d)
           votes == [a.prepares EXCEPT ![s] = d]
           count == a.vote_counts[d].prepared + 1
           counts == [a.vote_counts EXCEPT ![d].prepared = count]
           st == IF count >= a.threshold /\ a.state.kind \in {"Begin", "Proposed"}
                 THEN State("Prepared", d, VotersFor(votes, d)) ELSE a.state
<1>0. /\ a \in Accumulators /\ a.round_number = r /\ a.round_proposer = Proposer(r)
      /\ Counted(a) /\ Justified(a) /\ Heard(a, S)
  BY DEF Good
<1>1. CASE a.prepares[s] # None
  BY <1>1 DEF ImportPrepare
<1>2. CASE a.prepares[s] = None
  <2>1. b = [a EXCEPT !.prepares = votes, !.vote_counts = counts, !.state = st]
    BY <1>0, <1>2 DEF ImportPrepare, Accumulators
  <2>2. /\ votes \in [Authorities -> Option(Digests)]
        /\ \A e \in Digests :
             /\ VotersFor(a.prepares, e) \subseteq VotersFor(votes, e)
             /\ Cardinality(VotersFor(votes, e)) =
                  Cardinality(VotersFor(a.prepares, e)) + (IF e = d THEN 1 ELSE 0)
    <3>1. a.prepares \in [Authorities -> Option(Digests)]
      BY <1>0 DEF Accumulators
    <3> QED
      BY <1>2, <3>1, OneMoreVote
  <2>3. /\ counts \in [Digests -> [prepared : Nat, committed : Nat]]
        /\ \A e \in Digests :
             /\ counts[e].prepared = a.vote_counts[e].prepared + (IF e = d THEN 1 ELSE 0)
             /\ counts[e].committed = a.vote_counts[e].committed
    <3>1. a.vote_counts \in [Digests -> [prepared : Nat, committed : Nat]]
      BY <1>0 DEF Accumulators
    <3> QED
      BY <3>1
  <2>4. st \in [kind : Kinds, digest : Option(Digests), signatures : SUBSET Authorities]
    BY <1>0 DEF Accumulators, State, Kinds, Option, VotersFor
  <2>5. \/ /\ st = State("Prepared", d, VotersFor(votes, d))
           /\ count >= bft_threshold
        \/ st = a.state
    BY <1>0 DEF Accumulators
  <2>6. count = Cardinality(VotersFor(votes, d))
    BY <1>0, <2>2 DEF Counted
  <2>7. \A n \in Authorities : votes[n] = IF n = s THEN d ELSE a.prepares[n]
    BY <1>0 DEF Accumulators
  <2> HIDE DEF b, st, votes, count, counts
  <2>8. /\ b \in Accumulators /\ b.round_number = r /\ b.round_proposer = Proposer(r)
        /\ b.proposal = a.proposal /\ b.state = st
        /\ b.prepares = votes /\ b.commits = a.commits /\ b.vote_counts = counts
    BY <1>0, <2>1, <2>2, <2>3, <2>4, Zenon DEF Accumulators
  <2>9. Counted(b)
    BY <1>0, <2>2, <2>3, <2>8 DEF Counted
  <2>10. Justified(b)
    <3>1. CASE st = State("Prepared", d, VotersFor(votes, d)) /\ count >= bft_threshold
      BY <2>6, <2>8, <3>1, NoneAssumption DEF Justified, State
    <3>2. CASE st = a.state
      <4>1. a.state.digest # None => a.state.digest \in Digests
        BY <1>0, ZenonT(40) DEF Accumulators, Option
      <4> QED
        BY <1>0, <2>2, <2>8, <3>2, <4>1 DEF Justified
    <3> QED
      BY <2>5, <3>1, <3>2
  <2>11. Heard(b, S)
    BY <1>0, <2>7, <2>8, HonestAssumption DEF Heard
  <2> QED
    BY <2>8, <2>9, <2>10, <2>11 DEF Good, b
<1> QED
  BY <1>1, <1>2

LEMMA ImportCommitGood ==
  ASSUME NEW a, NEW r \in Rounds, NEW S, Good(a, r, S), NEW s \in Authorities, NEW d \in Digests,
         s \in Honest => Cast("Commit", r, s, d) \in S
  PROVE  LET b == ImportCommit(a, s, d)
         IN  Good(b, r, S) /\ b.proposal = a.proposal
<1> DEFINE b == ImportCommit(a, s, d)
           votes == [a.commits EXCEPT ![s] = d]
           count == a.vote_counts[d].committed + 1
           counts == [a.vote_counts EXCEPT ![d].committed = count]
           st == IF count >= a.threshold THEN State("Committed", d, VotersFor(votes, d)) ELSE a.state
<1>0. /\ a \in Accumulators /\ a.round_number = r /\ a.round_proposer = Proposer(r)
      /\ Counted(a) /\ Justified(a) /\ Heard(a, S)
  BY DEF Good
<1>1. CASE a.commits[s] # None
  BY <1>1 DEF ImportCommit
<1>2. CASE a.commits[s] = None
  <2>1. b = [a EXCEPT !.commits = votes, !.vote_counts = counts, !.state = st]
    BY <1>0, <1>2 DEF ImportCommit, Accumulators
  <2>2. /\ votes \in [Authorities -> Option(Digests)]
        /\ \A e \in Digests :
             /\ VotersFor(a.commits, e) \subseteq VotersFor(votes, e)
             /\ Cardinality(VotersFor(votes, e)) =
                  Cardinality(VotersFor(a.commits, e)) + (IF e = d THEN 1 ELSE 0)
    <3>1. a.commits \in [Authorities -> Option(Digests)]
      BY <1>0 DEF Accumulators
    <3> QED
      BY <1>2, <3>1, OneMoreVote
  <2>3. /\ counts \in [Digests -> [prepared : Nat, committed : Nat]]
        /\ \A e \in Digests :
             /\ counts[e].committed = a.vote_counts[e].committed + (IF e = d THEN 1 ELSE 0)
             /\ counts[e].prepared = a.vote_counts[e].prepared
    <3>1. a.vote_counts \in [Digests -> [prepared : Nat, committed : Nat]]
      BY <1>0 DEF Accumulators
    <3> QED
      BY <3>1
  <2>4. st \in [kind : Kinds, digest : Option(Digests), signatures : SUBSET Authorities]
    BY <1>0 DEF Accumulators, State, Kinds, Option, VotersFor
  <2>5. \/ /\ st = State("Committed", d, VotersFor(votes, d))
           /\ count >= bft_threshold
        \/ st = a.state
    BY <1>0 DEF Accumulators
  <2>6. count = Cardinality(VotersFor(votes, d))
    BY <1>0, <2>2 DEF Counted
  <2>7. \A n \in Authorities : votes[n] = IF n = s THEN d ELSE a.commits[n]
    BY <1>0 DEF Accumulators
  <2> HIDE DEF b, st, votes, count, counts
  <2>8. /\ b \in Accumulators /\ b.round_number = r /\ b.round_proposer = Proposer(r)
        /\ b.proposal = a.proposal /\ b.state = st
        /\ b.commits = votes /\ b.prepares = a.prepares /\ b.vote_counts = counts
    BY <1>0, <2>1, <2>2, <2>3, <2>4 DEF Accumulators
  <2>9. Counted(b)
    BY <1>0, <2>2, <2>3, <2>8, ZenonT(40) DEF Counted
  <2>10. Justified(b)
    <3>1. CASE st = State("Committed", d, VotersFor(votes, d)) /\ count >= bft_threshold
      BY <2>6, <2>8, <3>1, NoneAssumption DEF Justified, State
    <3>2. CASE st = a.state
      <4>1. a.state.digest # None => a.state.digest \in Digests
        BY <1>0 DEF Accumulators, Option
      <4>2. a.state.kind = "Committed" => Cardinality(VotersFor(votes, a.state.digest)) >= bft_threshold
        <5>1. ASSUME a.state.kind = "Committed"
              PROVE  /\ a.state.digest \in Digests
                     /\ Cardinality(VotersFor(a.commits, a.state.digest)) >= bft_threshold
          BY <1>0, <4>1, <5>1, ZenonT(40) DEF Justified
        <5>2. ASSUME NEW e \in Digests PROVE Cardinality(VotersFor(votes, e)) >= Cardinality(VotersFor(a.commits, e))
          BY <2>2, VotersFinite
        <5> QED
          BY <5>1, <5>2, VotersFinite, Threshold
      <4> QED
        BY <1>0, <2>8, <3>2, <4>2 DEF Justified
    <3> QED
      BY <2>5, <3>1, <3>2
  <2>11. Heard(b, S)
    BY <1>0, <2>7, <2>8, HonestAssumption DEF Heard
  <2> QED
    BY <2>8, <2>9, <2>10, <2>11 DEF Good, b
<1> QED
  BY <1>1, <1>2

LEMMA ImportAdvanceRoundGood ==
  ASSUME NEW a, NEW r \in Rounds, NEW S, Good(a, r, S), NEW s \in Authorities
  PROVE  LET b == ImportAdvanceRound(a, s)
         IN  Good(b, r, S) /\ b.proposal = a.proposal
<1> DEFINE b == ImportAdvanceRound(a, s)
           advance == a.advance_round \cup {s}
           st == IF Cardinality(advance) < a.threshold \/ a.state.kind \in {"Committed", "Advanced"}
                 THEN a.state
                 ELSE IF a.state.kind = "Prepared"
                      THEN State("Advanced", a.state.digest, a.state.signatures)
                      ELSE State("Advanced", None, {})
<1>0. /\ a \in Accumulators /\ a.round_number = r /\ a.round_proposer = Proposer(r)
      /\ Counted(a) /\ Justified(a) /\ Heard(a, S)
  BY DEF Good
<1>1. b = [a EXCEPT !.advance_round = advance, !.state = st]
  BY <1>0 DEF ImportAdvanceRound, Accumulators
<1>2. st \in [kind : Kinds, digest : Option(Digests), signatures : SUBSET Authorities]
  BY <1>0 DEF Accumulators, State, Kinds, Option
<1>3. \/ st = a.state
      \/ a.state.kind = "Prepared" /\ st = State("Advanced", a.state.digest, a.state.signatures)
      \/ st = State("Advanced", None, {})
  OBVIOUS
<1>4. advance \subseteq Authorities
  BY <1>0 DEF Accumulators
<1> HIDE DEF b, st, advance
<1>5. /\ b \in Accumulators /\ b.round_number = r /\ b.round_proposer = Proposer(r)
      /\ b.proposal = a.proposal /\ b.state = st
      /\ b.prepares = a.prepares /\ b.commits = a.commits /\ b.vote_counts = a.vote_counts
  BY <1>0, <1>1, <1>2, <1>4 DEF Accumulators
<1>6. Counted(b) /\ Heard(b, S)
  BY <1>0, <1>5, ZenonT(40) DEF Counted, Heard
<1>7. Justified(b)
  BY <1>0, <1>3, <1>5 DEF Justified, State
<1> QED
  BY <1>5, <1>6, <1>7 DEF Good, b

(* A message is imported, whoever it is from. *)
LEMMA ImportMessageGood ==
  ASSUME NEW a, NEW r \in Rounds, NEW S, Good(a, r, S), NEW m \in Message(Rounds, Authorities),
         m.sender \in Honest => m \in S
  PROVE  LET b == ImportMessage(a, m)
         IN  Good(b, r, S) /\ (a.proposal # None => b.proposal = a.proposal)
<1>0. a.round_number = r
  BY DEF Good
<1>1. CASE m.round # a.round_number
  BY <1>1 DEF ImportMessage
<1>2. CASE m.round = a.round_number
  <2>1. /\ m.kind \in {"Propose", "Prepare", "Commit", "AdvanceRound"} /\ m.sender \in Authorities
        /\ m.kind # "AdvanceRound" => m.digest \in Digests
        /\ m = Cast(m.kind, r, m.sender, m.digest)
    BY <1>0, <1>2 DEF Message, Cast
  <2>2. CASE m.kind = "Propose"
    <3>1. ImportMessage(a, m) = ImportProposal(a, m.sender, m.digest)
      BY <1>2, <2>2 DEF ImportMessage
    <3> QED
      BY <2>1, <2>2, <3>1, ImportProposalGood
  <2>3. CASE m.kind = "Prepare"
    <3>1. ImportMessage(a, m) = ImportPrepare(a, m.sender, m.digest)
      BY <1>2, <2>3 DEF ImportMessage
    <3> QED
      BY <2>1, <2>3, <3>1, ImportPrepareGood
  <2>4. CASE m.kind = "Commit"
    <3>1. ImportMessage(a, m) = ImportCommit(a, m.sender, m.digest)
      BY <1>2, <2>4 DEF ImportMessage
    <3> QED
      BY <2>1, <2>4, <3>1, ImportCommitGood
  <2>5. CASE m.kind = "AdvanceRound"
    <3>1. ImportMessage(a, m) = ImportAdvanceRound(a, m.sender)
      BY <1>2, <2>5 DEF ImportMessage
    <3> QED
      BY <2>1, <2>5, <3>1, ImportAdvanceRoundGood
  <2> QED
    BY <2>1, <2>2, <2>3, <2>4, <2>5
<1> QED
  BY <1>1, <1>2

(* What was heard stays heard. *)
LEMMA GoodMore ==
  ASSUME NEW a, NEW r, NEW S, NEW T, S \subseteq T, Good(a, r, S)
  PROVE  Good(a, r, T)
BY DEF Good, Heard

(* An honest sender, who sends one message of a kind in a round and        *)
(* proposes in turn, does not misbehave.                                   *)
LEMMA NoMisbehavior ==
  ASSUME NEW a, NEW r \in Rounds, NEW S, Good(a, r, S), NEW m \in Message(Rounds, Honest), m \in S,
         Unique(S), InTurn(S)
  PROVE  Misbehavior(a, m) = None
<1>0. /\ a \in Accumulators /\ a.round_number = r /\ a.round_proposer = Proposer(r) /\ Heard(a, S)
  BY DEF Good
<1>1. CASE m.round # r \/ m.kind = "AdvanceRound"
  BY <1>0, <1>1 DEF Misbehavior
<1>2. CASE m.round = r /\ m.kind # "AdvanceRound"
  <2>1. /\ m.kind \in {"Propose", "Prepare", "Commit"} /\ m.sender \in Honest /\ m.digest \in Digests
        /\ m.sender \in Authorities
    BY <1>2, HonestAssumption DEF Message
  <2>2. ASSUME NEW d \in Digests, Cast(m.kind, r, m.sender, d) \in S PROVE d = m.digest
    <3>1. m = Cast(m.kind, r, m.sender, m.digest)
      BY <1>2 DEF Cast, Message
    <3> QED
      BY <2>1, <2>2, <3>1 DEF Unique, Sorts
  <2>3. CASE m.kind = "Propose"
    <3>1. m.sender = a.round_proposer
      <4>1. m = Cast("Propose", r, m.sender, m.digest)
        BY <1>2, <2>3, ZenonT(40) DEF Cast, Message
      <4> QED
        BY <1>0, <2>1, <4>1 DEF InTurn
    <3>2. a.proposal \in {None, m.digest}
      BY <1>0, <2>1, <2>2, <2>3, <3>1, ZenonT(40) DEF Heard, Accumulators, Option
    <3> QED
      BY <2>3, <3>1, <3>2 DEF Misbehavior
  <2>4. CASE m.kind = "Prepare"
    <3>1. a.prepares[m.sender] \in {None, m.digest}
      BY <1>0, <2>1, <2>2, <2>4, ZenonT(40) DEF Heard, Accumulators, Option
    <3> QED
      BY <2>4, <3>1, ZenonT(40) DEF Misbehavior
  <2>5. CASE m.kind = "Commit"
    <3>1. a.commits[m.sender] \in {None, m.digest}
      BY <1>0, <2>1, <2>2, <2>5 DEF Heard, Accumulators, Option
    <3> QED
      BY <2>5, <3>1, ZenonT(40) DEF Misbehavior
  <2> QED
    BY <2>1, <2>3, <2>4, <2>5
<1> QED
  BY <1>1, <1>2
-----------------------------------------------------------------------------
(* Messages. *)

LEMMA MessageOrProof ==
  /\ \A m \in Message(Rounds, Authorities) : ~IsLockProof(m)
  /\ \A m \in Message(Rounds, Honest) : ~IsLockProof(m) /\ m \in Message(Rounds, Authorities)
  /\ \A just \in Justification(Rounds) : IsLockProof(just)
BY HonestAssumption DEF Message, Justification, IsLockProof

LEMMA CastInjective ==
  ASSUME NEW k1, NEW r1, NEW n1, NEW d1, NEW k2, NEW r2, NEW n2, NEW d2,
         Cast(k1, r1, n1, d1) = Cast(k2, r2, n2, d2)
  PROVE  k1 = k2 /\ r1 = r2 /\ n1 = n2 /\ d1 = d2
BY DEF Cast

LEMMA CastNoProof ==
  ASSUME NEW k, NEW r, NEW n, NEW d
  PROVE  Cast(k, r, n, d) \notin Justification(Rounds)
BY DEF Cast, Justification

(* The votes that the protocol sees are the messages. *)
LEMMA VotesAreCast ==
  ASSUME NEW S \in SUBSET (Message(Rounds, Honest) \cup Justification(Rounds)), NEW kind \in Sorts
  PROVE  /\ \A n, r, d : <<n, r, d>> \in VotesIn(S, kind) <=> Cast(kind, r, n, d) \in S
         /\ VotesIn(S, kind) \subseteq Honest \X Rounds \X Digests
<1>1. ASSUME NEW c \in S, ~IsLockProof(c), c.kind = kind
      PROVE  /\ c = Cast(kind, c.round, c.sender, c.digest)
             /\ c.sender \in Honest /\ c.round \in Rounds /\ c.digest \in Digests
  <2>1. c \in Message(Rounds, Honest)
    BY <1>1, MessageOrProof
  <2> QED
    BY <1>1, <2>1 DEF Message, Cast, Sorts
<1>2. ASSUME NEW n, NEW r, NEW d, Cast(kind, r, n, d) \in S
      PROVE  <<n, r, d>> \in VotesIn(S, kind)
  <2>1. ~IsLockProof(Cast(kind, r, n, d))
    BY DEF Cast, IsLockProof
  <2> QED
    BY <1>2, <2>1 DEF Cast, VotesIn
<1>3. ASSUME NEW n, NEW r, NEW d, <<n, r, d>> \in VotesIn(S, kind)
      PROVE  Cast(kind, r, n, d) \in S
  <2>1. PICK c \in S : ~IsLockProof(c) /\ c.kind = kind /\ <<n, r, d>> = <<c.sender, c.round, c.digest>>
    BY <1>3 DEF VotesIn
  <2> QED
    BY <1>1, <2>1
<1>4. VotesIn(S, kind) \subseteq Honest \X Rounds \X Digests
  BY <1>1 DEF VotesIn
<1> QED
  BY <1>2, <1>3, <1>4, ZenonT(40)

(* What one more vote, and lock proofs, add to the messages. *)
LEMMA SendCast ==
  ASSUME NEW kind, NEW r, NEW n, NEW d, NEW J \in SUBSET Justification(Rounds), NEW S,
         NEW k, NEW q, NEW a, NEW e,
         Cast(k, q, a, e) \in S \cup {Cast(kind, r, n, d)} \cup J
  PROVE  Cast(k, q, a, e) \in S \/ (k = kind /\ q = r /\ a = n /\ e = d)
<1>1. Cast(k, q, a, e) \notin J
  BY CastNoProof
<1> QED
  BY <1>1, CastInjective

-----------------------------------------------------------------------------
(* Importing a message. *)

LEMMA AllGoodMore ==
  ASSUME NEW accs, NEW futures, NEW S, NEW T, S \subseteq T, AllGood(accs, futures, S)
  PROVE  AllGood(accs, futures, T)
BY GoodMore DEF AllGood

LEMMA ImportAt ==
  ASSUME NEW n \in Honest, NEW m \in Message(Rounds, Authorities), NEW S,
         AllGood(acc, future, S), accused \in [Honest -> SUBSET Authorities], HonestNotAccused,
         m.sender \in Honest => m \in S, Unique(S), InTurn(S), ImportMessageAt(n, m)
  PROVE  /\ AllGood(acc', future', S)
         /\ \A k \in Honest : /\ acc'[k].round_number = acc[k].round_number
                              /\ acc[k].proposal # None => acc'[k].proposal = acc[k].proposal
         /\ accused' \in [Honest -> SUBSET Authorities]
         /\ HonestNotAccused'
<1> DEFINE r == m.round
           target == IF r = Round(n) THEN acc[n]
                     ELSE IF future[n][r] = None THEN New(r) ELSE future[n][r]
           b == ImportMessage(target, m)
<1>1. r \in Rounds /\ m.sender \in Authorities
  BY DEF Message
<1>2. Good(target, r, S)
  BY <1>1, NewGood, ZenonT(40) DEF AllGood, Round
<1>3. Good(b, r, S) /\ (target.proposal # None => b.proposal = target.proposal)
  BY <1>1, <1>2, ImportMessageGood, ZenonT(40)
<1>4. m.sender \in Honest => Misbehavior(target, m) = None
  <2>1. m.sender \in Honest => m \in Message(Rounds, Honest)
    BY ZenonT(40) DEF Message
  <2> QED
    BY <1>1, <1>2, <2>1, NoMisbehavior
<1>5. /\ acc' = IF r = Round(n) THEN [acc EXCEPT ![n] = b] ELSE acc
      /\ future' = IF r > Round(n) THEN [future EXCEPT ![n][r] = b] ELSE future
      /\ accused' = IF r >= Round(n) /\ Misbehavior(target, m) # None
                    THEN [accused EXCEPT ![n] = @ \cup {m.sender}] ELSE accused
  BY ZenonT(40) DEF ImportMessageAt
<1>6. r = Round(n) => target = acc[n]
  OBVIOUS
<1>7. b \in Accumulators /\ b.round_number = r
  BY <1>3, Zenon DEF Good
<1> HIDE DEF b, target, r
<1>8. accused' \in [Honest -> SUBSET Authorities] /\ HonestNotAccused'
  BY <1>1, <1>4, <1>5, ZenonT(40) DEF HonestNotAccused
<1>9. \A k \in Honest : /\ acc'[k].round_number = acc[k].round_number
                        /\ acc[k].proposal # None => acc'[k].proposal = acc[k].proposal
  BY <1>3, <1>5, <1>6, <1>7, ZenonT(40) DEF AllGood, Round
<1>10. acc' \in [Honest -> Accumulators] /\ \A k \in Honest : Good(acc'[k], acc'[k].round_number, S)
  BY <1>3, <1>5, <1>7 DEF AllGood
<1>11. /\ future' \in [Honest -> [Rounds -> Option(Accumulators)]]
       /\ \A k \in Honest : \A q \in Rounds : future'[k][q] # None => Good(future'[k][q], q, S)
  <2>1. CASE r > Round(n)
    <3>1. \A k \in Honest, q \in Rounds : future'[k][q] = IF k = n /\ q = r THEN b ELSE future[k][q]
      BY <1>1, <1>5, <2>1 DEF AllGood
    <3>2. future' \in [Honest -> [Rounds -> Option(Accumulators)]]
      BY <1>1, <1>5, <1>7, <2>1 DEF AllGood, Option
    <3> QED
      BY <1>3, <3>1, <3>2 DEF AllGood
  <2>2. CASE ~(r > Round(n))
    BY <1>5, <2>2, ZenonT(40) DEF AllGood
  <2> QED
    BY <2>1, <2>2, ZenonT(40)
<1> QED
  BY <1>8, <1>9, <1>10, <1>11, ZenonT(40) DEF AllGood

(* An authority sends a vote, imports it, and moves on. *)
LEMMA SendStep ==
  ASSUME AgreementInv, NEW n \in Honest, NEW kind \in Sorts \cup {"AdvanceRound"},
         NEW d \in Option(Digests), kind \in Sorts <=> d # None,
         NEW J \in SUBSET Justification(Rounds), NEW ls \in LocalStates,
         kind \in Sorts => NoVote(kind, n, Round(n), sent),
         kind = "Propose" => n = Proposer(Round(n)) /\ ls = "Proposed" /\ local_state[n] = "Start",
         kind = "Prepare" => /\ d = acc[n].proposal /\ ls = "PreparedValid"
                             /\ local_state[n] \in {"Start", "Proposed"},
         kind = "Commit" => ls = "Committed",
         kind = "AdvanceRound" => ls = "VoteAdvance",
         ImportMessageAt(n, Cast(kind, Round(n), n, d)),
         sent' = sent \cup {Cast(kind, Round(n), n, d)} \cup J,
         local_state' = [local_state EXCEPT ![n] = ls], UNCHANGED notable
  PROVE  /\ AllGood(acc', future', sent')
         /\ \A k \in Honest : acc'[k].round_number = acc[k].round_number
         /\ accused' \in [Honest -> SUBSET Authorities] /\ HonestNotAccused'
         /\ sent' \subseteq Message(Rounds, Honest) \cup Justification(Rounds)
         /\ local_state' \in [Honest -> LocalStates]
         /\ AllQuiet' /\ Unique(sent') /\ InTurn(sent') /\ Remembered'
<1> DEFINE m == Cast(kind, Round(n), n, d)
<1>1. Round(n) \in Rounds
  BY ZenonT(40) DEF AgreementInv, AllGood, Accumulators, Round
<1>2. m \in Message(Rounds, Honest) /\ m \in Message(Rounds, Authorities) /\ m \in sent'
  BY <1>1, HonestAssumption, NoneAssumption DEF Cast, Message, Sorts, Option
<1>3. ASSUME NEW k, NEW q, NEW a, NEW e, Cast(k, q, a, e) \in sent'
      PROVE  Cast(k, q, a, e) \in sent \/ (k = kind /\ q = Round(n) /\ a = n /\ e = d)
  BY <1>3, SendCast
<1>4. sent \subseteq sent'
  BY ZenonT(40)
<1>5. sent' \subseteq Message(Rounds, Honest) \cup Justification(Rounds)
  BY <1>2 DEF AgreementInv, Types
<1>6. Unique(sent')
  <2>1. SUFFICES ASSUME NEW k \in Sorts, NEW a \in Honest, NEW r \in Rounds, NEW e \in Digests, NEW f \in Digests,
                        Cast(k, r, a, e) \in sent', Cast(k, r, a, f) \in sent'
                 PROVE  e = f
    BY DEF Unique
  <2> QED
    BY <1>3, <2>1 DEF AgreementInv, Unique, NoVote
<1>7. InTurn(sent')
  BY <1>3 DEF AgreementInv, InTurn
<1>8. AllGood(acc, future, sent')
  BY <1>4, AllGoodMore DEF AgreementInv
<1>9. /\ AllGood(acc', future', sent')
      /\ \A k \in Honest : /\ acc'[k].round_number = acc[k].round_number
                           /\ acc[k].proposal # None => acc'[k].proposal = acc[k].proposal
      /\ accused' \in [Honest -> SUBSET Authorities] /\ HonestNotAccused'
  BY <1>2, <1>6, <1>7, <1>8, ImportAt, Zenon DEF AgreementInv, Types
<1>10. local_state' \in [Honest -> LocalStates]
  BY Zenon DEF AgreementInv, Types
<1>11. ASSUME NEW k \in Honest PROVE Quiet(k, Round(k)', local_state'[k], sent')
  <2>1. Quiet(k, Round(k), local_state[k], sent) /\ Round(k)' = Round(k) /\ Round(k) \in Rounds
    BY <1>9 DEF AgreementInv, AllQuiet, Round, AllGood, Accumulators
  <2>2. Round(n) \in Nat /\ Round(k) \in Nat
    BY <1>1, <2>1, RoundsAssumption, Zenon
  <2>3. ASSUME NEW sort \in Sorts, NEW q \in Rounds, q > Round(k) PROVE NoVote(sort, k, q, sent')
    BY <1>3, <2>1, <2>2, <2>3, SMTT(40) DEF Quiet, NoVote
  <2>4. CASE k # n
    <3>1. local_state'[k] = local_state[k]
      BY <2>4, ZenonT(40) DEF AgreementInv, Types
    <3>2. ASSUME NEW sort, NoVote(sort, k, Round(k), sent) PROVE NoVote(sort, k, Round(k), sent')
      BY <1>3, <2>4, <3>2, SMTT(40) DEF NoVote
    <3> QED
      BY <2>1, <2>3, <3>1, <3>2, ZenonT(40) DEF Quiet
  <2>5. CASE k = n
    <3>1. local_state'[k] = ls
      BY <2>5, ZenonT(40) DEF AgreementInv, Types
    <3>2. ASSUME NEW sort, sort # kind, NoVote(sort, k, Round(k), sent) PROVE NoVote(sort, k, Round(k), sent')
      BY <1>3, <3>2 DEF NoVote
    <3> QED
      BY <2>1, <2>3, <2>5, <3>1, <3>2, ZenonT(40) DEF Quiet, Sorts
  <2> QED
    BY <2>4, <2>5, Zenon
<1>12. AllQuiet'
  BY <1>11, Zenon DEF AllQuiet
<1>13. Remembered'
  <2>1. SUFFICES ASSUME NEW k \in Honest, NEW r \in Rounds, NEW e \in Digests, Cast("Prepare", r, k, e) \in sent'
                 PROVE  e \in {acc'[k].proposal} \cup notable[k]
    BY ZenonT(40) DEF Remembered
  <2>2. e \in {acc[k].proposal} \cup notable[k]
    BY <1>3, <2>1 DEF AgreementInv, Remembered
  <2> QED
    BY <1>9, <2>2, NoneAssumption, SMTT(40)
<1> QED
  BY <1>5, <1>6, <1>7, <1>9, <1>10, <1>12, <1>13, ZenonT(40)

(* An authority goes on to a later round. *)
LEMMA AdvanceStep ==
  ASSUME AgreementInv, NEW n \in Honest, NEW r \in Rounds, r > Round(n),
         AdvanceToRound(n, r), UNCHANGED sent
  PROVE  /\ AllGood(acc', future', sent')
         /\ \A k \in Honest : acc'[k].round_number = IF k = n THEN r ELSE acc[k].round_number
         /\ local_state' \in [Honest -> LocalStates]
         /\ notable' \in [Honest -> SUBSET Digests]
         /\ AllQuiet' /\ Remembered'
<1> DEFINE b == IF future[n][r] = None THEN New(r) ELSE future[n][r]
<1>1. AllGood(acc, future, sent) /\ AllQuiet /\ Remembered /\ Types
  BY DEF AgreementInv
<1>2. Good(b, r, sent)
  BY <1>1, NewGood DEF AllGood
<1>3. acc' = [acc EXCEPT ![n] = b]
  BY DEF AdvanceToRound
<1>4. local_state' = [local_state EXCEPT ![n] = "Start"]
  BY DEF AdvanceToRound
<1>5. notable' = [notable EXCEPT ![n] = notable[n] \cup ({acc[n].proposal} \ {None})]
  BY ZenonT(40) DEF AdvanceToRound
<1>6. \A k \in Honest, q \in Rounds : future'[k][q] \in {None, future[k][q]}
  BY <1>1, ZenonT(40) DEF AdvanceToRound, AllGood
<1>7. future' \in [Honest -> [Rounds -> Option(Accumulators)]]
  BY <1>1, ZenonT(40) DEF AdvanceToRound, AllGood, Option
<1>8. b \in Accumulators /\ b.round_number = r
  BY <1>2 DEF Good
<1> HIDE DEF b
<1>9. AllGood(acc', future', sent')
  <2>1. acc' \in [Honest -> Accumulators] /\ \A k \in Honest : Good(acc'[k], acc'[k].round_number, sent)
    BY <1>1, <1>2, <1>3, <1>8, ZenonT(40) DEF AllGood
  <2>2. \A k \in Honest : \A q \in Rounds : future'[k][q] # None => Good(future'[k][q], q, sent)
    BY <1>1, <1>6 DEF AllGood
  <2> QED
    BY <1>7, <2>1, <2>2 DEF AllGood
<1>10. \A k \in Honest : acc'[k].round_number = IF k = n THEN r ELSE acc[k].round_number
  BY <1>1, <1>3, <1>8, ZenonT(40) DEF AllGood
<1>11. local_state' \in [Honest -> LocalStates] /\ notable' \in [Honest -> SUBSET Digests]
  BY <1>1, <1>4, <1>5 DEF Types, LocalStates, AllGood, Accumulators, Option
<1>12. ASSUME NEW k \in Honest PROVE Quiet(k, Round(k)', local_state'[k], sent')
  <2>1. Quiet(k, Round(k), local_state[k], sent) /\ Round(k) \in Rounds
    BY <1>1, ZenonT(40) DEF AllQuiet, AllGood, Accumulators, Round
  <2>2. CASE k # n
    BY <1>1, <1>4, <1>10, <2>1, <2>2, ZenonT(40) DEF Types, Round
  <2>3. CASE k = n
    <3>1. Round(k)' = r /\ local_state'[k] = "Start"
      BY <1>1, <1>4, <1>10, <2>3, ZenonT(40) DEF Types, Round
    <3>2. ASSUME NEW sort \in Sorts, NEW q \in Rounds, q >= r PROVE NoVote(sort, k, q, sent')
      <4>1. q > Round(k)
        <5>1. Round(k) \in Nat /\ r \in Nat /\ q \in Nat /\ r > Round(k)
          BY <2>1, <2>3, RoundsAssumption, ZenonT(40)
        <5> QED
          BY <3>2, <5>1
      <4> QED
        BY <2>1, <4>1 DEF Quiet
    <3> QED
      BY <3>1, <3>2, RoundsAssumption, SMTT(40) DEF Quiet, Sorts
  <2> QED
    BY <2>2, <2>3, ZenonT(40)
<1>13. AllQuiet'
  BY <1>12, ZenonT(40) DEF AllQuiet
<1>14. Remembered'
  <2>1. SUFFICES ASSUME NEW k \in Honest, NEW q \in Rounds, NEW e \in Digests, Cast("Prepare", q, k, e) \in sent
                 PROVE  e \in {acc'[k].proposal} \cup notable'[k]
    BY ZenonT(40) DEF Remembered
  <2>2. e \in {acc[k].proposal} \cup notable[k]
    BY <1>1, <2>1, ZenonT(40) DEF Remembered
  <2>3. CASE k # n
    BY <1>1, <1>3, <1>5, <2>2, <2>3, ZenonT(40) DEF Types, AllGood
  <2>4. CASE k = n
    BY <1>1, <1>5, <2>2, <2>4, NoneAssumption, ZenonT(40) DEF Types
  <2> QED
    BY <2>3, <2>4, ZenonT(40)
<1> QED
  BY <1>9, <1>10, <1>11, <1>13, <1>14

(* Locks that check out go on doing so. *)
LEMMA LocksStay ==
  ASSUME LockProofsCheckOut, sent \subseteq sent',
         \A c \in sent' : IsLockProof(c) => c \in sent \/ Checked(c) \/ c \in {locked[n] : n \in Honest} \ {None},
         \A n \in Honest : locked'[n] = locked[n] \/ Checked(locked'[n])
  PROVE  LockProofsCheckOut'
<1>1. SUFFICES ASSUME NEW just, just # None,
                      just \in {c \in sent' : IsLockProof(c)} \cup {locked'[n] : n \in Honest}
               PROVE  Check(just, bft_threshold, Prepared(just.round, just.digest)')
  BY ZenonT(40) DEF LockProofsCheckOut, bft_threshold, Check
<1>2. Checked(just)
  <2>1. CASE just \in sent' /\ IsLockProof(just)
    BY <1>1, <2>1, ZenonT(40) DEF LockProofsCheckOut, Checked
  <2>2. CASE just \in {locked'[n] : n \in Honest}
    BY <1>1, <2>2, ZenonT(40) DEF LockProofsCheckOut, Checked
  <2> QED
    BY <1>1, <2>1, <2>2, ZenonT(40)
<1>3. Prepared(just.round, just.digest) \subseteq Prepared(just.round, just.digest)'
  BY ZenonT(40) DEF Prepared
<1> QED
  BY <1>2, <1>3, ZenonT(40) DEF Check, Checked

(* A call of the poll under way. *)
LEMMA Polled ==
  ASSUME AgreementInv, NEW n \in Honest, NEW call, Calling(n, call)
  PROVE  /\ polling \in [who : Honest, call : Calls, watermark : Rounds \X LocalStates]
         /\ polling.who = n /\ concluded[n] = None
<1>1. n # None
  BY HonestAssumption, NoneAssumption
<1> QED
  BY <1>1 DEF AgreementInv, PollTypes, Calling, Idle

LEMMA PollGoesOn ==
  ASSUME AgreementInv, NEW n \in Honest, NEW call, Calling(n, call), NEW next \in Calls,
         ThenCall(next), UNCHANGED concluded
  PROVE  PollTypes'
<1>1. /\ polling \in [who : Honest, call : Calls, watermark : Rounds \X LocalStates]
      /\ polling.who = n /\ concluded[n] = None
  BY Polled
<1>2. polling' \in [who : Honest, call : Calls, watermark : Rounds \X LocalStates] /\ polling'.who = n
  BY <1>1 DEF ThenCall
<1> QED
  BY <1>1, <1>2, ZenonT(40) DEF PollTypes

(* A poll begins, or goes on after a change of round. *)
LEMMA PollStarts ==
  ASSUME NEW n \in Honest, acc' \in [Honest -> Accumulators], local_state' \in [Honest -> LocalStates],
         concluded'[n] = None, StartPoll(n)
  PROVE  PollTypes'
<1>1. acc'[n].round_number \in Rounds /\ local_state'[n] \in LocalStates
  BY ZenonT(40) DEF Accumulators
<1>2. polling' \in [who : Honest, call : Calls, watermark : Rounds \X LocalStates] /\ polling'.who = n
  BY <1>1 DEF StartPoll, Calls
<1> QED
  BY <1>2 DEF PollTypes

LEMMA PollsAgain ==
  ASSUME AgreementInv, NEW n \in Honest, NEW call, Calling(n, call),
         acc' \in [Honest -> Accumulators], local_state' \in [Honest -> LocalStates],
         UNCHANGED concluded, PollAgain(n)
  PROVE  PollTypes'
<1>1. /\ polling \in [who : Honest, call : Calls, watermark : Rounds \X LocalStates]
      /\ polling.who = n /\ concluded[n] = None
  BY Polled, ZenonT(40)
<1>2. acc'[n].round_number \in Rounds /\ local_state'[n] \in LocalStates
  BY ZenonT(40) DEF Accumulators
<1>3. CASE polling' = Idle
  BY <1>3, ZenonT(40) DEF PollTypes, Idle
<1>4. CASE polling' # Idle
  <2>1. polling' = [polling EXCEPT !.call = "propose", !.watermark = <<acc'[n].round_number, local_state'[n]>>]
    BY <1>4 DEF PollAgain
  <2>2. polling' \in [who : Honest, call : Calls, watermark : Rounds \X LocalStates] /\ polling'.who = n
    BY <1>1, <1>2, <2>1, Zenon DEF Calls
  <2> QED
    BY <1>1, <2>2 DEF PollTypes
<1> QED
  BY <1>3, <1>4

-----------------------------------------------------------------------------
(* The actions. *)

LEMMA InitInv == Init => AgreementInv
<1> SUFFICES ASSUME Init PROVE AgreementInv
  BY ZenonT(40)
<1>1. Types /\ PollTypes
  BY ZenonT(40) DEF Init, Types, PollTypes, LocalStates, Option
<1>2. Good(New(0), 0, {}) /\ New(0) \in Accumulators /\ New(0).round_number = 0
  BY NewGood, RoundsAssumption, ZenonT(40) DEF Good
<1>3. AllGood(acc, future, sent)
  BY <1>2, ZenonT(40) DEF Init, AllGood, Option
<1>4. AllQuiet
  BY ZenonT(40) DEF Init, AllQuiet, Quiet, NoVote
<1>5. Unique(sent) /\ InTurn(sent) /\ Remembered /\ HonestNotAccused /\ Known(concluded, sent)
  BY ZenonT(40) DEF Init, Unique, InTurn, Remembered, HonestNotAccused, Known
<1>6. LockProofsCheckOut
  BY DEF Init, LockProofsCheckOut
<1> QED
  BY <1>1, <1>3, <1>4, <1>5, <1>6 DEF AgreementInv

LEMMA ReceivableMessage ==
  ASSUME AgreementInv, NEW m \in Receivable
  PROVE  m \in Message(Rounds, Authorities) /\ (m.sender \in Honest => m \in sent)
<1>1. CASE m \in sent /\ ~IsLockProof(m)
  BY <1>1, MessageOrProof, ZenonT(40) DEF AgreementInv, Types
<1>2. CASE m \in FaultyMessages
  <2>1. m \in Message(Rounds, Authorities \ Honest)
    BY <1>2, OutcomesAssumption
  <2> QED
    BY <2>1 DEF Message
<1> QED
  BY <1>1, <1>2, ZenonT(40) DEF Receivable

LEMMA ReceiveMessageInv ==
  ASSUME AgreementInv, NEW n \in Honest, NEW m \in Receivable, ReceiveMessage(n, m)
  PROVE  AgreementInv'
<1>1. /\ m \in Message(Rounds, Authorities) /\ (m.sender \in Honest => m \in sent)
      /\ ImportMessageAt(n, m) /\ StartPoll(n) /\ concluded[n] = None
      /\ UNCHANGED <<local_state, locked, notable, concluded, sent>>
  BY ReceivableMessage, Zenon DEF ReceiveMessage, Live
<1>2. /\ AllGood(acc', future', sent)
      /\ \A k \in Honest : /\ acc'[k].round_number = acc[k].round_number
                           /\ acc[k].proposal # None => acc'[k].proposal = acc[k].proposal
      /\ accused' \in [Honest -> SUBSET Authorities] /\ HonestNotAccused'
  BY <1>1, ImportAt, ZenonT(40) DEF AgreementInv, Types
<1>3. Types'
  BY <1>1, <1>2, Zenon DEF AgreementInv, Types
<1>4. PollTypes'
  BY <1>1, <1>2, <1>3, PollStarts, ZenonT(40) DEF AllGood, Types
<1>5. AllQuiet'
  <2>1. AllQuiet /\ UNCHANGED <<local_state, sent>>
    BY <1>1, Zenon DEF AgreementInv
  <2>2. \A k \in Honest : Round(k)' = Round(k)
    BY <1>2, Zenon DEF Round
  <2> QED
    BY <2>1, <2>2, Zenon DEF AllQuiet
<1>6. Remembered'
  <2>1. Remembered /\ UNCHANGED <<notable, sent>>
    BY <1>1, Zenon DEF AgreementInv
  <2> QED
    BY <1>2, <2>1, NoneAssumption, ZenonT(40) DEF Remembered
<1>7. LockProofsCheckOut'
  BY <1>1, ZenonT(40) DEF AgreementInv, LockProofsCheckOut, Prepared, bft_threshold
<1> QED
  BY <1>1, <1>2, <1>3, <1>4, <1>5, <1>6, <1>7, Zenon DEF AgreementInv

LEMMA LockProof ==
  ASSUME AgreementInv, NEW just \in LockProofs
  PROVE  just \in Justification(Rounds)
<1>1. CASE just \in sent /\ IsLockProof(just)
  BY <1>1, MessageOrProof DEF AgreementInv, Types
<1>2. ASSUME NEW r \in Rounds, NEW d \in Digests
      PROVE  [round |-> r, digest |-> d, signatures |-> Prepared(r, d)] \in Justification(Rounds)
  BY HonestAssumption DEF Prepared, Justification
<1> QED
  BY <1>1, <1>2 DEF LockProofs

(* Nothing but the round, the lock and the candidates of n changes. *)
LEMMA MoveInv ==
  ASSUME AgreementInv, NEW n \in Honest, NEW r \in Rounds,
         \/ r > Round(n) /\ AdvanceToRound(n, r)
         \/ UNCHANGED <<acc, future, local_state, notable>>,
         locked' \in [Honest -> Option(Justification(Rounds))],
         \A k \in Honest : locked'[k] = locked[k] \/ Checked(locked'[k]),
         UNCHANGED <<accused, concluded, sent>>, 
         acc' \in [Honest -> Accumulators] /\ local_state' \in [Honest -> LocalStates] => PollTypes'
  PROVE  AgreementInv'
<1>1. /\ AllGood(acc', future', sent')
      /\ local_state' \in [Honest -> LocalStates]
      /\ notable' \in [Honest -> SUBSET Digests]
      /\ AllQuiet' /\ Remembered'
  <2>1. CASE r > Round(n) /\ AdvanceToRound(n, r)
    BY <2>1, AdvanceStep, ZenonT(40)
  <2>2. CASE UNCHANGED <<acc, future, local_state, notable>>
    BY <2>2 DEF AgreementInv, Types, AllQuiet, Round, Remembered
  <2> QED
    BY <2>1, <2>2, ZenonT(40)
<1>2. Types'
  BY <1>1, ZenonT(40) DEF AgreementInv, Types
<1>3. PollTypes'
  BY <1>1, Zenon DEF AllGood
<1>4. LockProofsCheckOut'
  BY LocksStay, ZenonT(40) DEF AgreementInv
<1>5. HonestNotAccused'
  BY ZenonT(40) DEF AgreementInv, HonestNotAccused
<1> QED
  BY <1>1, <1>2, <1>3, <1>4, <1>5, ZenonT(40) DEF AgreementInv

LEMMA ReceiveLockProofInv ==
  ASSUME AgreementInv, NEW n \in Honest, NEW just \in LockProofs, ReceiveLockProof(n, just)
  PROVE  AgreementInv'
<1>1. /\ just \in Justification(Rounds) /\ Checked(just) /\ ImportLockProof(n, just)
      /\ StartPoll(n) /\ concluded[n] = None /\ UNCHANGED <<accused, concluded, sent>>
  BY LockProof, ZenonT(40) DEF ReceiveLockProof, Live, Checked
<1>2. just.round \in Rounds
  BY <1>1, ZenonT(40) DEF Justification
<1>3. \/ just.round > Round(n) /\ AdvanceToRound(n, just.round)
      \/ UNCHANGED <<acc, future, local_state, notable>>
  BY <1>1, ZenonT(40) DEF ImportLockProof
<1>4. locked' = locked \/ locked' = [locked EXCEPT ![n] = just]
  BY <1>1 DEF ImportLockProof
<1>5. /\ locked' \in [Honest -> Option(Justification(Rounds))]
      /\ \A k \in Honest : locked'[k] = locked[k] \/ Checked(locked'[k])
  BY <1>1, <1>4, Zenon DEF AgreementInv, Types, Option
<1>6. acc' \in [Honest -> Accumulators] /\ local_state' \in [Honest -> LocalStates] => PollTypes'
  BY <1>1, PollStarts
<1> QED
  BY <1>1, <1>2, <1>3, <1>5, <1>6, MoveInv, ZenonT(40)

LEMMA WakeInv ==
  ASSUME AgreementInv, NEW n \in Honest, Wake(n)
  PROVE  AgreementInv'
<1>1. UNCHANGED <<node_vars, sent>> /\ StartPoll(n) /\ concluded[n] = None
  BY DEF Wake, Live
<1>2. acc' \in [Honest -> Accumulators] /\ local_state' \in [Honest -> LocalStates] => PollTypes'
  BY <1>1, PollStarts DEF node_vars
<1>3. 0 \in Rounds
  BY RoundsAssumption, ZenonT(40)
<1> QED
  BY <1>1, <1>2, <1>3, MoveInv, Zenon DEF node_vars, AgreementInv, Types

(* The messages with one more vote, and lock proofs. *)
Sends(S, T, kind, r, n, d) ==
  /\ S \subseteq Message(Rounds, Honest) \cup Justification(Rounds)
  /\ \E J \in SUBSET Justification(Rounds) : T = S \cup {Cast(kind, r, n, d)} \cup J

(* n sends a vote, it may come with its lock, and moves on. *)
Sending(n, kind, d, J, ls) ==
  /\ kind \in Sorts \cup {"AdvanceRound"} /\ d \in Option(Digests) /\ (kind \in Sorts <=> d # None)
  /\ J \in SUBSET Justification(Rounds) /\ J \subseteq {locked[n]} \ {None} /\ ls \in LocalStates
  /\ kind \in Sorts => NoVote(kind, n, Round(n), sent)
  /\ kind = "Propose" => n = Proposer(Round(n)) /\ ls = "Proposed" /\ local_state[n] = "Start"
  /\ kind = "Prepare" => /\ d = acc[n].proposal /\ ls = "PreparedValid"
                         /\ local_state[n] \in {"Start", "Proposed"}
  /\ kind = "Commit" => ls = "Committed"
  /\ kind = "AdvanceRound" => ls = "VoteAdvance"
  /\ ImportMessageAt(n, Cast(kind, Round(n), n, d))
  /\ sent' = sent \cup {Cast(kind, Round(n), n, d)} \cup J
  /\ local_state' = [local_state EXCEPT ![n] = ls]
  /\ UNCHANGED <<notable, concluded>>

(* The lock of an authority changes to one that checks out, if at all. *)
Relocking ==
  /\ locked' \in [Honest -> Option(Justification(Rounds))]
  /\ \A k \in Honest : locked'[k] = locked[k] \/ Checked(locked'[k])

LEMMA SendInv ==
  ASSUME AgreementInv, NEW n \in Honest, NEW kind, NEW d, NEW J, NEW ls, Sending(n, kind, d, J, ls),
         Relocking, concluded[n] = None, PollTypes'
  PROVE  /\ AgreementInv'
         /\ \A k \in Honest : acc'[k].round_number = acc[k].round_number
         /\ Sends(sent, sent', kind, Round(n), n, d)
<1>1. /\ AllGood(acc', future', sent')
      /\ \A k \in Honest : acc'[k].round_number = acc[k].round_number
      /\ accused' \in [Honest -> SUBSET Authorities] /\ HonestNotAccused'
      /\ sent' \subseteq Message(Rounds, Honest) \cup Justification(Rounds)
      /\ local_state' \in [Honest -> LocalStates]
      /\ AllQuiet' /\ Unique(sent') /\ InTurn(sent') /\ Remembered'
  BY SendStep, ZenonT(40) DEF Sending
<1>2. Types'
  BY <1>1, ZenonT(40) DEF AgreementInv, Types, Sending, Relocking
<1>3. LockProofsCheckOut'
  <2>1. ~IsLockProof(Cast(kind, Round(n), n, d))
    BY ZenonT(40) DEF Cast, IsLockProof
  <2>2. sent' = sent \cup {Cast(kind, Round(n), n, d)} \cup J /\ J \subseteq {locked[n]} \ {None}
    BY Zenon DEF Sending
  <2>3. \A c \in sent' : IsLockProof(c) => c \in sent \/ c \in {locked[k] : k \in Honest} \ {None}
    BY <2>1, <2>2, ZenonT(40)
  <2>4. sent \subseteq sent'
    BY Zenon DEF Sending
  <2> QED
    BY <2>3, <2>4, LocksStay, Zenon DEF AgreementInv, Relocking
<1>4. Known(concluded', sent')
  <2>1. ASSUME NEW k \in Honest, concluded[k] # None, NEW r \in Rounds, NEW e, Cast("Prepare", r, k, e) \in sent'
        PROVE  Cast("Prepare", r, k, e) \in sent
    <3>1. /\ sent' = sent \cup {Cast(kind, Round(n), n, d)} \cup J
          /\ J \in SUBSET Justification(Rounds)
      BY Zenon DEF Sending
    <3>2. k # n
      BY <2>1, Zenon
    <3>3. Cast("Prepare", r, k, e) \in sent \cup {Cast(kind, Round(n), n, d)} \cup J
      BY <2>1, <3>1, Zenon
    <3> QED
      BY <3>1, <3>2, <3>3, SendCast
  <2> QED
    BY <2>1, ZenonT(40) DEF AgreementInv, Known, Sending
<1>5. Sends(sent, sent', kind, Round(n), n, d)
  BY ZenonT(40) DEF AgreementInv, Types, Sending, Sends
<1> QED
  BY <1>1, <1>2, <1>3, <1>4, <1>5, Zenon DEF AgreementInv

(* A call that finds nothing to do. *)
LEMMA IdleInv ==
  ASSUME AgreementInv, PollTypes', NEW n \in Honest,
         UNCHANGED <<acc, future, locked, notable, accused, concluded, sent>>,
         \/ UNCHANGED local_state
         \/ local_state' = [local_state EXCEPT ![n] = "PreparedInvalid"] /\ local_state[n] \in {"Start", "Proposed"}
  PROVE  AgreementInv'
<1>1. /\ Types /\ AllGood(acc, future, sent) /\ AllQuiet /\ Unique(sent) /\ InTurn(sent) /\ Remembered
      /\ HonestNotAccused /\ LockProofsCheckOut /\ Known(concluded, sent)
  BY DEF AgreementInv
<1>2. Types'
  BY <1>1, ZenonT(40) DEF Types, LocalStates
<1>3. AllQuiet'
  <2>1. ASSUME NEW k \in Honest PROVE Quiet(k, Round(k), local_state'[k], sent)
    <3>1. Quiet(k, Round(k), local_state[k], sent)
      BY <1>1, ZenonT(40) DEF AllQuiet
    <3>2. \/ local_state'[k] = local_state[k]
          \/ local_state'[k] = "PreparedInvalid" /\ local_state[k] \in {"Start", "Proposed"}
      BY <1>1 DEF Types
    <3> QED
      BY <3>1, <3>2, ZenonT(40) DEF Quiet
  <2> QED
    BY <2>1, ZenonT(40) DEF AllQuiet, Round
<1>4. LockProofsCheckOut'
  BY <1>1, ZenonT(40) DEF LockProofsCheckOut, Prepared, bft_threshold
<1>5. Remembered' /\ HonestNotAccused'
  BY <1>1 DEF Remembered, HonestNotAccused
<1> QED
  BY <1>1, <1>2, <1>3, <1>4, <1>5 DEF AgreementInv

=============================================================================
