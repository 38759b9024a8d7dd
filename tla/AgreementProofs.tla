-------------------------- MODULE AgreementProofs ---------------------------
(***************************************************************************)
(* The honest authorities keep to the protocol of BftProtocol, accuse no   *)
(* other one, and hand on proofs and candidates that are worth something,  *)
(* for any set of authorities, honest or not, and any number of rounds.    *)
(* They agree, then, if few enough are faulty.                             *)
(***************************************************************************)
EXTENDS AgreementInvariant

-----------------------------------------------------------------------------
(* The protocol's view. *)

LEMMA SameCardinality == ASSUME NEW S PROVE Protocol!Cardinality(S) = Cardinality(S)
BY DEF Protocol!Cardinality, Cardinality

LEMMA Enough ==
  ASSUME NEW W \in SUBSET Honest, NEW V, V \subseteq W \cup (Authorities \ Honest),
         Cardinality(V) >= bft_threshold
  PROVE  Protocol!Suffices(W)
<1> DEFINE U == W \cup (Authorities \ Honest)
<1>1. U \subseteq Authorities
  BY HonestAssumption
<1>2. IsFiniteSet(U)
  BY <1>1, AuthoritiesAssumption, FS_Subset
<1>3. Cardinality(V) \in Nat /\ Cardinality(U) \in Nat /\ Cardinality(V) <= Cardinality(U)
  BY <1>2, FS_Subset, FS_CardinalityType
<1>4. Cardinality(U) >= bft_threshold
  BY <1>3, Threshold
<1> QED
  BY <1>4, SameCardinality DEF Protocol!Suffices, Protocol!Threshold, Protocol!Faulty, bft_threshold

(* The votes that an accumulator holds were cast. *)
LEMMA PreparesSuffice ==
  ASSUME AgreementInv, NEW r \in Rounds, NEW d \in Digests, NEW V,
         V \subseteq Prepared(r, d), Cardinality(V) >= bft_threshold
  PROVE  Protocol!PrepareJustified(r, d)
<1> DEFINE W == {n \in Honest : <<n, r, d>> \in Votes("Prepare")}
<1>1. W = {n \in Honest : Cast("Prepare", r, n, d) \in sent}
  BY VotesAreCast, ZenonT(40) DEF AgreementInv, Types, Votes, VotesIn, Sorts
<1>2. V \subseteq W \cup (Authorities \ Honest)
  BY <1>1 DEF Prepared, Cast
<1>3. Protocol!Suffices(W)
  BY <1>2, Enough
<1> QED
  BY <1>3 DEF Protocol!PrepareJustified, Protocol!Voters

LEMMA CommitsSuffice ==
  ASSUME AgreementInv, NEW n \in Honest, NEW d \in Digests,
         Cardinality(VotersFor(acc[n].commits, d)) >= bft_threshold
  PROVE  Protocol!CommitJustified(Round(n), d)
<1> DEFINE W == {k \in Honest : <<k, Round(n), d>> \in Votes("Commit")}
<1>1. W = {k \in Honest : Cast("Commit", Round(n), k, d) \in sent}
  BY VotesAreCast, ZenonT(40) DEF AgreementInv, Types, Votes, VotesIn, Sorts
<1>2. \A k \in Honest : acc[n].commits[k] # None => Cast("Commit", Round(n), k, acc[n].commits[k]) \in sent
  BY SMTT(40) DEF AgreementInv, AllGood, Good, Heard, Round
<1>3. VotersFor(acc[n].commits, d) \subseteq W \cup (Authorities \ Honest)
  BY <1>1, <1>2, NoneAssumption DEF VotersFor
<1>4. Protocol!Suffices(W)
  BY <1>3, Enough
<1> QED
  BY <1>4 DEF Protocol!CommitJustified, Protocol!Voters

(* A justification of n's accumulator. *)
LEMMA OwnJustification ==
  ASSUME AgreementInv, NEW n \in Honest, acc[n].state.kind \in {"Prepared", "Advanced"},
         acc[n].state.digest # None
  PROVE  /\ JustificationOf(n) \in Justification(Rounds) /\ Checked(JustificationOf(n))
         /\ acc[n].state.digest \in Digests /\ Round(n) \in Rounds
         /\ JustificationOf(n).round = Round(n) /\ JustificationOf(n).digest = acc[n].state.digest
<1> DEFINE d == acc[n].state.digest
           V == acc[n].state.signatures
<1>1. acc[n] \in Accumulators /\ Justified(acc[n]) /\ Heard(acc[n], sent)
  BY DEF AgreementInv, AllGood, Good
<1>2. d \in Digests /\ V \subseteq Authorities /\ Round(n) \in Rounds
  BY <1>1, SMTT(40) DEF Accumulators, Option, Round
<1>3. V \subseteq VotersFor(acc[n].prepares, d) /\ Cardinality(V) >= bft_threshold
  BY <1>1, SMTT(40) DEF Justified
<1>4. VotersFor(acc[n].prepares, d) \subseteq Prepared(Round(n), d)
  BY <1>1, <1>2, NoneAssumption, SMTT(40) DEF VotersFor, Prepared, Heard, Cast, Round
<1> QED
  BY <1>2, <1>3, <1>4, Zenon DEF JustificationOf, Checked, Check, Justification

(* The effect of a vote on what the protocol sees. *)
LEMMA SendVotes ==
  ASSUME NEW S, NEW T, NEW kind, NEW r, NEW n, NEW d, Sends(S, T, kind, r, n, d)
  PROVE  /\ VotesIn(T, kind) = VotesIn(S, kind) \cup {<<n, r, d>>}
         /\ \A K : K # kind => VotesIn(T, K) = VotesIn(S, K)
<1>0. PICK J \in SUBSET Justification(Rounds) : T = S \cup {Cast(kind, r, n, d)} \cup J
  BY DEF Sends
<1>1. \A c \in J : IsLockProof(c)
  BY MessageOrProof, SMTT(40)
<1> DEFINE m == Cast(kind, r, n, d)
<1>2. ~IsLockProof(m) /\ m.kind = kind /\ m.sender = n /\ m.round = r /\ m.digest = d
  BY DEF Cast, IsLockProof
<1> HIDE DEF m
<1>3. {c \in T : ~IsLockProof(c) /\ c.kind = kind} = {c \in S : ~IsLockProof(c) /\ c.kind = kind} \cup {m}
  BY <1>0, <1>1, <1>2 DEF m
<1>4. ASSUME NEW K, K # kind
      PROVE  {c \in T : ~IsLockProof(c) /\ c.kind = K} = {c \in S : ~IsLockProof(c) /\ c.kind = K}
  BY <1>0, <1>1, <1>2, <1>4 DEF m
<1> QED
  BY <1>2, <1>3, <1>4 DEF VotesIn

ProtocolStep == Protocol!Next \/ UNCHANGED Protocol!vars

(* Steps that the protocol does not see. *)
LEMMA Unseen ==
  ASSUME \A k \in Honest : acc'[k].round_number = acc[k].round_number,
         UNCHANGED <<locked, approved, concluded>>,
         Votes("Prepare")' = Votes("Prepare"), Votes("Commit")' = Votes("Commit")
  PROVE  ProtocolStep
BY DEF ProtocolStep, Protocol!vars, Round

LEMMA SameVotes == ASSUME UNCHANGED sent, NEW kind PROVE Votes(kind)' = Votes(kind)
BY DEF Votes, IsLockProof

(* A lock as the protocol sees it. *)
Lk(lock) == IF lock = None THEN [round |-> -1, digest |-> None]
            ELSE [round |-> lock.round, digest |-> lock.digest]

LEMMA ReceiveMessageStep ==
  ASSUME AgreementInv, NEW n \in Honest, NEW m \in Receivable, ReceiveMessage(n, m)
  PROVE  ProtocolStep
<1>1. /\ m \in Message(Rounds, Authorities) /\ (m.sender \in Honest => m \in sent)
      /\ ImportMessageAt(n, m) /\ UNCHANGED <<locked, concluded, sent, approved>>
  BY ReceivableMessage DEF ReceiveMessage
<1>2. \A k \in Honest : acc'[k].round_number = acc[k].round_number
  BY <1>1, ImportAt, Zenon DEF AgreementInv, Types
<1> QED
  BY <1>1, <1>2, SameVotes, Unseen

LEMMA ReceiveLockProofStep ==
  ASSUME AgreementInv, NEW n \in Honest, NEW just \in LockProofs, ReceiveLockProof(n, just)
  PROVE  ProtocolStep
<1> DEFINE r == just.round
           d == just.digest
<1>1. /\ just \in Justification(Rounds) /\ Checked(just) /\ ImportLockProof(n, just)
      /\ concluded[n] = None /\ UNCHANGED <<concluded, sent, approved>>
  BY LockProof, Zenon DEF ReceiveLockProof, Live, Checked
<1>2. r \in Rounds /\ d \in Digests /\ r \in Nat
  BY <1>1, RoundsAssumption, ZenonT(40) DEF Justification
<1>3. Protocol!PrepareJustified(r, d)
  BY <1>1, <1>2, PreparesSuffice DEF Checked, Check
<1>4. \A k \in Honest : acc'[k].round_number =
        IF k = n THEN (IF r > acc[n].round_number THEN r ELSE acc[n].round_number) ELSE acc[k].round_number
  <2>1. CASE r > Round(n)
    <3>1. AdvanceToRound(n, r)
      BY <1>1, <2>1, SMTT(40) DEF ImportLockProof
    <3> QED
      BY <1>1, <1>2, <2>1, <3>1, AdvanceStep, SMTT(40) DEF Round
  <2>2. CASE ~(r > Round(n))
    BY <1>1, <2>2 DEF ImportLockProof, Round
  <2> QED
    BY <2>1, <2>2
<1>5. /\ locked \in [Honest -> Option(Justification(Rounds))]
      /\ locked' = IF locked[n] = None \/ locked[n].round < r THEN [locked EXCEPT ![n] = just] ELSE locked
      /\ just # None
  BY <1>1, OptionAssumption, ZenonT(40) DEF AgreementInv, Types, ImportLockProof
<1>6. locked[n] = None \/ locked[n].round < r <=> Lk(locked[n]).round < r
  BY <1>2 DEF Lk
<1>7. Lk(just) = [round |-> r, digest |-> d]
  BY <1>5 DEF Lk
<1>8. [k \in Honest |-> Lk(locked'[k])] =
        IF Lk(locked[n]).round < r THEN [[k \in Honest |-> Lk(locked[k])] EXCEPT ![n] = [round |-> r, digest |-> d]]
        ELSE [k \in Honest |-> Lk(locked[k])]
  BY <1>5, <1>6, <1>7
<1>9. [k \in Honest |-> acc'[k].round_number] =
        [[k \in Honest |-> acc[k].round_number] EXCEPT ![n] = IF r > acc[n].round_number THEN r ELSE acc[n].round_number]
  BY <1>4
<1>10. Votes("Prepare")' = Votes("Prepare") /\ Votes("Commit")' = Votes("Commit")
  BY <1>1, SameVotes
<1>11. Protocol!ImportLockProof(n, r, d)
  BY <1>1, <1>3, <1>8, <1>9, <1>10, Zenon DEF Protocol!ImportLockProof, Protocol!Lock, Round, Lk
<1>12. \E q \in Rounds, e \in Digests : Protocol!ImportLockProof(n, q, e)
  BY <1>2, <1>11
<1> QED
  BY <1>12 DEF ProtocolStep, Protocol!Next

LEMMA WakeStep ==
  ASSUME NEW n \in Honest, Wake(n)
  PROVE  ProtocolStep
BY Unseen, SameVotes DEF Wake, node_vars

LEMMA MsgIsCast == ASSUME NEW kind, NEW n, NEW d PROVE Msg(kind, n, d) = Cast(kind, Round(n), n, d)
BY DEF Msg, Cast

(* propose: the protocol does not see it. *)
LEMMA ProposeStep ==
  ASSUME AgreementInv, NEW n \in Honest, NEW created \in Digests \cup Pending, Propose(n, created)
  PROVE  AgreementInv' /\ ProtocolStep
<1> DEFINE proposal == IF locked[n] = None THEN created
                       ELSE IF locked[n].digest \in notable[n] THEN locked[n].digest ELSE None
           J == {locked[n]} \ {None}
<1>1. Types /\ AllQuiet /\ UNCHANGED <<locked, notable, concluded, approved>>
  BY Zenon DEF AgreementInv, Propose
<1>2. PollTypes' /\ concluded[n] = None
  BY Polled, PollGoesOn, ZenonT(40) DEF Propose, Calls
<1>3. Relocking
  BY <1>1 DEF Relocking, Types
<1>4. CASE /\ local_state[n] = "Start" /\ Proposer(Round(n)) = n /\ proposal # None
           /\ ImportMessageAt(n, Msg("Propose", n, proposal))
           /\ sent' = sent \cup {Msg("Propose", n, proposal)} \cup J
           /\ local_state' = [local_state EXCEPT ![n] = "Proposed"]
  <2>1. locked[n] \in Option(Justification(Rounds)) /\ created \in Option(Digests)
    BY <1>1, OutcomesAssumption DEF Types, Option
  <2>2. proposal \in Digests /\ J \subseteq Justification(Rounds)
    BY <1>4, <2>1, ZenonT(40) DEF Option, Justification
  <2>3. NoVote("Propose", n, Round(n), sent)
    BY <1>1, <1>4 DEF AllQuiet, Quiet
  <2> HIDE DEF proposal
  <2>4. Sending(n, "Propose", proposal, J, "Proposed")
    BY <1>1, <1>4, <2>2, <2>3, MsgIsCast, ZenonT(40) DEF Sending, Sorts, LocalStates, Option
  <2> HIDE DEF J
  <2>5. /\ AgreementInv' /\ \A k \in Honest : acc'[k].round_number = acc[k].round_number
        /\ Sends(sent, sent', "Propose", Round(n), n, proposal)
    BY <1>2, <1>3, <2>4, SendInv, SMTT(40)
  <2>6. VotesIn(sent', "Prepare") = VotesIn(sent, "Prepare") /\ VotesIn(sent', "Commit") = VotesIn(sent, "Commit")
    BY <2>5, SendVotes, SMTT(40)
  <2>7. Votes("Prepare")' = Votes("Prepare") /\ Votes("Commit")' = Votes("Commit")
    BY <2>6 DEF Votes, VotesIn, IsLockProof
  <2> QED
    BY <1>1, <2>5, <2>7, Unseen, ZenonT(40)
<1>5. CASE UNCHANGED <<acc, future, accused, sent, local_state>>
  <2>1. AgreementInv'
    BY <1>1, <1>2, <1>5, IdleInv
  <2> QED
    BY <1>1, <1>5, <2>1, Unseen, SameVotes
<1> QED
  BY <1>4, <1>5, Zenon DEF Propose

(* vote_advance: neither does it see this. *)
LEMMA VoteAdvanceStep ==
  ASSUME AgreementInv, NEW n \in Honest, NEW timed_out, VoteAdvance(n, timed_out)
  PROVE  AgreementInv' /\ ProtocolStep
<1>1. Types /\ UNCHANGED <<locked, notable, concluded, approved>>
  BY SMTT(40) DEF AgreementInv, VoteAdvance
<1>2. PollTypes' /\ concluded[n] = None
  BY Polled, PollGoesOn, SMTT(40) DEF VoteAdvance, Calls
<1>3. Relocking
  BY <1>1 DEF Relocking, Types
<1>4. CASE /\ ImportAndSend(n, Msg("AdvanceRound", n, None))
           /\ local_state' = [local_state EXCEPT ![n] = "VoteAdvance"]
  <2>1. Sending(n, "AdvanceRound", None, {}, "VoteAdvance")
    BY <1>1, <1>4, MsgIsCast, Zenon DEF Sending, ImportAndSend, Sorts, LocalStates, Option
  <2>2. /\ AgreementInv' /\ \A k \in Honest : acc'[k].round_number = acc[k].round_number
        /\ Sends(sent, sent', "AdvanceRound", Round(n), n, None)
    BY <1>2, <1>3, <2>1, SendInv, ZenonT(40)
  <2>3. VotesIn(sent', "Prepare") = VotesIn(sent, "Prepare") /\ VotesIn(sent', "Commit") = VotesIn(sent, "Commit")
    BY <2>2, SendVotes
  <2>4. Votes("Prepare")' = Votes("Prepare") /\ Votes("Commit")' = Votes("Commit")
    BY <2>3 DEF Votes, VotesIn, IsLockProof
  <2> QED
    BY <1>1, <2>2, <2>4, Unseen
<1>5. CASE UNCHANGED <<acc, future, accused, sent, local_state>>
  <2>1. AgreementInv'
    BY <1>1, <1>2, <1>5, IdleInv
  <2> QED
    BY <1>1, <1>5, <2>1, Unseen, SameVotes
<1> QED
  BY <1>4, <1>5 DEF VoteAdvance

(* prepare: a step of the protocol, unless the proposal is found invalid. *)
LEMMA PrepareStep ==
  ASSUME AgreementInv, NEW n \in Honest, NEW verdict \in Verdicts \cup Pending, Prepare(n, verdict)
  PROVE  AgreementInv' /\ ProtocolStep
<1> DEFINE d == acc[n].state.digest
           outcome == IF locked[n] = None THEN verdict
                      ELSE IF locked[n].digest = d THEN TRUE ELSE None
<1>1. Types /\ AllQuiet /\ UNCHANGED <<locked, notable, concluded>>
  BY Zenon DEF AgreementInv, Prepare
<1>2. PollTypes' /\ concluded[n] = None
  BY Polled, PollGoesOn, ZenonT(40) DEF Prepare, Calls
<1>3. Relocking
  BY <1>1 DEF Relocking, Types
<1>4. CASE /\ local_state[n] \in {"Start", "Proposed"} /\ acc[n].state.kind = "Proposed" /\ outcome # None
           /\ outcome /\ ImportAndSend(n, Msg("Prepare", n, d))
           /\ local_state' = [local_state EXCEPT ![n] = "PreparedValid"]
           /\ approved' = IF locked[n] = None THEN approved \cup {<<n, d>>} ELSE approved
  <2>1. d = acc[n].proposal /\ d \in Digests
    BY <1>4, Zenon DEF AgreementInv, AllGood, Good, Justified, Accumulators, Option
  <2>2. NoVote("Prepare", n, Round(n), sent)
    BY <1>1, <1>4, ZenonT(40) DEF AllQuiet, Quiet
  <2>3. locked[n] # None => locked[n].digest = d
    BY <1>4
  <2> HIDE DEF d, outcome
  <2>4. Sending(n, "Prepare", d, {}, "PreparedValid")
    BY <1>1, <1>4, <2>1, <2>2, MsgIsCast, NoneAssumption, Zenon DEF Sending, ImportAndSend, Sorts, LocalStates, Option
  <2>5. /\ AgreementInv' /\ \A k \in Honest : acc'[k].round_number = acc[k].round_number
        /\ Sends(sent, sent', "Prepare", Round(n), n, d)
    BY <1>2, <1>3, <2>4, SendInv, Zenon
  <2>6. /\ VotesIn(sent', "Prepare") = VotesIn(sent, "Prepare") \cup {<<n, Round(n), d>>}
        /\ VotesIn(sent', "Commit") = VotesIn(sent, "Commit")
    <3>1. Sends(sent, sent', "Prepare", Round(n), n, d)
      BY <2>5
    <3>2. VotesIn(sent', "Prepare") = VotesIn(sent, "Prepare") \cup {<<n, Round(n), d>>}
      BY <3>1, SendVotes, SMTT(40)
    <3>3. VotesIn(sent', "Commit") = VotesIn(sent, "Commit")
      BY <3>1, SendVotes, SMTT(40)
    <3> QED
      BY <3>2, <3>3
  <2>7. Votes("Prepare")' = Votes("Prepare") \cup {<<n, Round(n), d>>} /\ Votes("Commit")' = Votes("Commit")
    BY <2>6 DEF Votes, VotesIn, IsLockProof
  <2>8. \A e \in Digests : <<n, Round(n), e>> \notin Votes("Prepare")
    BY <1>1, <2>2, VotesAreCast, Zenon DEF NoVote, Votes, VotesIn, Types, Sorts
  <2>9. Lk(locked[n]) = [round |-> -1, digest |-> None] <=> locked[n] = None
    <3>1. locked[n] # None => locked[n].round \in Nat
      BY <1>1, RoundsAssumption DEF Types, Option, Justification
    <3>2. locked[n] # None => Lk(locked[n]).round # -1
      BY <3>1 DEF Lk
    <3>3. locked[n] = None => Lk(locked[n]) = [round |-> -1, digest |-> None]
      BY DEF Lk
    <3> QED
      BY <3>2, <3>3
  <2>10. Lk(locked[n]) = [round |-> -1, digest |-> None] \/ Lk(locked[n]).digest = d
    BY <2>3 DEF Lk
  <2>11. [k \in Honest |-> Round(k)]' = [k \in Honest |-> Round(k)]
    BY <2>5 DEF Round
  <2>12. Protocol!Prepare(n, d)
    BY <1>1, <1>2, <1>4, <2>7, <2>8, <2>9, <2>10, <2>11, Zenon
       DEF Protocol!Prepare, Protocol!Unlocked, Protocol!Lock, Lk
  <2>13. \E e \in Digests : Protocol!Prepare(n, e)
    BY <2>1, <2>12
  <2> QED
    BY <2>5, <2>13, Zenon DEF ProtocolStep, Protocol!Next
<1>5. CASE /\ local_state[n] \in {"Start", "Proposed"}
           /\ local_state' = [local_state EXCEPT ![n] = "PreparedInvalid"]
           /\ UNCHANGED <<acc, future, accused, sent, approved>>
  <2>1. AgreementInv'
    BY <1>1, <1>2, <1>5, IdleInv
  <2> QED
    BY <1>1, <1>5, <2>1, Unseen, SameVotes
<1>6. CASE UNCHANGED <<acc, future, accused, sent, local_state, approved>>
  <2>1. AgreementInv'
    BY <1>1, <1>2, <1>6, IdleInv
  <2> QED
    BY <1>1, <1>6, <2>1, Unseen, SameVotes
<1>7. outcome # None => outcome \in BOOLEAN
  BY OutcomesAssumption
<1> QED
  BY <1>4, <1>5, <1>6, <1>7, Zenon DEF Prepare

(* commit *)
LEMMA CommitStep ==
  ASSUME AgreementInv, NEW n \in Honest, Commit(n)
  PROVE  AgreementInv' /\ ProtocolStep
<1> DEFINE d == acc[n].state.digest
           just == JustificationOf(n)
<1>1. Types /\ AllQuiet /\ UNCHANGED <<notable, concluded, approved>>
  BY Zenon DEF AgreementInv, Commit
<1>2. PollTypes' /\ concluded[n] = None
  BY Polled, PollGoesOn, Zenon DEF Commit, Calls
<1>3. CASE /\ local_state[n] \notin {"Committed", "VoteAdvance"} /\ acc[n].state.kind = "Prepared"
           /\ locked' = [locked EXCEPT ![n] = just]
           /\ ImportAndSend(n, Msg("Commit", n, d))
           /\ local_state' = [local_state EXCEPT ![n] = "Committed"]
  <2>1. d # None
    BY <1>3, Zenon DEF AgreementInv, AllGood, Good, Justified
  <2>2. /\ just \in Justification(Rounds) /\ Checked(just) /\ d \in Digests /\ Round(n) \in Rounds
        /\ just.round = Round(n) /\ just.digest = d
    BY <1>3, <2>1, OwnJustification, Zenon
  <2>3. NoVote("Commit", n, Round(n), sent)
    BY <1>1, <1>3, ZenonT(40) DEF AllQuiet, Quiet
  <2>4. Protocol!PrepareJustified(Round(n), d)
    BY <2>2, PreparesSuffice DEF Checked, Check
  <2> HIDE DEF d, just
  <2>5. Relocking
    BY <1>1, <1>3, <2>2, Zenon DEF Relocking, Types, Option
  <2>6. Sending(n, "Commit", d, {}, "Committed")
    BY <1>1, <1>3, <2>2, <2>3, MsgIsCast, NoneAssumption, Zenon DEF Sending, ImportAndSend, Sorts, LocalStates, Option
  <2>7. /\ AgreementInv' /\ \A k \in Honest : acc'[k].round_number = acc[k].round_number
        /\ Sends(sent, sent', "Commit", Round(n), n, d)
    BY <1>2, <2>5, <2>6, SendInv, Zenon
  <2>8. /\ VotesIn(sent', "Commit") = VotesIn(sent, "Commit") \cup {<<n, Round(n), d>>}
        /\ VotesIn(sent', "Prepare") = VotesIn(sent, "Prepare")
    <3>1. Sends(sent, sent', "Commit", Round(n), n, d)
      BY <2>7
    <3>2. VotesIn(sent', "Commit") = VotesIn(sent, "Commit") \cup {<<n, Round(n), d>>}
      BY <3>1, SendVotes, SMTT(40)
    <3>3. VotesIn(sent', "Prepare") = VotesIn(sent, "Prepare")
      BY <3>1, SendVotes, SMTT(40)
    <3> QED
      BY <3>2, <3>3
  <2>9. Votes("Commit")' = Votes("Commit") \cup {<<n, Round(n), d>>} /\ Votes("Prepare")' = Votes("Prepare")
    BY <2>8, Zenon DEF Votes, VotesIn, IsLockProof
  <2>10. \A e \in Digests : <<n, Round(n), e>> \notin Votes("Commit")
    BY <1>1, <2>3, VotesAreCast, ZenonT(40) DEF NoVote, Votes, VotesIn, Types, Sorts
  <2>11. Lk(just) = [round |-> Round(n), digest |-> d]
    BY <2>2, OptionAssumption DEF Lk
  <2>12. [k \in Honest |-> Lk(locked'[k])] =
           [[k \in Honest |-> Lk(locked[k])] EXCEPT ![n] = [round |-> Round(n), digest |-> d]]
    BY <1>1, <1>3, <2>11, ZenonT(40) DEF Types
  <2>13. [k \in Honest |-> Round(k)]' = [k \in Honest |-> Round(k)]
    BY <2>7 DEF Round
  <2>14. PICK e \in Digests : e = d
    BY <2>2
  <2>15. Protocol!Commit(n, e)
    BY <1>1, <1>2, <2>4, <2>9, <2>10, <2>12, <2>13, <2>14, ZenonT(40) DEF Protocol!Commit, Protocol!Lock, Lk
  <2> QED
    BY <2>7, <2>15, Zenon DEF ProtocolStep, Protocol!Next
<1>4. CASE UNCHANGED <<acc, future, accused, sent, local_state, locked>>
  <2>1. AgreementInv'
    BY <1>1, <1>2, <1>4, IdleInv
  <2> QED
    BY <1>1, <1>4, <2>1, Unseen, SameVotes
<1> QED
  BY <1>3, <1>4 DEF Commit

(* The end of poll_once: concluding, or going on to the next round. *)
LEMMA ConcludeStep ==
  ASSUME AgreementInv, NEW n \in Honest, Conclude(n)
  PROVE  AgreementInv' /\ ProtocolStep
<1> DEFINE st == acc[n].state
           d == acc[n].state.digest
<1>1. Types /\ UNCHANGED <<accused, sent, approved>> /\ Calling(n, "conclude") /\ concluded[n] = None
  BY Polled, Zenon DEF AgreementInv, Conclude
<1>2. acc[n] \in Accumulators /\ Justified(acc[n]) /\ Round(n) \in Rounds /\ Round(n) \in Nat
  BY RoundsAssumption, Zenon DEF AgreementInv, AllGood, Good, Accumulators, Round
<1>3. Votes("Prepare")' = Votes("Prepare") /\ Votes("Commit")' = Votes("Commit")
  BY <1>1, SameVotes
<1>4. CASE /\ st.kind = "Committed"
           /\ concluded' = [concluded EXCEPT ![n] =
                [digest |-> d, candidate |-> IF d \in {acc[n].proposal} \cup notable[n] THEN d ELSE None]]
           /\ polling' = Idle
           /\ UNCHANGED <<acc, future, local_state, locked, notable>>
  <2>1. d \in Digests /\ d # None /\ Cardinality(VotersFor(acc[n].commits, d)) >= bft_threshold
    BY <1>2, <1>4, ZenonT(40) DEF Accumulators, Option, Justified
  <2>2. Protocol!CommitJustified(Round(n), d)
    BY <2>1, CommitsSuffice
  <2> DEFINE con == [digest |-> d, candidate |-> IF d \in {acc[n].proposal} \cup notable[n] THEN d ELSE None]
  <2>3. con \in [digest : Digests, candidate : Option(Digests)] /\ con # None /\ con.digest = d
    <3>1. con \in [digest : Digests, candidate : Digests \cup {None}] /\ con.digest = d
      BY <2>1
    <3> HIDE DEF con
    <3> QED
      BY <3>1, OptionAssumption DEF Option
  <2>4. con.candidate # None \/ \A r \in Rounds : Cast("Prepare", r, n, con.digest) \notin sent
    BY <2>1, Zenon DEF AgreementInv, Remembered
  <2> HIDE DEF con, d
  <2>5. concluded' = [concluded EXCEPT ![n] = con]
    BY <1>4, Zenon DEF con, d
  <2>6. Types' /\ PollTypes'
    <3>1. concluded' \in [Honest -> Option([digest : Digests, candidate : Option(Digests)])]
      BY <1>1, <2>3, <2>5 DEF Types, Option
    <3>2. Types'
      BY <1>1, <1>4, <3>1 DEF Types
    <3>3. PollTypes'
      BY <1>4 DEF PollTypes, Idle
    <3> QED
      BY <3>2, <3>3
  <2>7. Known(concluded', sent')
    BY <1>1, <2>3, <2>4, <2>5 DEF AgreementInv, Known, Types
  <2>8. AllQuiet' /\ Remembered' /\ HonestNotAccused' /\ AllGood(acc', future', sent')
        /\ Unique(sent') /\ InTurn(sent')
    BY <1>1, <1>4, ZenonT(40) DEF AgreementInv, AllQuiet, Round, Remembered, HonestNotAccused
  <2>9. LockProofsCheckOut'
    BY <1>1, <1>4 DEF AgreementInv, LockProofsCheckOut, Prepared, bft_threshold
  <2>10. [k \in Honest |-> IF concluded'[k] = None THEN None ELSE concluded'[k].digest] =
           [[k \in Honest |-> IF concluded[k] = None THEN None ELSE concluded[k].digest] EXCEPT ![n] = d]
    BY <1>1, <2>3, <2>5 DEF Types
  <2>11. PICK e \in Digests : e = d
    BY <2>1
  <2>12. ProtocolStep
    <3>1. Protocol!Decide(n, e)
      BY <1>1, <1>3, <1>4, <2>2, <2>10, <2>11, Zenon DEF Protocol!Decide, Round
    <3> QED
      BY <3>1 DEF ProtocolStep, Protocol!Next
  <2> QED
    BY <2>6, <2>7, <2>8, <2>9, <2>12 DEF AgreementInv
<1>5. CASE /\ st.kind = "Advanced" /\ Round(n) + 1 \in Rounds
           /\ locked' = IF d = None THEN locked ELSE [locked EXCEPT ![n] = JustificationOf(n)]
           /\ AdvanceToRound(n, Round(n) + 1) /\ UNCHANGED concluded /\ PollAgain(n)
  <2>1. d # None => /\ JustificationOf(n) \in Justification(Rounds) /\ Checked(JustificationOf(n)) /\ d \in Digests
                    /\ JustificationOf(n).round = Round(n) /\ JustificationOf(n).digest = d
    BY <1>5, OwnJustification
  <2>2. Relocking
    BY <1>1, <1>5, <2>1, Zenon DEF Relocking, Types, Option
  <2>3. Round(n) + 1 > Round(n)
    BY <1>2, SMTT(40)
  <2>4. acc' \in [Honest -> Accumulators] /\ local_state' \in [Honest -> LocalStates] => PollTypes'
    BY <1>1, <1>5, PollsAgain
  <2>5. AgreementInv'
    BY <1>1, <1>5, <2>2, <2>3, <2>4, MoveInv, Zenon DEF Relocking
  <2>6. \A k \in Honest : acc'[k].round_number = IF k = n THEN Round(n) + 1 ELSE acc[k].round_number
    BY <1>1, <1>5, <2>3, AdvanceStep, ZenonT(40)
  <2>7. [k \in Honest |-> Round(k)]' = [[k \in Honest |-> Round(k)] EXCEPT ![n] = Round(n) + 1]
    BY <2>6 DEF Round
  <2>8. d # None => /\ Protocol!PrepareJustified(Round(n), d)
                    /\ [k \in Honest |-> Lk(locked'[k])] =
                         [[k \in Honest |-> Lk(locked[k])] EXCEPT ![n] = [round |-> Round(n), digest |-> d]]
    <3>1. SUFFICES ASSUME d # None
                   PROVE  /\ Protocol!PrepareJustified(Round(n), d)
                          /\ [k \in Honest |-> Lk(locked'[k])] =
                               [[k \in Honest |-> Lk(locked[k])] EXCEPT ![n] = [round |-> Round(n), digest |-> d]]
      OBVIOUS
    <3>2. Protocol!PrepareJustified(Round(n), d)
      BY <1>2, <2>1, <3>1, PreparesSuffice, ZenonT(40) DEF Checked, Check
    <3>3. Lk(JustificationOf(n)) = [round |-> Round(n), digest |-> d]
      BY <2>1, <3>1, OptionAssumption, SMTT(40) DEF Lk
    <3>4. locked' = [locked EXCEPT ![n] = JustificationOf(n)]
      BY <1>5, <3>1
    <3> HIDE DEF d
    <3>5. [k \in Honest |-> Lk(locked'[k])] =
            [[k \in Honest |-> Lk(locked[k])] EXCEPT ![n] = [round |-> Round(n), digest |-> d]]
      BY <1>1, <3>3, <3>4, ZenonT(40) DEF Types
    <3> QED
      BY <3>2, <3>5, Zenon
  <2>9. d = None => locked' = locked
    BY <1>5
  <2> HIDE DEF d
  <2>10. Protocol!AdvanceRound(n)
    <3>1. CASE d = None
      BY <1>1, <1>3, <1>5, <2>7, <2>9, <3>1, Zenon DEF Protocol!AdvanceRound
    <3>2. CASE d # None
      BY <1>1, <1>3, <1>5, <2>1, <2>7, <2>8, <3>2, Zenon DEF Protocol!AdvanceRound, Protocol!Lock, Lk
    <3> QED
      BY <3>1, <3>2
  <2> QED
    BY <2>5, <2>10, SMTT(40) DEF ProtocolStep, Protocol!Next
<1>6. CASE UNCHANGED <<acc, future, local_state, locked, notable, concluded>> /\ (polling' = Idle \/ PollAgain(n))
  <2>1. PollTypes'
    <3>1. acc' \in [Honest -> Accumulators] /\ local_state' \in [Honest -> LocalStates]
      BY <1>1, <1>6, ZenonT(40) DEF AgreementInv, AllGood, Types
    <3>2. CASE polling' = Idle
      BY <3>2 DEF PollTypes, Idle
    <3>3. CASE PollAgain(n)
      BY <1>1, <1>6, <3>1, <3>3, PollsAgain
    <3> QED
      BY <1>6, <3>2, <3>3
  <2>2. AgreementInv'
    BY <1>1, <1>6, <2>1, IdleInv
  <2> QED
    BY <1>1, <1>3, <1>6, <2>2, Unseen, Zenon
<1> QED
  BY <1>4, <1>5, <1>6, Zenon DEF Conclude

-----------------------------------------------------------------------------
(* Every step, with the protocol's step that it implements. *)
LEMMA EveryStep ==
  ASSUME AgreementInv, [Next]_vars
  PROVE  AgreementInv' /\ ProtocolStep
<1>1. CASE UNCHANGED vars
  <2>1. UNCHANGED <<node_vars, sent, approved, polling>>
    BY <1>1, SMTT(40) DEF vars
  <2>2. PollTypes'
    BY <2>1 DEF AgreementInv, PollTypes, Idle, node_vars
  <2>3. AgreementInv'
    <3>1. Types' /\ AllQuiet' /\ Remembered' /\ HonestNotAccused' /\ AllGood(acc', future', sent')
          /\ Unique(sent') /\ InTurn(sent') /\ Known(concluded', sent')
      BY <2>1, ZenonT(40) DEF AgreementInv, Types, AllQuiet, Round, Remembered, HonestNotAccused, node_vars
    <3>2. LockProofsCheckOut'
      BY <2>1 DEF AgreementInv, LockProofsCheckOut, Prepared, bft_threshold, node_vars
    <3> QED
      BY <2>2, <3>1, <3>2 DEF AgreementInv
  <2> QED
    BY <2>1, <2>3, Unseen, SameVotes DEF node_vars
<1>2. ASSUME NEW n \in Honest, NEW m \in Receivable, ReceiveMessage(n, m) PROVE AgreementInv' /\ ProtocolStep
  BY <1>2, ReceiveMessageInv, ReceiveMessageStep
<1>3. ASSUME NEW n \in Honest, NEW just \in LockProofs, ReceiveLockProof(n, just)
      PROVE  AgreementInv' /\ ProtocolStep
  BY <1>3, ReceiveLockProofInv, ReceiveLockProofStep
<1>4. ASSUME NEW n \in Honest, Wake(n) PROVE AgreementInv' /\ ProtocolStep
  BY <1>4, WakeInv, WakeStep
<1>5. ASSUME NEW n \in Honest, Call(n) PROVE AgreementInv' /\ ProtocolStep
  BY <1>5, ProposeStep, PrepareStep, CommitStep, VoteAdvanceStep, ConcludeStep DEF Call
<1> QED
  BY <1>1, <1>2, <1>3, <1>4, <1>5 DEF Next

LEMMA AlwaysAgreementInv == Spec => []AgreementInv
<1>1. AgreementInv /\ [Next]_vars => AgreementInv'
  BY EveryStep
<1> QED
  BY <1>1, InitInv, PTL DEF Spec

(* The accumulators, the polls and the messages of the code implement the  *)
(* abstract protocol: every call of a poll is a protocol step or changes   *)
(* nothing the protocol sees.                                              *)
THEOREM ImplementsProtocolHolds == Spec => ImplementsProtocol
<1>1. Init => Protocol!Init
  BY NewGood, RoundsAssumption DEF Init, Protocol!Init, Round, Good, Votes, Protocol!Unlocked, Protocol!Lock
<1>2. AgreementInv /\ [Next]_vars => [Protocol!Next]_(Protocol!vars)
  BY EveryStep DEF ProtocolStep
<1> QED
  BY <1>1, <1>2, AlwaysAgreementInv, PTL DEF Spec, ImplementsProtocol, Protocol!Spec

(* No honest authority is ever put into the misbehavior map of another,    *)
(* whatever the order, the repetition and the delay of the messages.       *)
THEOREM HonestNotAccusedHolds == Spec => []HonestNotAccused
<1>1. AgreementInv => HonestNotAccused
  BY DEF AgreementInv
<1> QED
  BY <1>1, AlwaysAgreementInv, PTL

(* The locks that are sent and held check out, and an authority that voted *)
(* for what is agreed upon has the candidate.                              *)
THEOREM ProofsAndCandidatesHold == Spec => []ProofsAndCandidates
<1>1. AgreementInv => ProofsAndCandidates
  <2>1. SUFFICES ASSUME AgreementInv PROVE CandidateKnown
    BY DEF AgreementInv, ProofsAndCandidates
  <2>2. \A n, r, d : <<n, r, d>> \in Votes("Prepare") <=> Cast("Prepare", r, n, d) \in sent
    BY <2>1, VotesAreCast, Zenon DEF AgreementInv, Types, Votes, VotesIn, Sorts
  <2> QED
    BY <2>1, <2>2 DEF AgreementInv, Known, CandidateKnown
<1> QED
  BY <1>1, AlwaysAgreementInv, PTL

-----------------------------------------------------------------------------
(* What BftProtocolProofs shows of the protocol, the code inherits. *)

ProtocolProofs == INSTANCE BftProtocolProofs WITH
  round <- [n \in Honest |-> Round(n)],
  locked <- [n \in Honest |->
               IF locked[n] = None THEN [round |-> -1, digest |-> None]
               ELSE [round |-> locked[n].round, digest |-> locked[n].digest]],
  prepares <- Votes("Prepare"),
  commits <- Votes("Commit"),
  decided <- [n \in Honest |-> IF concluded[n] = None THEN None
                               ELSE concluded[n].digest]

(* Two honest authorities never conclude with different candidates. *)
HonestAgree ==
  \A m, n \in Honest : concluded[m] # None /\ concluded[n] # None =>
    concluded[m].digest = concluded[n].digest

(* "Should be less than 1/3 of nodes": no more than max_faulty authorities *)
(* are faulty, and three times as many are fewer than all.                 *)
FewFaulty ==
  /\ Cardinality(Authorities \ Honest) <= MaxFaulty
  /\ 3 * MaxFaulty < Cardinality(Authorities)

LEMMA SameProtocol == Protocol!Spec => ProtocolProofs!Spec
<1>1. \A S : Protocol!Cardinality(S) = ProtocolProofs!Cardinality(S)
  BY ZenonT(40) DEF Protocol!Cardinality, ProtocolProofs!Cardinality
<1>2. Protocol!Init => ProtocolProofs!Init
  BY ZenonT(40) DEF Protocol!Init, ProtocolProofs!Init, Protocol!Unlocked, ProtocolProofs!Unlocked,
         Protocol!Lock, ProtocolProofs!Lock
<1>3. \A S : Protocol!Suffices(S) <=> ProtocolProofs!Suffices(S)
  BY <1>1, ZenonT(40) DEF Protocol!Suffices, ProtocolProofs!Suffices, Protocol!Threshold,
     ProtocolProofs!Threshold, Protocol!Faulty, ProtocolProofs!Faulty
<1>4. \A r, d : /\ Protocol!PrepareJustified(r, d) <=> ProtocolProofs!PrepareJustified(r, d)
                /\ Protocol!CommitJustified(r, d) <=> ProtocolProofs!CommitJustified(r, d)
  BY <1>3, ZenonT(40) DEF Protocol!PrepareJustified, ProtocolProofs!PrepareJustified,
     Protocol!CommitJustified, ProtocolProofs!CommitJustified, Protocol!Voters, ProtocolProofs!Voters
<1>5. \A n, d : Protocol!Prepare(n, d) => ProtocolProofs!Prepare(n, d)
  BY ZenonT(40) DEF Protocol!Prepare, ProtocolProofs!Prepare, Protocol!Unlocked, ProtocolProofs!Unlocked,
         Protocol!Lock, ProtocolProofs!Lock
<1>6. \A n, d : Protocol!Commit(n, d) => ProtocolProofs!Commit(n, d)
  BY <1>4, ZenonT(40) DEF Protocol!Commit, ProtocolProofs!Commit, Protocol!Lock, ProtocolProofs!Lock
<1>7. \A n : Protocol!AdvanceRound(n) => ProtocolProofs!AdvanceRound(n)
  BY <1>4, ZenonT(40) DEF Protocol!AdvanceRound, ProtocolProofs!AdvanceRound, Protocol!Lock, ProtocolProofs!Lock
<1>8. \A n, r, d : Protocol!ImportLockProof(n, r, d) => ProtocolProofs!ImportLockProof(n, r, d)
  BY <1>4, ZenonT(40) DEF Protocol!ImportLockProof, ProtocolProofs!ImportLockProof, Protocol!Lock, ProtocolProofs!Lock
<1>9. \A n, d : Protocol!Decide(n, d) => ProtocolProofs!Decide(n, d)
  BY <1>4, ZenonT(40) DEF Protocol!Decide, ProtocolProofs!Decide
<1>10. Protocol!Next => ProtocolProofs!Next
  BY <1>5, <1>6, <1>7, <1>8, <1>9, ZenonT(40) DEF Protocol!Next, ProtocolProofs!Next
<1>11. [Protocol!Next]_(Protocol!vars) => [ProtocolProofs!Next]_(ProtocolProofs!vars)
  BY <1>10, ZenonT(40) DEF Protocol!vars, ProtocolProofs!vars
<1> QED
  BY <1>2, <1>11, PTL DEF Protocol!Spec, ProtocolProofs!Spec

(* The agreement that BftProtocol promises is kept by the accumulators and *)
(* the polls of the code (Agreement, Accumulator in generic).              *)
THEOREM HonestAgreeHolds ==
  ASSUME FewFaulty
  PROVE  Spec => []HonestAgree
<1>1. \A S : ProtocolProofs!Cardinality(S) = Cardinality(S)
  BY ZenonT(40) DEF ProtocolProofs!Cardinality, Cardinality
<1>2. \A S : ProtocolProofs!IsFiniteSet(S) <=> IsFiniteSet(S)
  BY ZenonT(40) DEF ProtocolProofs!IsFiniteSet, IsFiniteSet
<1>3. ProtocolProofs!AuthoritiesAssumption
  BY <1>2, AuthoritiesAssumption, HonestAssumption DEF ProtocolProofs!AuthoritiesAssumption
<1>4. ProtocolProofs!FaultyAssumption
  BY <1>1, MaxFaultyAssumption DEF FewFaulty, ProtocolProofs!FaultyAssumption
<1>5. ProtocolProofs!RoundsAssumption
  BY RoundsAssumption DEF ProtocolProofs!RoundsAssumption
<1>6. ProtocolProofs!NoneAssumption
  BY NoneAssumption DEF ProtocolProofs!NoneAssumption
<1>7. ProtocolProofs!Spec => []ProtocolProofs!Agreement
  BY <1>3, <1>4, <1>5, <1>6, ProtocolProofs!AgreementHolds
<1>8. AgreementInv /\ ProtocolProofs!Agreement => HonestAgree
  BY NoneAssumption DEF ProtocolProofs!Agreement, HonestAgree, AgreementInv, Types, Option
<1> QED
  BY <1>7, <1>8, SameProtocol, ImplementsProtocolHolds, AlwaysAgreementInv, PTL DEF ImplementsProtocol
=============================================================================
