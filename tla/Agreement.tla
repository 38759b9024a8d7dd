------------------------------ MODULE Agreement ------------------------------
(***************************************************************************)
(* The honest authorities of one BFT agreement: the Agreement future and   *)
(* its Strategy (substrate/bft/src/generic/mod.rs), each with its own      *)
(* accumulators, exchanging messages with each other and with authorities  *)
(* that may be faulty.                                                     *)
(*                                                                         *)
(* Agreement::poll handles one input at a time and then drives the         *)
(* strategy: poll_once calls propose, prepare, commit and vote_advance in  *)
(* this order, then concludes or changes the round, and is repeated until  *)
(* the watermark (round, local_state) stays the same.  Each of these calls *)
(* is an action, and `polling' says which one is next.  A poll touches     *)
(* only its own authority's state, and its messages leave at its end, so   *)
(* only one authority is polled at a time.                                 *)
(*                                                                         *)
(* Messages are never removed from `sent': they are received late, out of  *)
(* order, more than once or not at all.  An authority that is not honest   *)
(* sends what FaultyMessages says, to whom it wants.                       *)
(***************************************************************************)
EXTENDS Accumulator

CONSTANTS Honest,          \* the authorities that run this code
          MaxFaulty,       \* max_faulty
          Rounds,          \* bound: no authority goes on past these
          Proposer(_),     \* Context::round_proposer
          FaultyMessages,  \* messages of the other authorities
          Verdicts,        \* outcomes of Context::proposal_valid
          Pending,         \* {None} if those futures may not be ready, or {}
          TimeoutRounds    \* rounds whose timeout fires

ASSUME HonestAssumption == Honest \subseteq Authorities

ASSUME RoundsAssumption == Rounds \subseteq Nat /\ 0 \in Rounds

ASSUME MaxFaultyAssumption == MaxFaulty \in Nat

(* None is no value of an option, and no message of the others claims an   *)
(* honest sender: its signature would not check out.                       *)
ASSUME OptionAssumption ==
  None \notin BOOLEAN \cup Justification(Rounds) \cup [digest : Digests, candidate : Digests \cup {None}]

ASSUME OutcomesAssumption ==
  /\ FaultyMessages \subseteq Message(Rounds, Authorities \ Honest)
  /\ Verdicts \subseteq BOOLEAN /\ Pending \subseteq {None}

ASSUME ProposerAssumption == \A r \in Rounds : Proposer(r) \in Authorities

VARIABLES acc,          \* current_accumulator
          future,       \* future_accumulators
          local_state,
          locked,       \* a prepare justification, or None
          notable,      \* notable_candidates
          accused,      \* the keys of `misbehavior'
          concluded,    \* what the future resolved to, or None
          polling,      \* who is being polled, the next call, the watermark
          sent,         \* messages and lock proofs sent by honest authorities
          approved      \* history: <<authority, digest>> evaluated as valid

node_vars == <<acc, future, local_state, locked, notable, accused, concluded>>

vars == <<node_vars, polling, sent, approved>>

bft_threshold == Cardinality(Authorities) - MaxFaulty

Idle == [who |-> None]

Round(n) == acc[n].round_number

(* A mutant of New: f + 1 votes are a threshold. *)
NewWithFewVotes(r) == NewAccumulator(r, MaxFaulty + 1, Proposer(r))

New(r) == NewAccumulator(r, bft_threshold, Proposer(r))

Msg(kind, n, digest) ==
  [kind |-> kind, round |-> Round(n), sender |-> n, digest |-> digest]

(* The justification that a state of n's accumulator carries. *)
JustificationOf(n) ==
  [round |-> Round(n), digest |-> acc[n].state.digest,
   signatures |-> acc[n].state.signatures]

IsLockProof(c) == "signatures" \in DOMAIN c

(* Who may be found to have signed a prepare. *)
Prepared(r, d) ==
  (Authorities \ Honest) \cup
    {n \in Honest : [kind |-> "Prepare", round |-> r, sender |-> n,
                     digest |-> d] \in sent}

Init ==
  /\ acc = [n \in Honest |-> New(0)]
  /\ future = [n \in Honest |-> [r \in Rounds |-> None]]
  /\ local_state = [n \in Honest |-> "Start"]
  /\ locked = [n \in Honest |-> None]
  /\ notable = [n \in Honest |-> {}]
  /\ accused = [n \in Honest |-> {}]
  /\ concluded = [n \in Honest |-> None]
  /\ polling = Idle
  /\ sent = {}
  /\ approved = {}

-----------------------------------------------------------------------------
(* Strategy::import_message: messages of past rounds are dropped. *)
ImportMessageAt(n, m) ==
  LET r == m.round
      target == IF r = Round(n) THEN acc[n]
                ELSE IF future[n][r] = None THEN New(r) ELSE future[n][r]
  IN  /\ acc' = IF r = Round(n)
                THEN [acc EXCEPT ![n] = ImportMessage(target, m)]
                ELSE acc
      /\ future' = IF r > Round(n)
                   THEN [future EXCEPT ![n][r] = ImportMessage(target, m)]
                   ELSE future
      /\ accused' = IF r >= Round(n) /\ Misbehavior(target, m) # None
                    THEN [accused EXCEPT ![n] = @ \cup {m.sender}]
                    ELSE accused

(* import_and_send_message *)
ImportAndSend(n, m) ==
  /\ ImportMessageAt(n, m)
  /\ sent' = sent \cup {m}

(* Mutants of AdvanceToRound: the witnessed proposal is lost; it is stored *)
(* even if there is none.                                                  *)
AdvanceForgetting(n, r) ==
  /\ acc' = [acc EXCEPT ![n] = IF future[n][r] = None THEN New(r)
                                                     ELSE future[n][r]]
  /\ future' = [future EXCEPT ![n] =
                  [q \in Rounds |-> IF q \in (Round(n) + 1)..r THEN None
                                                               ELSE @[q]]]
  /\ local_state' = [local_state EXCEPT ![n] = "Start"]
  /\ UNCHANGED notable

(* advance_to_round: the timeout starts anew, the witnessed proposal is    *)
(* kept, accumulators of the rounds jumped over are dropped.               *)
AdvanceToRound(n, r) ==
  /\ acc' = [acc EXCEPT ![n] = IF future[n][r] = None THEN New(r)
                                                     ELSE future[n][r]]
  /\ future' = [future EXCEPT ![n] =
                  [q \in Rounds |-> IF q \in (Round(n) + 1)..r THEN None
                                                               ELSE @[q]]]
  /\ local_state' = [local_state EXCEPT ![n] = "Start"]
  /\ notable' = [notable EXCEPT ![n] = @ \cup ({acc[n].proposal} \ {None})]

(* import_lock_proof *)
ImportLockProof(n, just) ==
  /\ IF just.round > Round(n)
     THEN AdvanceToRound(n, just.round)
     ELSE UNCHANGED <<acc, future, local_state, notable>>
  /\ locked' = IF locked[n] = None \/ locked[n].round < just.round
               THEN [locked EXCEPT ![n] = just]
               ELSE locked

-----------------------------------------------------------------------------
(* Agreement::poll: one input, or none, and then Strategy::poll.           *)

(* An authority that has to leave the last of the Rounds stops there. *)
Live(n) ==
  /\ polling = Idle
  /\ concluded[n] = None
  /\ acc[n].state.kind # "Advanced"

StartPoll(n) ==
  polling' = [who |-> n, call |-> "propose",
              watermark |-> <<acc'[n].round_number, local_state'[n]>>]

ReceiveMessage(n, m) ==
  /\ Live(n)
  /\ ImportMessageAt(n, m)
  /\ UNCHANGED <<local_state, locked, notable, concluded, sent, approved>>
  /\ StartPoll(n)

(* The justification has been checked by whoever feeds the input stream. *)
ReceiveLockProof(n, just) ==
  /\ Live(n)
  /\ Check(just, bft_threshold, Prepared(just.round, just.digest))
  /\ ImportLockProof(n, just)
  /\ UNCHANGED <<accused, concluded, sent, approved>>
  /\ StartPoll(n)

(* A timer or a future of the context woke the task. *)
Wake(n) ==
  /\ Live(n)
  /\ UNCHANGED <<node_vars, sent, approved>>
  /\ StartPoll(n)

-----------------------------------------------------------------------------
(* Strategy::poll_once *)

Calling(n, call) == polling.who = n /\ polling.call = call

ThenCall(call) == polling' = [polling EXCEPT !.call = call]

(* A mutant of Propose: the primary of the next round proposes. *)
ProposeEarly(n, created) ==
  /\ Calling(n, "propose")
  /\ IF /\ local_state[n] = "Start"
        /\ acc[n].state.kind = "Begin"
        /\ Proposer(Round(n) + 1) = n
        /\ created # None
     THEN /\ ImportAndSend(n, Msg("Propose", n, created))
          /\ local_state' = [local_state EXCEPT ![n] = "Proposed"]
     ELSE UNCHANGED <<acc, future, accused, sent, local_state>>
  /\ UNCHANGED <<locked, notable, concluded, approved>>
  /\ ThenCall("prepare")

(* propose.  `created' is the future of Context::proposal, or None when it *)
(* is not ready; it is not asked for when locked.                          *)
Propose(n, created) ==
  LET proposal == IF locked[n] = None THEN created
                  ELSE IF locked[n].digest \in notable[n]
                       THEN locked[n].digest ELSE None
  IN  /\ Calling(n, "propose")
      /\ IF /\ local_state[n] = "Start"
            /\ acc[n].state.kind = "Begin"
            /\ Proposer(Round(n)) = n
            /\ proposal # None
         THEN LET m == Msg("Propose", n, proposal)
              IN  /\ ImportMessageAt(n, m)
                  /\ sent' = sent \cup {m} \cup ({locked[n]} \ {None})
                  /\ local_state' = [local_state EXCEPT ![n] = "Proposed"]
         ELSE UNCHANGED <<acc, future, accused, sent, local_state>>
      /\ UNCHANGED <<locked, notable, concluded, approved>>
      /\ ThenCall("prepare")

(* A mutant of Prepare: the lock is not looked at. *)
PrepareUnlocked(n, verdict) ==
  /\ Calling(n, "prepare")
  /\ IF /\ local_state[n] \in {"Start", "Proposed"}
        /\ acc[n].state.kind = "Proposed"
        /\ verdict = TRUE
     THEN /\ local_state' = [local_state EXCEPT ![n] = "PreparedValid"]
          /\ ImportAndSend(n, Msg("Prepare", n, acc[n].state.digest))
          /\ approved' = approved \cup {<<n, acc[n].state.digest>>}
     ELSE UNCHANGED <<acc, future, accused, sent, local_state, approved>>
  /\ UNCHANGED <<locked, notable, concluded>>
  /\ ThenCall("commit")

(* prepare.  `verdict' is the future of Context::proposal_valid, or None   *)
(* when it is not ready; a locked authority does not ask.                  *)
Prepare(n, verdict) ==
  LET digest == acc[n].state.digest
      outcome == IF locked[n] = None THEN verdict
                 ELSE IF locked[n].digest = digest THEN TRUE ELSE None
  IN  /\ Calling(n, "prepare")
      /\ IF /\ local_state[n] \in {"Start", "Proposed"}
            /\ acc[n].state.kind = "Proposed"
            /\ outcome # None
         THEN /\ local_state' = [local_state EXCEPT ![n] =
                   IF outcome THEN "PreparedValid" ELSE "PreparedInvalid"]
              /\ IF outcome THEN ImportAndSend(n, Msg("Prepare", n, digest))
                 ELSE UNCHANGED <<acc, future, accused, sent>>
              /\ approved' = IF outcome /\ locked[n] = None
                             THEN approved \cup {<<n, digest>>} ELSE approved
         ELSE UNCHANGED <<acc, future, accused, sent, local_state, approved>>
      /\ UNCHANGED <<locked, notable, concluded>>
      /\ ThenCall("commit")

(* commit *)
Commit(n) ==
  /\ Calling(n, "commit")
  /\ IF /\ local_state[n] \notin {"Committed", "VoteAdvance"}
        /\ acc[n].state.kind = "Prepared"
     THEN /\ locked' = [locked EXCEPT ![n] = JustificationOf(n)]
          /\ ImportAndSend(n, Msg("Commit", n, acc[n].state.digest))
          /\ local_state' = [local_state EXCEPT ![n] = "Committed"]
     ELSE UNCHANGED <<acc, future, accused, sent, local_state, locked>>
  /\ UNCHANGED <<notable, concluded, approved>>
  /\ ThenCall("vote_advance")

(* vote_advance *)
VoteAdvance(n, timed_out) ==
  /\ Calling(n, "vote_advance")
  /\ IF /\ local_state[n] # "VoteAdvance"
        /\ \/ Cardinality(acc[n].advance_round) > MaxFaulty
           \/ local_state[n] = "PreparedInvalid"
           \/ timed_out
     THEN /\ ImportAndSend(n, Msg("AdvanceRound", n, None))
          /\ local_state' = [local_state EXCEPT ![n] = "VoteAdvance"]
     ELSE UNCHANGED <<acc, future, accused, sent, local_state>>
  /\ UNCHANGED <<locked, notable, concluded, approved>>
  /\ ThenCall("conclude")

(* A mutant of PollAgain: one round of polling is enough. *)
PollOnce(n) == polling' = Idle

(* The end of poll_once and of the loop around it: poll again until the    *)
(* watermark stays the same.                                               *)
PollAgain(n) ==
  LET watermark == <<acc'[n].round_number, local_state'[n]>>
  IN  polling' = IF watermark = polling.watermark THEN Idle
                 ELSE [polling EXCEPT !.call = "propose",
                                      !.watermark = watermark]

Conclude(n) ==
  LET st == acc[n].state
  IN  /\ Calling(n, "conclude")
      /\ \/ /\ st.kind = "Committed"
            /\ concluded' = [concluded EXCEPT ![n] =
                 [digest |-> st.digest,
                  candidate |-> IF st.digest \in {acc[n].proposal} \cup notable[n]
                                THEN st.digest ELSE None]]
            /\ polling' = Idle
            /\ UNCHANGED <<acc, future, local_state, locked, notable>>
         \/ /\ st.kind = "Advanced"
            /\ Round(n) + 1 \in Rounds
            /\ locked' = IF st.digest = None THEN locked
                         ELSE [locked EXCEPT ![n] = JustificationOf(n)]
            /\ AdvanceToRound(n, Round(n) + 1)
            /\ UNCHANGED concluded
            /\ PollAgain(n)
         \/ /\ st.kind = "Advanced"
            /\ Round(n) + 1 \notin Rounds
            /\ polling' = Idle
            /\ UNCHANGED <<acc, future, local_state, locked, notable, concluded>>
         \/ /\ st.kind \notin {"Committed", "Advanced"}
            /\ UNCHANGED <<acc, future, local_state, locked, notable, concluded>>
            /\ PollAgain(n)
      /\ UNCHANGED <<accused, sent, approved>>

-----------------------------------------------------------------------------
Receivable == {c \in sent : ~IsLockProof(c)} \cup FaultyMessages

(* A faulty authority, unless it is silent, may assemble a lock proof from *)
(* the prepares it saw.                                                    *)
LockProofs ==
  {c \in sent : IsLockProof(c)} \cup
    IF FaultyMessages = {} THEN {}
    ELSE {[round |-> r, digest |-> d, signatures |-> Prepared(r, d)] :
            r \in Rounds, d \in Digests}

Call(n) ==
  \/ \E created \in Digests \cup Pending : Propose(n, created)
  \/ \E verdict \in Verdicts \cup Pending : Prepare(n, verdict)
  \/ Commit(n)
  \/ \E timed_out \in {Round(n) \in TimeoutRounds, FALSE} :
       VoteAdvance(n, timed_out)
  \/ Conclude(n)

Next ==
  \E n \in Honest :
    \/ \E m \in Receivable : m.sender # n /\ ReceiveMessage(n, m)
    \/ \E just \in LockProofs : ReceiveLockProof(n, just)
    \/ Wake(n)
    \/ Call(n)

Spec == Init /\ [][Next]_vars

(* m would still change n's accumulators. *)
Unheard(n, m) ==
  LET a == IF m.round = Round(n) THEN acc[n] ELSE future[n][m.round]
  IN  /\ m.sender # n
      /\ m.round >= Round(n)
      /\ a # None => ImportMessage(a, m) # a

(* n waits for Context::proposal or for its timer. *)
Waiting(n) ==
  \/ /\ local_state[n] = "Start"
     /\ acc[n].state.kind = "Begin"
     /\ Proposer(Round(n)) = n
     /\ locked[n] = None
  \/ local_state[n] # "VoteAdvance" /\ Round(n) \in TimeoutRounds

(* "The logic here assumes that messages flushed to the output stream will *)
(* eventually reach other nodes."  A poll that was begun runs to its end,  *)
(* and the task is polled again when what it waits for is ready.  Each of  *)
(* these can happen only finitely often, so that fairness to all           *)
(* authorities together is fairness to each.  The strong form is needed as *)
(* only one authority is polled at a time.                                 *)
Fairness ==
  /\ WF_vars(\E n \in Honest : Call(n))
  /\ SF_vars(\E n \in Honest :
               \/ \E m \in Receivable : Unheard(n, m) /\ ReceiveMessage(n, m)
               \/ \E just \in LockProofs :
                    /\ locked[n] # None => locked[n].round < just.round
                    /\ ReceiveLockProof(n, just))
  /\ SF_vars(\E n \in Honest : Waiting(n) /\ Wake(n))
  /\ SF_vars(\E n \in Honest :
               /\ Round(n) \in TimeoutRounds
               /\ local_state[n] # "VoteAdvance"
               /\ VoteAdvance(n, TRUE))

FairSpec == Spec /\ Fairness

-----------------------------------------------------------------------------
Votes(kind) ==
  {<<m.sender, m.round, m.digest>> :
     m \in {c \in sent : ~IsLockProof(c) /\ c.kind = kind}}

Protocol == INSTANCE BftProtocol WITH
  round <- [n \in Honest |-> Round(n)],
  locked <- [n \in Honest |->
               IF locked[n] = None THEN [round |-> -1, digest |-> None]
               ELSE [round |-> locked[n].round, digest |-> locked[n].digest]],
  prepares <- Votes("Prepare"),
  commits <- Votes("Commit"),
  decided <- [n \in Honest |-> IF concluded[n] = None THEN None
                               ELSE concluded[n].digest]

(* The accumulators, the polls and the messages of the code implement the  *)
(* abstract protocol: every call of a poll is a protocol step or changes   *)
(* nothing the protocol sees.  With the theorems of BftProtocolProofs this *)
(* gives agreement between the code's honest authorities.                  *)
ImplementsProtocol == Protocol!Spec

(* No honest authority is ever put into another one's misbehavior map,     *)
(* whatever the order, the repetition and the delay of the messages: the   *)
(* map is turned into on-chain reports.                                    *)
HonestNotAccused == \A n \in Honest : accused[n] \cap Honest = {}

(* An authority that ever voted for the digest that is agreed upon still   *)
(* has the candidate when it concludes, several rounds later too           *)
(* ("look in the candidates of prior rounds just in case").                *)
CandidateKnown ==
  \A n \in Honest : concluded[n] # None =>
    \/ concluded[n].candidate # None
    \/ \A r \in Rounds : <<n, r, concluded[n].digest>> \notin Votes("Prepare")

(* A lock proof that is broadcast passes check_prepare_justification at    *)
(* the receiver, and so does the one an authority is locked to.            *)
LockProofsCheckOut ==
  \A just \in {c \in sent : IsLockProof(c)} \cup {locked[n] : n \in Honest} :
    just # None => Check(just, bft_threshold, Prepared(just.round, just.digest))

(* "technically the agreement will always complete (given the eventual     *)
(* delivery of messages)": the future of every honest authority resolves.  *)
(* An authority that runs out of the bounded rounds is not counted.        *)
AgreementCompletes ==
  <>(\A n \in Honest : concluded[n] # None \/ acc[n].state.kind = "Advanced")

(* What an authority hands on is worth something: the proofs of locks that *)
(* it sends, and the candidate that it concludes with.                     *)
ProofsAndCandidates == LockProofsCheckOut /\ CandidateKnown
=============================================================================
