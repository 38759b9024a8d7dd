---------------------------- MODULE Accumulator ----------------------------
(***************************************************************************)
(* The vote accumulator of one round of BFT agreement                      *)
(* (substrate/bft/src/generic/accumulator.rs).                             *)
(*                                                                         *)
(* The code's Accumulator is a record here, and every operation that       *)
(* changes it is an operator from the old record to the new one.  A        *)
(* candidate is identified with its digest, and a signature with its       *)
(* signer, so the signatures of a justification are a set of authorities.  *)
(***************************************************************************)
EXTENDS Integers, FiniteSets

CONSTANTS Authorities,  \* the authorities that may vote
          Digests,      \* candidate digests
          None          \* Rust's Option::None

ASSUME NoneAssumption == None \notin Authorities \cup Digests

ASSUME AuthoritiesAssumption == IsFiniteSet(Authorities)

-----------------------------------------------------------------------------
(* Messages. *)

(* LocalizedMessage: a proposal or a vote, tagged with round and sender. *)
Message(rounds, senders) ==
  [kind : {"Propose", "Prepare", "Commit"}, round : rounds,
   sender : senders, digest : Digests]
    \cup
  [kind : {"AdvanceRound"}, round : rounds,
   sender : senders, digest : {None}]

(* UncheckedJustification: a digest with the signatures of a round. *)
Justification(rounds) ==
  [round : rounds, digest : Digests, signatures : SUBSET Authorities]

(* UncheckedJustification::check.  `signers' are those whose signature     *)
(* check_message accepts.  A set has no duplicate voter.                   *)
Check(just, threshold, signers) ==
  /\ just.signatures \subseteq signers
  /\ Cardinality(just.signatures) >= threshold

-----------------------------------------------------------------------------
(* State: the justification of a state is its digest and signatures.       *)
(* Advanced(None) is an Advanced state without digest.                     *)

State(kind, digest, signatures) ==
  [kind |-> kind, digest |-> digest, signatures |-> signatures]

(* Accumulator::new *)
NewAccumulator(round_number, threshold, round_proposer) ==
  [round_number |-> round_number,
   threshold |-> threshold,
   round_proposer |-> round_proposer,
   proposal |-> None,
   prepares |-> [a \in Authorities |-> None],
   commits |-> [a \in Authorities |-> None],
   vote_counts |-> [d \in Digests |-> [prepared |-> 0, committed |-> 0]],
   advance_round |-> {},
   state |-> State("Begin", None, {})]

-----------------------------------------------------------------------------
(* Importing messages.  A message that reveals misbehaviour leaves the     *)
(* accumulator as it was: the code returns early.                          *)

VotersFor(votes, digest) == {a \in Authorities : votes[a] = digest}

ImportProposal(acc, sender, digest) ==
  IF sender # acc.round_proposer \/ acc.proposal \notin {None, digest}
  THEN acc
  ELSE [acc EXCEPT
          !.proposal = digest,
          !.state = IF @.kind = "Begin" THEN State("Proposed", digest, {})
                                        ELSE @]

(* Every further prepare of a sender is ignored; the threshold is looked   *)
(* at only when a new prepare is counted.                                  *)
ImportPrepare(acc, sender, digest) ==
  IF acc.prepares[sender] # None
  THEN acc
  ELSE LET prepares == [acc.prepares EXCEPT ![sender] = digest]
           count == acc.vote_counts[digest].prepared + 1
       IN  [acc EXCEPT
              !.prepares = prepares,
              !.vote_counts[digest].prepared = count,
              !.state = IF /\ count >= acc.threshold
                           /\ @.kind \in {"Begin", "Proposed"}
                        THEN State("Prepared", digest,
                                   VotersFor(prepares, digest))
                        ELSE @]

(* A threshold of commits is final from every state, Advanced included. *)
ImportCommit(acc, sender, digest) ==
  IF acc.commits[sender] # None
  THEN acc
  ELSE LET commits == [acc.commits EXCEPT ![sender] = digest]
           count == acc.vote_counts[digest].committed + 1
       IN  [acc EXCEPT
              !.commits = commits,
              !.vote_counts[digest].committed = count,
              !.state = IF count >= acc.threshold
                        THEN State("Committed", digest,
                                   VotersFor(commits, digest))
                        ELSE @]

ImportAdvanceRound(acc, sender) ==
  LET advance == acc.advance_round \cup {sender}
  IN  [acc EXCEPT
         !.advance_round = advance,
         !.state = IF Cardinality(advance) < acc.threshold
                      \/ @.kind \in {"Committed", "Advanced"}
                   THEN @
                   ELSE IF @.kind = "Prepared"
                        THEN State("Advanced", @.digest, @.signatures)
                        ELSE State("Advanced", None, {})]

(* Accumulator::import_message *)
ImportMessage(acc, m) ==
  IF m.round # acc.round_number
  THEN acc
  ELSE CASE m.kind = "Propose" -> ImportProposal(acc, m.sender, m.digest)
         [] m.kind = "Prepare" -> ImportPrepare(acc, m.sender, m.digest)
         [] m.kind = "Commit" -> ImportCommit(acc, m.sender, m.digest)
         [] m.kind = "AdvanceRound" -> ImportAdvanceRound(acc, m.sender)

(* The Err(Misbehavior) of import_message, or None.  A report names the    *)
(* earlier and the later digest.                                           *)
Report(kind, acc, m, first) ==
  [kind |-> kind, round |-> acc.round_number, first |-> first,
   second |-> m.digest]

Misbehavior(acc, m) ==
  IF m.round # acc.round_number \/ m.kind = "AdvanceRound" THEN None
  ELSE IF m.kind = "Propose" THEN
    IF m.sender # acc.round_proposer
    THEN Report("ProposeOutOfTurn", acc, m, None)
    ELSE IF acc.proposal \notin {None, m.digest}
         THEN Report("DoublePropose", acc, m, acc.proposal)
         ELSE None
  ELSE IF m.kind = "Prepare" THEN
    IF acc.prepares[m.sender] \notin {None, m.digest}
    THEN Report("DoublePrepare", acc, m, acc.prepares[m.sender])
    ELSE None
  ELSE
    IF acc.commits[m.sender] \notin {None, m.digest}
    THEN Report("DoubleCommit", acc, m, acc.commits[m.sender])
    ELSE None
=============================================================================
