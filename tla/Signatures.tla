----------------------------- MODULE Signatures -----------------------------
(***************************************************************************)
(* What the signatures on BFT messages are worth: how an agreement signs   *)
(* and checks proposals, votes and justifications (substrate/bft/src/lib.rs *)
(* and process_message in polkadot/consensus/src/service.rs), and how a    *)
(* report of misbehavior is made from two of them and judged               *)
(* (import_misbehavior in polkadot/consensus/src/lib.rs,                   *)
(* substrate/misbehavior-check/src/lib.rs).                                *)
(*                                                                         *)
(* A node works on top of one block; votes on other blocks are about too.  *)
(* Honest keys sign at most once per block, kind and round; the others     *)
(* have signed everything.  The votes are counted by Accumulator.          *)
(***************************************************************************)
EXTENDS Integers, FiniteSets, Sequences, TLC

CONSTANTS Keys, Authorities, Honest,  \* keys; those of the authorities; of correct nodes
          Local,                      \* this node's key
          Parents, Parent,            \* blocks; the one that is built upon
          Hashes,                     \* the candidates
          Rounds,
          MaxSteps,                   \* bound: signatures and messages
          None

(* g: signed is the signatures of honest keys; acc the accumulator of each *)
(* round; held the signatures of the votes in it; reports the misbehavior. *)
VARIABLE g

Acc == INSTANCE Accumulator WITH Authorities <- Keys, Digests <- Hashes

-----------------------------------------------------------------------------
(* Mutant: up to a half. *)
MaxFaultyHalf(n) == n \div 2

(* max_faulty_of: below a third. *)
MaxFaultyOf(n) == (IF n = 0 THEN 0 ELSE n - 1) \div 3

(* bft_threshold, for the authorities. *)
Threshold == Cardinality(Authorities) - MaxFaultyOf(Cardinality(Authorities))

(* Action: what is signed.  A proposal is signed in full and as a header. *)
Actions(kind, round, hash) ==
  LET action(k) == [kind |-> k, round |-> round, hash |-> hash]
  IN  IF kind = "Propose" THEN <<action("ProposeHeader"), action("Propose")>> ELSE <<action(kind)>>

(* A signature is what was signed and by whom. *)
Sign(key, parent, action) == [key |-> key, parent |-> parent, action |-> action]

Verify(sig, parent, action, signer) == sig = Sign(signer, parent, action)

(* sign_message *)
SignMessage(kind, round, hash, key, parent) ==
  LET actions == Actions(kind, round, hash)
  IN  [kind |-> kind, round |-> round, digest |-> hash, sender |-> key,
       sigs |-> [i \in DOMAIN actions |-> Sign(key, parent, actions[i])]]

(* Mutant: whatever block it was signed on. *)
CheckActionAnywhere(action, parent, sig, signer) ==
  \E p \in Parents : Verify(sig, p, action, signer)

(* check_action *)
CheckAction(action, parent, sig, signer) == Verify(sig, parent, action, signer)

(* check_proposal *)
CheckProposal(m, parent) ==
  /\ m.sender \in Authorities
  /\ \A i \in 1..2 : CheckAction(Actions("Propose", m.round, m.digest)[i], parent, m.sigs[i], m.sender)

(* Mutant: anybody may vote. *)
CheckVoteAnyone(m, parent) ==
  CheckAction(Actions(m.kind, m.round, m.digest)[1], parent, m.sigs[1], m.sender)

(* check_vote *)
CheckVote(m, parent) ==
  /\ m.sender \in Authorities
  /\ CheckAction(Actions(m.kind, m.round, m.digest)[1], parent, m.sigs[1], m.sender)

(* check_justification_signed_message: by authorities, each at most once,  *)
(* and enough of them.  A justification is its signatures and signers.     *)
CheckSigned(just, parent, kind) ==
  LET action == [kind |-> kind, round |-> just.round, hash |-> just.digest]
      signers == {s.signer : s \in just.signatures}
      accepted == {s.signer : s \in {t \in just.signatures :
                     t.signer \in Authorities /\ Verify(t.sig, parent, action, t.signer)}}
  IN  /\ Cardinality(signers) = Cardinality(just.signatures)
      /\ Acc!Check([just EXCEPT !.signatures = signers], Threshold, accepted)

(* check_justification and check_prepare_justification *)
CheckJustification(just, parent) == CheckSigned(just, parent, "Commit")
CheckPrepareJustification(just, parent) == CheckSigned(just, parent, "Prepare")

(* Client::check_justification of a header on top of the parent; that the  *)
(* justification is for this header is not looked at.                      *)
JustifiedHeader(just, parent) == CheckJustification(just, parent)

-----------------------------------------------------------------------------
Init ==
  g = [signed |-> {}, acc |-> [r \in Rounds |-> Acc!NewAccumulator(r, Threshold, Local)],
       held |-> {}, reports |-> {}, steps |-> 0]

(* The signature of the vote that is held for a sender. *)
HeldSig(s, kind, round, sender) ==
  (CHOOSE h \in s.held : h.kind = kind /\ h.round = round /\ h.sender = sender).sig

(* The agreement imports a message: it is counted, or misbehavior. *)
Imported(s, m) ==
  LET bad == Acc!Misbehavior(s.acc[m.round], m)
      new == /\ m.kind # "AdvanceRound"
             /\ \A h \in s.held : h.kind # m.kind \/ h.round # m.round \/ h.sender # m.sender
      report == [target |-> m.sender, kind |-> bad.kind, round |-> m.round,
                 first |-> [hash |-> bad.first,
                            sig |-> IF bad.first = None THEN m.sigs[1]
                                    ELSE HeldSig(s, m.kind, m.round, m.sender)],
                 second |-> [hash |-> m.digest, sig |-> m.sigs[1]]]
  IN  IF bad # None THEN [s EXCEPT !.reports = @ \cup {report}]
      ELSE [s EXCEPT !.acc[m.round] = Acc!ImportMessage(@, m),
                     !.held = IF new THEN @ \cup {[kind |-> m.kind, round |-> m.round,
                                                   sender |-> m.sender, sig |-> m.sigs[1]]}
                              ELSE @]

(* process_message, of a message about the parent of the agreement: its    *)
(* own and those that do not check out are ignored.                        *)
Processed(s, m) ==
  IF /\ m.sender # Local
     /\ IF m.kind = "Propose" THEN CheckProposal(m, Parent) ELSE CheckVote(m, Parent)
  THEN Imported(s, m) ELSE s

Kinds == {"Propose", "Prepare", "Commit", "AdvanceRound"}
HashesFor(kind) == IF kind = "AdvanceRound" THEN {None} ELSE Hashes

Step == g.steps < MaxSteps
Counted(s) == [s EXCEPT !.steps = g.steps + 1]

(* An honest node signs, once; a node's own message is imported at once    *)
(* (sign_local, import_and_send_message).                                  *)
SignLocal(key, parent, kind, round, hash) ==
  LET m == SignMessage(kind, round, hash, key, parent)
      s == [g EXCEPT !.signed = @ \cup {m.sigs[i] : i \in DOMAIN m.sigs}]
  IN  /\ Step
      /\ \A sig \in g.signed : ~(sig.key = key /\ sig.parent = parent
                                 /\ sig.action.kind = kind /\ sig.action.round = round)
      /\ kind = "Propose" => key = Local
      /\ g' = Counted(IF key = Local /\ parent = Parent THEN Imported(s, m) ELSE s)

(* A message comes from the network with the signatures of some message    *)
(* that was signed, and may differ from that one in one respect.           *)
Receive(says, was, parent) ==
  LET m == [SignMessage(says.kind, says.round, says.hash, says.key, Parent)
              EXCEPT !.sigs = SignMessage(was.kind, was.round, was.hash, was.key, parent).sigs]
  IN  /\ Step /\ (was.key = says.key \/ was.hash = says.hash) /\ (parent = Parent \/ was = says)
      /\ was.key \in Honest => \A i \in DOMAIN m.sigs : m.sigs[i] \in g.signed
      /\ g' = Counted(Processed(g, m))
      /\ g' # Counted(g)

Claims(kind) == [kind : {kind}, round : Rounds, hash : HashesFor(kind), key : Keys]

Next ==
  \E kind \in Kinds, parent \in Parents :
    \/ \E key \in Honest, round \in Rounds, hash \in HashesFor(kind) : SignLocal(key, parent, kind, round, hash)
    \/ \E says \in Claims(kind), was \in Claims(kind) : Receive(says, was, parent)

Spec == Init /\ [][Next]_g

-----------------------------------------------------------------------------
(* Mutant: a double commit is looked for among the prepares. *)
EvaluateMisbehaviorPrepares(target, parent, report) ==
  LET check(v) == Verify(v.sig, parent, [kind |-> "Prepare", round |-> report.round, hash |-> v.hash], target)
  IN  report.first.sig # report.second.sig /\ check(report.first) /\ check(report.second)

(* evaluate_misbehavior *)
EvaluateMisbehavior(target, parent, report) ==
  LET kind == IF report.kind = "DoublePrepare" THEN "Prepare" ELSE "Commit"
      check(v) == Verify(v.sig, parent, [kind |-> kind, round |-> report.round, hash |-> v.hash], target)
  IN  report.first.sig # report.second.sig /\ check(report.first) /\ check(report.second)

(* import_misbehavior: what is reported to the chain. *)
Filed == {r \in g.reports : r.kind \in {"DoublePrepare", "DoubleCommit"}}

(* The justification of a round's state. *)
JustificationOf(round, kind) ==
  LET state == g.acc[round].state
  IN  [round |-> round, digest |-> state.digest,
       signatures |-> {[signer |-> a, sig |-> HeldSig(g, kind, round, a)] : a \in state.signatures}]

(* Every report that a node files holds on the chain, and none is about a  *)
(* node that follows the protocol, whatever it signed on other blocks      *)
(* (import_misbehavior, evaluate_misbehavior, check_vote).                 *)
ReportsConfirmed ==
  \A r \in Filed : EvaluateMisbehavior(r.target, Parent, r) /\ r.target \notin Honest

(* The signatures that an agreement collects pass the check of every other *)
(* node: those of commits when it imports the block (check_justification), *)
(* those of prepares when it takes over a lock                             *)
(* (check_prepare_justification).                                          *)
JustificationsAccepted ==
  \A r \in Rounds :
    LET state == g.acc[r].state
    IN  /\ state.kind = "Committed" => JustifiedHeader(JustificationOf(r, "Commit"), Parent)
        /\ state.kind = "Prepared" => CheckPrepareJustification(JustificationOf(r, "Prepare"), Parent)

(* From all the signatures there are, those of faulty nodes and those on   *)
(* other blocks included, no two justifications of different candidates    *)
(* can be made for one round (bft_threshold, UncheckedJustification::check).*)
OneJustification ==
  \A r \in Rounds, kind \in {"Prepare", "Commit"} :
    LET made(d) == {[signer |-> k, sig |-> Sign(k, Parent, [kind |-> kind, round |-> r, hash |-> d])] :
                      k \in {j \in Authorities : j \notin Honest
                               \/ Sign(j, Parent, [kind |-> kind, round |-> r, hash |-> d]) \in g.signed}}
        passes(d) == CheckSigned([round |-> r, digest |-> d, signatures |-> made(d)], Parent, kind)
    IN  \A d, e \in Hashes : passes(d) /\ passes(e) => d = e

(* What a node collects convinces the other nodes and the chain, and no    *)
(* more than that can be collected.                                        *)
SignaturesSound == ReportsConfirmed /\ JustificationsAccepted /\ OneJustification
=============================================================================
