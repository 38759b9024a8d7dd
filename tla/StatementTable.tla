--------------------------- MODULE StatementTable ---------------------------
(***************************************************************************)
(* The table of statements about parachain candidates                      *)
(* (polkadot/statement-table/src/generic.rs).  A table is a record and     *)
(* every operation an operator on it.                                      *)
(*                                                                         *)
(* A candidate is its digest, a number, so that candidates are ordered.    *)
(* Signatures are left out: two signatures on one vote count as one vote.  *)
(***************************************************************************)
EXTENDS Integers, Sequences, FiniteSets

CONSTANTS Authorities, Groups, Candidates,
          GroupOf,     \* candidate_group
          Members,     \* is_member_of, per group
          Guarantors,  \* is_availability_guarantor_of, per group
          NeededValidity, NeededAvailability,  \* requisite_votes, per group
          None

ASSUME CandidatesAssumption ==
  /\ Candidates \subseteq Nat /\ IsFiniteSet(Candidates) /\ None \notin Candidates
  /\ GroupOf \in [Candidates -> Groups]

(* A group of validators decides by half of its votes, rounded up.         *)
ASSUME NeededAssumption ==
  \A g \in Groups : Members[g] # {} => NeededValidity[g] \in Nat \ {0}

Statement(kind, digest, sender) ==
  [kind |-> kind, digest |-> digest, sender |-> sender]

Kinds == {"Candidate", "Valid", "Invalid", "Available"}

Statements == [kind : Kinds, digest : Candidates, sender : Authorities]

(* The votes on a candidate, and the misbehavior of an authority.          *)
CandidateData ==
  [validity : UNION {[S -> {"Issued", "Valid", "Invalid"}] : S \in SUBSET Authorities},
   availability : SUBSET Authorities, bad : SUBSET Authorities]

Misbehavior ==
  [kind : {"UnauthorizedStatement", "ValidityDoubleVote", "MultipleCandidates"},
   proof : SUBSET Statements]

ASSUME OptionAssumption == None \notin CandidateData /\ None \notin Misbehavior

(* StatementTrace: that of a candidate does not name its digest. *)
Trace(s) == IF s.kind = "Candidate" THEN <<"Candidate", s.sender>>
                                    ELSE <<s.kind, s.sender, s.digest>>

NewTable ==
  [proposal |-> [a \in Authorities |-> None],
   known |-> [a \in Authorities |-> {}],
   misbehavior |-> [a \in Authorities |-> None],
   votes |-> [d \in Candidates |-> None],
   includable |-> [g \in Groups |-> 0]]

NewCandidateData == [validity |-> <<>>, availability |-> {}, bad |-> {}]

(* CandidateData::can_be_included *)
CanBeIncluded(data, g) ==
  /\ data.bad = {}
  /\ Cardinality(DOMAIN data.validity) >= NeededValidity[g]
  /\ Cardinality(data.availability) >= NeededAvailability[g]

(* Table::candidate_includable *)
CandidateIncludable(tb, d) ==
  tb.votes[d] # None /\ CanBeIncluded(tb.votes[d], GroupOf[d])

(* Table::proposed_candidates: the least includable candidate per group. *)
ProposedCandidates(tb) ==
  LET eligible == {d \in Candidates : /\ tb.includable[GroupOf[d]] > 0
                                      /\ CandidateIncludable(tb, d)}
  IN  {d \in eligible : \A e \in eligible : GroupOf[e] = GroupOf[d] => d <= e}

-----------------------------------------------------------------------------
(* The result of an import: the new table, the candidate of the summary    *)
(* and the misbehavior that was seen.                                      *)
Result(tb, summary, misbehavior) ==
  [tb |-> tb, summary |-> summary, misbehavior |-> misbehavior]

Unauthorized(s) == [kind |-> "UnauthorizedStatement", proof |-> {s}]

DoubleVote(a, d, x, y) ==
  LET Says(vote) == Statement(IF vote = "Issued" THEN "Candidate" ELSE vote, d, a)
  IN  [kind |-> "ValidityDoubleVote", proof |-> {Says(x), Says(y)}]

MultipleCandidates(a, first, second) ==
  [kind |-> "MultipleCandidates",
   proof |-> {Statement("Candidate", first, a), Statement("Candidate", second, a)}]

(* Mutant: a candidate that is called bad stays counted. *)
UpdateIncludableCountUp(count, was, is) == IF ~was /\ is THEN count + 1 ELSE count

(* update_includable_count; an entry that is gone is 0. *)
UpdateIncludableCount(count, was, is) ==
  IF was /\ ~is /\ count > 0 THEN count - 1
  ELSE IF ~was /\ is THEN count + 1
  ELSE count

(* The table with new data for a candidate. *)
Store(tb, d, data) ==
  LET g == GroupOf[d]
  IN  [tb EXCEPT !.votes[d] = data,
                 !.includable[g] = UpdateIncludableCount(@,
                    CanBeIncluded(tb.votes[d], g), CanBeIncluded(data, g))]

(* Mutant: anybody's vote on validity is counted. *)
ValidityVoteUnchecked(tb, a, d, vote) ==
  IF tb.votes[d] = None \/ a \in DOMAIN tb.votes[d].validity
  THEN Result(tb, None, None)
  ELSE LET data == tb.votes[d]
           cast == [b \in DOMAIN data.validity \cup {a} |->
                      IF b = a THEN vote ELSE data.validity[b]]
       IN  Result(Store(tb, d, [data EXCEPT !.validity = cast,
                    !.bad = IF vote = "Invalid" THEN @ \cup {a} ELSE @]), d, None)

(* Mutant: a repeated vote is taken for a double vote. *)
ValidityVoteStrict(tb, a, d, vote) ==
  LET data == tb.votes[d]
      cast == [b \in DOMAIN data.validity \cup {a} |->
                 IF b = a THEN vote ELSE data.validity[b]]
  IN  IF data = None THEN Result(tb, None, None)
      ELSE IF a \notin Members[GroupOf[d]]
      THEN Result(tb, None, Unauthorized(Statement(vote, d, a)))
      ELSE IF a \in DOMAIN data.validity
      THEN Result(tb, None, DoubleVote(a, d, data.validity[a], vote))
      ELSE Result(Store(tb, d, [data EXCEPT !.validity = cast,
                    !.bad = IF vote = "Invalid" THEN @ \cup {a} ELSE @]), d, None)

(* Table::validity_vote *)
ValidityVote(tb, a, d, vote) ==
  LET data == tb.votes[d]
      cast == [b \in DOMAIN data.validity \cup {a} |->
                 IF b = a THEN vote ELSE data.validity[b]]
  IN  IF data = None THEN Result(tb, None, None)
      ELSE IF a \notin Members[GroupOf[d]]
      THEN Result(tb, None, Unauthorized(Statement(vote, d, a)))
      ELSE IF a \in DOMAIN data.validity
      THEN Result(tb, None, IF data.validity[a] = vote THEN None
                            ELSE DoubleVote(a, d, data.validity[a], vote))
      ELSE Result(Store(tb, d, [data EXCEPT !.validity = cast,
                    !.bad = IF vote = "Invalid" THEN @ \cup {a} ELSE @]), d, None)

(* Table::availability_vote *)
AvailabilityVote(tb, a, d) ==
  IF tb.votes[d] = None THEN Result(tb, None, None)
  ELSE IF a \notin Guarantors[GroupOf[d]]
  THEN Result(tb, None, Unauthorized(Statement("Available", d, a)))
  ELSE Result(Store(tb, d, [tb.votes[d] EXCEPT !.availability = @ \cup {a}]), d, None)

(* Table::import_candidate *)
ImportCandidate(tb, a, d) ==
  IF a \notin Members[GroupOf[d]]
  THEN Result(tb, None, Unauthorized(Statement("Candidate", d, a)))
  ELSE IF tb.proposal[a] # None /\ tb.proposal[a] # d
  THEN Result(tb, None, MultipleCandidates(a, tb.proposal[a], d))
  ELSE ValidityVote(
         IF tb.proposal[a] = d THEN tb
         ELSE [tb EXCEPT !.proposal[a] = d,
                         !.votes[d] = IF @ = None THEN NewCandidateData ELSE @],
         a, d, "Issued")

(* Table::note_trace_seen *)
NoteTraceSeen(tb, trace, a) == [tb EXCEPT !.known[a] = @ \cup {trace}]

(* Table::import_statement: from is an authority or None. *)
ImportStatement(tb, s, from) ==
  LET r == CASE s.kind = "Candidate" -> ImportCandidate(tb, s.sender, s.digest)
             [] s.kind = "Available" -> AvailabilityVote(tb, s.sender, s.digest)
             [] OTHER -> ValidityVote(tb, s.sender, s.digest, s.kind)
      seen == IF from = None THEN r.tb ELSE NoteTraceSeen(r.tb, Trace(s), from)
  IN  IF r.misbehavior # None
      THEN [r EXCEPT !.tb.misbehavior[s.sender] = r.misbehavior]
      ELSE [r EXCEPT !.tb = NoteTraceSeen(seen, Trace(s), s.sender)]

-----------------------------------------------------------------------------
(* The statements that can be made again from the votes for d, in three    *)
(* classes that are sent one after the other.                              *)
Issuances(tb, d) ==
  IF tb.votes[d] = None THEN {}
  ELSE {Statement("Candidate", d, a) :
          a \in {b \in DOMAIN tb.votes[d].validity : tb.votes[d].validity[b] = "Issued"}}

Verdicts(tb, d) ==
  IF tb.votes[d] = None THEN {}
  ELSE {Statement(tb.votes[d].validity[a], d, a) :
          a \in {b \in DOMAIN tb.votes[d].validity : tb.votes[d].validity[b] # "Issued"}}

Availabilities(tb, d) ==
  IF tb.votes[d] = None THEN {}
  ELSE {Statement("Available", d, a) : a \in tb.votes[d].availability}

Stored(tb) ==
  UNION {Issuances(tb, d) \cup Verdicts(tb, d) \cup Availabilities(tb, d) : d \in Candidates}

(* Those that some target has not seen. *)
Sendable(tb, targets) ==
  {s \in Stored(tb) : \E t \in targets : Trace(s) \notin tb.known[t]}

(* Mutant: the classes of statements are not kept in order. *)
BatchesAnyOrder(tb, targets) == SUBSET Sendable(tb, targets)

(* Table::fill_batch.  Candidates are taken in any order, and the batch    *)
(* may be full at any point: the possible batches are those that leave no  *)
(* gap in the order of the code.                                           *)
Batches(tb, targets) ==
  LET Send(S) == S \cap Sendable(tb, targets)
      Part(B, S) == B \cap S
      Whole(B, S) == Send(S) \subseteq B
      Of(d) == Issuances(tb, d) \cup Verdicts(tb, d) \cup Availabilities(tb, d)
  IN  {B \in SUBSET Sendable(tb, targets) :
         /\ Cardinality({d \in Candidates : Part(B, Of(d)) # {} /\ ~Whole(B, Of(d))}) <= 1
         /\ \A d \in Candidates :
              /\ Part(B, Verdicts(tb, d)) # {} => Whole(B, Issuances(tb, d))
              /\ Part(B, Availabilities(tb, d)) # {} =>
                   Whole(B, Issuances(tb, d) \cup Verdicts(tb, d))}

(* The targets know what was sent. *)
NoteSent(tb, targets, batch) ==
  [tb EXCEPT !.known = [a \in Authorities |->
     IF a \in targets THEN @[a] \cup {Trace(s) : s \in batch} ELSE @[a]]]
=============================================================================
