---------------------------- MODULE SharedTable ----------------------------
(***************************************************************************)
(* The statement table as an authority uses it                             *)
(* (polkadot/consensus/src/shared_table): imports start checks of the      *)
(* candidates this authority is to check, and wake those who wait for      *)
(* candidates to become includable.  Every call holds the lock.            *)
(*                                                                         *)
(* Fetching block data and extrinsics, and the check itself, are the       *)
(* router's and the runtime's: they answer when and what they like.        *)
(***************************************************************************)
EXTENDS StatementTable

CONSTANTS Local,        \* the local authority
          Voices,       \* the statements of others
          Sources,      \* the peers that pass statements on, or None
          Targets,      \* the sets of authorities that batches are for
          MaxHeard,     \* bound: different remote statements
          MaxTrackers   \* bound: calls of track_includability

ASSUME VoicesAssumption == Voices \subseteq Statements

VARIABLES table,
          proposed_digest,
          checked_validity, checked_availability,
          trackers,   \* IncludabilitySender per call: tracking, count, live
          producers,  \* StatementProducers with work
          finished,   \* history: producers that have resolved
          started,    \* history: how many checks were begun, per candidate
          signed,     \* history: local statements
          heard,      \* history: remote statements
          timely,     \* history: those imported when their candidate was known
          sent        \* history: the statements in batches to each authority

shared == <<table, proposed_digest, checked_validity, checked_availability, trackers>>
vars == <<shared, producers, finished, started, signed, heard, timely, sent>>

IsMember(d) == Local \in Members[GroupOf[d]]
IsGuarantor(d) == Local \in Guarantors[GroupOf[d]]

Init ==
  /\ table = NewTable
  /\ proposed_digest = None
  /\ checked_validity = {} /\ checked_availability = {}
  /\ trackers = <<>>
  /\ producers = {}
  /\ finished = {}
  /\ started = [d \in Candidates |-> [validity |-> 0, availability |-> 0]]
  /\ signed = {}
  /\ heard = {} /\ timely = {}
  /\ sent = [a \in Authorities |-> {}]

-----------------------------------------------------------------------------
(* includable.rs *)

(* IncludabilitySender::try_complete; a sender that has sent is not live. *)
TryComplete(tr) ==
  [tr EXCEPT !.live = @ /\ tr.count # Cardinality(DOMAIN tr.tracking)]

(* IncludabilitySender::update_candidate *)
UpdateCandidate(tr, d, includable) ==
  IF d \notin DOMAIN tr.tracking THEN TryComplete(tr)
  ELSE LET old == tr.tracking[d]
       IN  TryComplete([tr EXCEPT !.tracking[d] = includable,
                                  !.count = IF ~old /\ includable THEN @ + 1
                                            ELSE IF old /\ ~includable THEN @ - 1
                                            ELSE @])

(* track *)
Track(tb, S) ==
  TryComplete([tracking |-> [d \in S |-> CandidateIncludable(tb, d)],
               count |-> Cardinality({d \in S : CandidateIncludable(tb, d)}),
               live |-> TRUE])

(* Mutant: nobody is woken. *)
UpdateTrackersNever(tb, d) == trackers

(* SharedTableInner::update_trackers: the live ones are in the list. *)
UpdateTrackers(tb, d) ==
  [i \in 1..Len(trackers) |->
     IF trackers[i].live THEN UpdateCandidate(trackers[i], d, CandidateIncludable(tb, d))
     ELSE trackers[i]]

-----------------------------------------------------------------------------
(* The checks that an import about candidate d calls for. *)
CheckingValidity(d) ==
  IsMember(d) /\ proposed_digest # d /\ d \notin checked_validity

CheckingAvailability(d) == IsGuarantor(d) /\ d \notin checked_availability

NewWork(d, evaluate, extrinsic) ==
  [digest |-> d, evaluate |-> evaluate, fetch_extrinsic |-> extrinsic,
   block_data |-> FALSE, extrinsic |-> FALSE]

(* The producer for an import about d, with the work it has, if any. *)
StartWork(d) ==
  LET v == CheckingValidity(d)
      a == CheckingAvailability(d)
  IN  /\ producers' = producers \cup IF v \/ a THEN {NewWork(d, v, a)} ELSE {}
      /\ started' = [started EXCEPT ![d].validity = IF v THEN @ + 1 ELSE @,
                                    ![d].availability = IF a THEN @ + 1 ELSE @]

Heard(s) ==
  /\ Cardinality(heard \cup {s}) <= MaxHeard
  /\ heard' = heard \cup {s}
  /\ timely' = IF s.kind = "Candidate" \/ table.votes[s.digest] # None
               THEN timely \cup {s} ELSE timely

(* Mutant: that a check was begun is not remembered. *)
ImportRemoteForgetful(s, from) ==
  LET r == ImportStatement(table, s, from)
      d == r.summary
  IN  /\ Heard(s)
      /\ table' = r.tb
      /\ IF d = None THEN UNCHANGED <<trackers, producers, started>>
         ELSE /\ trackers' = UpdateTrackers(r.tb, d)
              /\ StartWork(d)
      /\ UNCHANGED <<checked_validity, checked_availability,
                     proposed_digest, finished, signed, sent>>

(* SharedTableInner::import_statement with a remote source. *)
ImportRemote(s, from) ==
  LET r == ImportStatement(table, s, from)
      d == r.summary
  IN  /\ Heard(s)
      /\ table' = r.tb
      /\ IF d = None
         THEN UNCHANGED <<trackers, producers, started,
                         checked_validity, checked_availability>>
         ELSE /\ trackers' = UpdateTrackers(r.tb, d)
              /\ checked_validity' = IF CheckingValidity(d)
                                     THEN checked_validity \cup {d} ELSE checked_validity
              /\ checked_availability' = IF CheckingAvailability(d)
                                         THEN checked_availability \cup {d}
                                         ELSE checked_availability
              /\ StartWork(d)
      /\ UNCHANGED <<proposed_digest, finished, signed, sent>>

(* sign_and_import of the local candidate, by CreateProposal::poll.  An    *)
(* import from the local source returns at once.                           *)
SignAndImport(d) ==
  /\ proposed_digest = None
  /\ IsMember(d)
  /\ proposed_digest' = d
  /\ signed' = signed \cup {Statement("Candidate", d, Local)}
  /\ UNCHANGED <<table, checked_validity, checked_availability, trackers,
                 producers, finished, started, heard, timely, sent>>

(* track_includability, called by Proposer::evaluate. *)
TrackIncludability(S) ==
  /\ Len(trackers) < MaxTrackers
  /\ trackers' = Append(trackers, Track(table, S))
  /\ UNCHANGED <<table, proposed_digest, checked_validity, checked_availability,
                 producers, finished, started, signed, heard, timely, sent>>

(* StatementProducer::poll: what is ready is taken, and the producer       *)
(* resolves when it has been evaluated or both parts are there.            *)
PollProducer(w, block_ready, extrinsic_ready, good) ==
  LET block == w.block_data \/ block_ready
      ext == w.extrinsic \/ extrinsic_ready
      now == [w EXCEPT !.block_data = block, !.extrinsic = ext]
      verdict == IF w.evaluate THEN {IF good THEN "Valid" ELSE "Invalid"} ELSE {}
      available == IF ~w.evaluate THEN {"Available"} ELSE {}
  IN  /\ block_ready => ~w.block_data
      /\ extrinsic_ready => w.fetch_extrinsic /\ ~w.extrinsic
      /\ block_ready \/ extrinsic_ready
      /\ IF block /\ (w.evaluate \/ ext)
         THEN /\ producers' = producers \ {w}
              /\ finished' = finished \cup
                   {[work |-> now, produced |-> verdict \cup available]}
         ELSE /\ producers' = (producers \ {w}) \cup {now}
              /\ UNCHANGED finished
      /\ UNCHANGED <<shared, started, signed, heard, timely, sent>>

(* A fetch fails, and the producer with it. *)
FailProducer(w) ==
  /\ producers' = producers \ {w}
  /\ UNCHANGED <<shared, finished, started, signed, heard, timely, sent>>

(* fill_batch: a batch with something in it is sent. *)
FillBatch(targets, batch) ==
  /\ batch # {}
  /\ table' = NoteSent(table, targets, batch)
  /\ sent' = [a \in Authorities |->
                IF a \in targets THEN sent[a] \cup batch ELSE sent[a]]
  /\ UNCHANGED <<proposed_digest, checked_validity, checked_availability, trackers,
                 producers, finished, started, signed, heard, timely>>

Next ==
  \/ \E s \in Voices, from \in Sources : ImportRemote(s, from)
  \/ \E targets \in Targets : \E batch \in Batches(table, targets) :
       FillBatch(targets, batch)
  \/ \E d \in Candidates : SignAndImport(d)
  \/ \E S \in SUBSET Candidates : TrackIncludability(S)
  \/ \E w \in producers, b, e, good \in BOOLEAN : PollProducer(w, b, e, good)
  \/ \E w \in producers : FailProducer(w)

Spec == Init /\ [][Next]_vars

-----------------------------------------------------------------------------
(* The number kept per group is the number of its candidates that can be   *)
(* included now, so that no group is skipped and none is counted twice.    *)
IncludableCountExact ==
  \A g \in Groups :
    table.includable[g] =
      Cardinality({d \in Candidates : GroupOf[d] = g /\ CandidateIncludable(table, d)})

(* A proposer gets a candidate of every group that includable_count        *)
(* counts, only one of each, and only candidates that can be included.     *)
OneProposedPerGroup ==
  \A g \in Groups :
    LET proposed == {d \in ProposedCandidates(table) : GroupOf[d] = g}
    IN  /\ table.includable[g] > 0 <=> proposed # {}
        /\ \A d, e \in proposed : d = e /\ CandidateIncludable(table, d)

Authorized(s) ==
  s.sender \in IF s.kind = "Available" THEN Guarantors[GroupOf[s.digest]]
                                       ELSE Members[GroupOf[s.digest]]

(* Misbehavior is reported with statements that the authority did make,    *)
(* and that no authority may make together.                                *)
ReportsAreTrue ==
  \A a \in Authorities :
    LET m == table.misbehavior[a]
    IN  m # None =>
          /\ m.proof \subseteq heard
          /\ \A s \in m.proof : s.sender = a
          /\ \/ Cardinality(m.proof) = 2
             \/ \A s \in m.proof : ~Authorized(s)

(* An authority has one vote on a candidate, of those it cast.  All that   *)
(* it was entitled to say in time is counted, unless it misbehaved.        *)
VotesAreHeard ==
  /\ Stored(table) \subseteq {s \in timely : Authorized(s)}
  /\ \A s \in timely : Authorized(s) /\ table.misbehavior[s.sender] = None =>
       s \in Stored(table)

(* A vote is not relayed to a peer that has never been told the candidate: *)
(* it would drop the vote.                                                 *)
CandidateBeforeVotes ==
  \A a \in Authorities : \A s \in sent[a] :
    \E t \in sent[a] \cup heard :
      /\ t.kind = "Candidate" /\ t.digest = s.digest
      /\ t \in sent[a] \/ Trace(t) \in table.known[a]

(* A tracker that waits knows exactly which of its candidates are          *)
(* includable in the table now, and not all of them are: no wake-up is     *)
(* missed, whatever order candidates become includable or bad in.          *)
TrackersCurrent ==
  \A i \in 1..Len(trackers) :
    LET tr == trackers[i]
    IN  tr.live =>
          /\ \A d \in DOMAIN tr.tracking :
               tr.tracking[d] = CandidateIncludable(table, d)
          /\ \E d \in DOMAIN tr.tracking : ~CandidateIncludable(table, d)

(* No candidate is evaluated twice, or fetched twice for availability, and *)
(* none at all that others are to check.                                   *)
CheckedOnce ==
  \A d \in Candidates :
    /\ started[d].validity <= IF IsMember(d) THEN 1 ELSE 0
    /\ started[d].availability <= IF IsGuarantor(d) THEN 1 ELSE 0

(* Includable candidates are counted, proposed, and those that wait for    *)
(* them told, exactly (includable_count, proposed_candidates,              *)
(* update_trackers, track_includability).                                  *)
IncludableTracked == IncludableCountExact /\ OneProposedPerGroup /\ TrackersCurrent

(* What the table holds and reports is what was said (import_statement).   *)
StatementsTrue == ReportsAreTrue /\ VotesAreHeard

(* What follows from a statement, relaying and checking, is done in order  *)
(* and once (fill_batch, import_statement).                                *)
RelayedAndChecked == CandidateBeforeVotes /\ CheckedOnce

-----------------------------------------------------------------------------
(* A small instance for TLC: three authorities, of which the local one     *)
(* checks the validity of candidate 1 and the availability of candidate 2. *)
TwoChains == <<"p1", "p2">>
Validators == [p1 |-> {"me", "a1"}, p2 |-> {"a1", "a2"}]
Holders == [p1 |-> {"a1"}, p2 |-> {"me", "a2"}]
OneEach == [p1 |-> 1, p2 |-> 1]

(* What the others may say, and some votes without authority.  That        *)
(* candidate 2 is invalid is left to a1.                                   *)
OfOthers ==
  {s \in [kind : Kinds, digest : Candidates, sender : {"a1", "a2"}] :
     s.kind = "Available" => s.sender \in Holders[TwoChains[s.digest]] \/ s.sender = "a1"}
  \ ({Statement(kind, 1, "a2") : kind \in {"Candidate", "Invalid"}}
       \cup {Statement("Invalid", 2, "a2")})

(* Batches go to one of the others. *)
Peers == {{"a2"}}
=============================================================================
