----------------------------- MODULE Evaluation -----------------------------
(***************************************************************************)
(* The proposer logic of the authorities in one agreement                  *)
(* (polkadot/consensus/src/lib.rs: ProposerFactory, Proposer,              *)
(* CreateProposal): who proposes in a round, what is proposed, and when    *)
(* each authority, the proposer too, votes for it.                         *)
(*                                                                         *)
(* Every authority sets up its proposer in its own time, has a statement   *)
(* table whose candidates become includable and not so again               *)
(* (StatementTable), and a clock of its own.  The table of an authority is *)
(* followed while it is looked at, and is anything before.  Time is        *)
(* counted in units of which SECOND make a second and MILLI a millisecond. *)
(***************************************************************************)
EXTENDS Integers, FiniteSets, Sequences

CONSTANTS Authorities,  \* 0..n-1, as they are listed
          Candidates,   \* one for each active parachain
          Seeds,        \* values of the parent's random seed
          Skews,        \* how far the clocks may be ahead
          AllowEmpty,   \* parachain_empty_duration
          MinDelay,     \* DELAY_UNTIL
          Drift,        \* MAX_TIMESTAMP_DRIFT, in seconds
          SECOND, MILLI,
          MaxSetup, MaxProposal,  \* bounds: the last moments to set up and to propose
          MaxTime, MaxRound, MaxFalls,  \* bounds
          None

(* e: seed, skew; now; started: when each authority's proposer was set up; *)
(* inc: the includable candidates of its table; round; counted: what the   *)
(* proposer has read of its table, None before; proposal; voting: the      *)
(* evaluation of the proposal by each authority; vote; falls; together:    *)
(* history, those who had all candidates includable at once.               *)
VARIABLE e

Timing == INSTANCE ProposalTiming
            WITH Initials <- {}, AllowEmpty <- {}, dynamic <- 0, now <- 0, included <- 0,
                 last_included <- 0, deadline <- 0, minimum_passed <- FALSE, polled <- FALSE, ready <- FALSE

N == Cardinality(Authorities)

(* DynamicInclusion::new, with the number of active parachains. *)
Dynamic == Timing!NewDynamicInclusion(Cardinality(Candidates), AllowEmpty)

Init ==
  \E seed \in Seeds, skew \in Skews, round \in 0..MaxRound :
    e = [seed |-> seed, skew |-> skew, now |-> 0, started |-> [a \in Authorities |-> None],
         inc |-> [a \in Authorities |-> {}], round |-> round, counted |-> None, proposal |-> None,
         voting |-> [a \in Authorities |-> None], vote |-> [a \in Authorities |-> None],
         falls |-> 0, together |-> {}]

-----------------------------------------------------------------------------
(* current_timestamp *)
CurrentTimestamp(a) == (e.now + e.skew[a]) \div SECOND

Elapsed(a) == e.now - e.started[a]

(* Proposer::round_proposer, the seed and the list being the parent's. *)
RoundProposer(round) == ((e.seed % N) + round) % N

(* evaluate_initial, of what is left open here: the timestamp. *)
EvaluateInitial(a, p) == p.timestamp <= CurrentTimestamp(a) + Drift

(* The two durations: None if nothing is to be waited for. *)
TimestampDelay(a, p) ==
  IF p.timestamp > CurrentTimestamp(a) THEN (p.timestamp - CurrentTimestamp(a)) * SECOND ELSE 0
CountDelay(a, p) == Timing!AcceptableIn(Dynamic, Elapsed(a), Cardinality(p.heads))

(* Mutant: the shorter of the two. *)
TemporaryDelayShorter(a, p) ==
  IF TimestampDelay(a, p) < CountDelay(a, p) THEN TimestampDelay(a, p) ELSE CountDelay(a, p)

(* The longer of the two. *)
TemporaryDelay(a, p) ==
  IF TimestampDelay(a, p) > CountDelay(a, p) THEN TimestampDelay(a, p) ELSE CountDelay(a, p)

-----------------------------------------------------------------------------
(* Nobody takes longer than the bounds say. *)
Tick ==
  /\ e.now < MaxTime
  /\ e.now >= MaxSetup => \A a \in Authorities : e.started[a] # None
  /\ e.now >= MaxProposal =>
       e.proposal # None /\ \A a \in Authorities : e.voting[a] # None \/ e.vote[a] # None
  /\ e' = [e EXCEPT !.now = @ + 1]

(* ProposerFactory::init *)
InitProposer(a) == e.started[a] = None /\ e' = [e EXCEPT !.started[a] = e.now]

(* The trackers of the table follow its candidates. *)
TrackerUpdated(s, a) ==
  IF s.voting[a] # None /\ s.proposal.heads \subseteq s.inc[a]
  THEN [s EXCEPT !.voting[a].includable = TRUE, !.together = @ \cup {a}] ELSE s

LookedAt(a) ==
  e.vote[a] = None /\ e.started[a] # None
    /\ (e.voting[a] # None \/ (e.proposal = None /\ a = RoundProposer(e.round)))

(* A candidate gets its votes, or is voted invalid. *)
BecomesIncludable(a, c) ==
  /\ LookedAt(a) /\ c \notin e.inc[a]
  /\ e.proposal # None => c \in e.proposal.heads
  /\ e' = TrackerUpdated([e EXCEPT !.inc[a] = @ \cup {c}], a)

BecomesDisputed(a, c) ==
  /\ LookedAt(a) /\ c \in e.inc[a] /\ e.falls < MaxFalls
  /\ e' = TrackerUpdated([e EXCEPT !.inc[a] = @ \ {c}, !.falls = @ + 1], a)

(* SharedTable::includable_count and with_proposal, each under the lock. *)
IncludableCount(a) == Cardinality(e.inc[a])
WithProposal(a) == e.inc[a]

(* CreateProposal::poll: the candidates are counted, and the timing is     *)
(* asked (ProposalTiming) ...                                              *)
CountCandidates(a) ==
  /\ a = RoundProposer(e.round) /\ e.started[a] # None /\ e.proposal = None /\ e.counted = None
  /\ Elapsed(a) >= MinDelay /\ Timing!Acceptable(Dynamic, Elapsed(a), IncludableCount(a))
  /\ e' = [e EXCEPT !.counted = IncludableCount(a)]

(* ... and then the table again for the candidates. *)
ProposeWith(a) ==
  /\ a = RoundProposer(e.round) /\ e.counted # None /\ e.proposal = None
  /\ \E good \in BOOLEAN :
       e' = [e EXCEPT !.proposal = [heads |-> WithProposal(a), timestamp |-> CurrentTimestamp(a), good |-> good]]

(* Mutant: no vote is held back for the candidates. *)
EvaluateUntracked(a) ==
  /\ e.proposal # None /\ e.started[a] # None /\ e.voting[a] = None /\ e.vote[a] = None
  /\ e' = IF ~EvaluateInitial(a, e.proposal) \/ ~e.proposal.good
          THEN [e EXCEPT !.vote[a] = FALSE]
          ELSE [e EXCEPT !.voting[a] = [until |-> e.now + TemporaryDelay(a, e.proposal), includable |-> TRUE]]

(* Proposer::evaluate: a bad proposal is voted against at once, a good one *)
(* is delayed.  The block is executed at once (evaluate_block).            *)
Evaluate(a) ==
  /\ e.proposal # None /\ e.started[a] # None /\ e.voting[a] = None /\ e.vote[a] = None
  /\ \E inc \in SUBSET e.proposal.heads :
       e' = IF ~EvaluateInitial(a, e.proposal) \/ ~e.proposal.good
            THEN [e EXCEPT !.vote[a] = FALSE]
            ELSE TrackerUpdated([e EXCEPT !.inc[a] = inc,
                                          !.voting[a] = [until |-> e.now + TemporaryDelay(a, e.proposal),
                                                         includable |-> FALSE]], a)

(* Includable::poll: the tracker has sent. *)
PollIncludable(a) == e.voting[a].includable

(* All three delays are over. *)
Vote(a) ==
  /\ e.voting[a] # None /\ e.vote[a] = None
  /\ Elapsed(a) >= MinDelay /\ PollIncludable(a) /\ e.now >= e.voting[a].until
  /\ e' = [e EXCEPT !.vote[a] = TRUE]

Works(a) == InitProposer(a) \/ CountCandidates(a) \/ ProposeWith(a) \/ Evaluate(a) \/ Vote(a)

Next ==
  \/ Tick
  \/ \E a \in Authorities :
       Works(a) \/ \E c \in Candidates : BecomesIncludable(a, c) \/ BecomesDisputed(a, c)

Spec == Init /\ [][Next]_e

-----------------------------------------------------------------------------
(* An authority votes for a proposal, its own too, only after its minimum  *)
(* delay, not before the block's timestamp by its own clock, when so many  *)
(* candidates are enough (to the millisecond), and after a moment at which *)
(* its table had all of them includable at once (Proposer::evaluate).      *)
VotesOnTime ==
  [][e' # e => \A a \in Authorities :
       e.vote[a] = None /\ e'.vote[a] = TRUE =>
         /\ Elapsed(a) >= MinDelay
         /\ e.proposal.timestamp <= CurrentTimestamp(a)
         /\ Timing!Acceptable(Dynamic, Elapsed(a) + MILLI - 1, Cardinality(e.proposal.heads))
         /\ a \in e.together]_e
=============================================================================
