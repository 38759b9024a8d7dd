----------------------------- MODULE Democracy ------------------------------
(***************************************************************************)
(* Public proposals and referenda (substrate/runtime/democracy/src: lib.rs *)
(* and vote_threshold.rs), the motions of the council that become          *)
(* referenda (substrate/runtime/council/src/voting.rs), and what the two   *)
(* make of a block together.                                               *)
(*                                                                         *)
(* The storage is one record: the accounts of Balances and the items of    *)
(* the modules; a storage map is a function on the keys it has.  A         *)
(* proposal is what it does when it is dispatched (Kind), and its hash is  *)
(* the proposal.  Functions of the democracy module are operators from     *)
(* storage to storage, which the council calls too.  The council changes   *)
(* as an election may change it.                                           *)
(***************************************************************************)
EXTENDS Balances, SequencesExt

CONSTANTS Proposals,
          Kind(_),            \* what a proposal does: "other", "fails", "cancel" or "start"
          Subject(_),         \* the referendum it cancels, or the proposal it starts
          LaunchPeriod, VotingPeriod, MinimumDeposit,
          TotalStake          \* as computed at genesis: nothing changes it later

(* StorageMap::insert and remove *)
Insert(map, key, value) == (key :> value) @@ map
Without(map, key) == [k \in DOMAIN map \ {key} |-> map[k]]

(* GenesisConfig::build_storage; the periods and the deposit are constants. *)
DemocracyGenesis == [public_prop_count |-> 0, referendum_count |-> 0, next_tally |-> 0]

(* The storage of the module in the first block. *)
DemocracyStorage ==
  DemocracyGenesis @@
    [number |-> 1, public_props |-> <<>>, deposit_of |-> <<>>, referendum_info |-> <<>>,
     voters_for |-> <<>>, vote_of |-> <<>>]

-----------------------------------------------------------------------------
(* Vote thresholds *)

RECURSIVE CompareRationals(_, _, _, _)

(* Whether n1 / d1 < n2 / d2, by continued fractions. *)
CompareRationals(n1, d1, n2, d2) ==
  LET q1 == n1 \div d1
      q2 == n2 \div d2
      r1 == n1 % d1
      r2 == n2 % d2
  IN  IF q1 # q2 THEN q1 < q2
      ELSE IF r2 = 0 THEN FALSE
      ELSE IF r1 = 0 THEN TRUE
      ELSE CompareRationals(d2, r2, d1, r1)

IntegerSqrt(n) == CHOOSE r \in 0 .. n : r * r <= n /\ (r + 1) * (r + 1) > n

(* Mutant: the two square roots are swapped. *)
ApprovedSwapped(threshold, approve, against, electorate) ==
  LET voters == IntegerSqrt(approve + against)
      all == IntegerSqrt(electorate)
  IN  /\ voters # 0
      /\ CASE threshold = "SuperMajorityApprove" -> CompareRationals(against, all, approve, voters)
           [] threshold = "SuperMajorityAgainst" -> CompareRationals(against, voters, approve, all)
           [] threshold = "SimpleMajority" -> approve > against

(* VoteThreshold::approved *)
Approved(threshold, approve, against, electorate) ==
  LET voters == IntegerSqrt(approve + against)
      all == IntegerSqrt(electorate)
  IN  /\ voters # 0
      /\ CASE threshold = "SuperMajorityApprove" -> CompareRationals(against, voters, approve, all)
           [] threshold = "SuperMajorityAgainst" -> CompareRationals(against, all, approve, voters)
           [] threshold = "SimpleMajority" -> approve > against

-----------------------------------------------------------------------------
(* Referenda *)

IsActive(s, index) == index \in DOMAIN s.referendum_info

(* inject_referendum: one may not end before the one started last. *)
CanInject(s, end) ==
  LET last == s.referendum_count - 1
  IN  ~(IsActive(s, last) /\ s.referendum_info[last].end > end)

Inject(s, end, proposal, threshold) ==
  [s EXCEPT !.referendum_count = @ + 1,
            !.referendum_info = Insert(@, s.referendum_count,
               [end |-> end, proposal |-> proposal, threshold |-> threshold])]

(* The voters are removed first, so that none is left whose vote would be. *)
ClearReferendum(s, index) ==
  [s EXCEPT !.referendum_info = Without(@, index), !.voters_for = Without(@, index)]

VotersFor(s, index) == IF index \in DOMAIN s.voters_for THEN s.voters_for[index] ELSE <<>>

(* tally: the balances of those who vote one way. *)
Tally(s, index, way) ==
  FoldLeft(LAMBDA sum, a : IF s.vote_of[<<index, a>>] = way
                           THEN Plus(sum, VotingBalance(s, a)) ELSE sum,
           0, VotersFor(s, index))

(* Mutant: a cancelled referendum ends the walk. *)
MaturingReferendumsAtGap(s, n) ==
  LET all == [i \in 1 .. s.referendum_count - s.next_tally |-> s.next_tally + i - 1]
      stop == {i \in DOMAIN all : ~IsActive(s, all[i]) \/ s.referendum_info[all[i]].end # n}
  IN  IF stop = {} THEN all ELSE SubSeq(all, 1, Min(stop) - 1)

(* The active ones from next_tally on, as long as they end at n. *)
MaturingReferendumsAt(s, n) ==
  LET all == [i \in 1 .. s.referendum_count - s.next_tally |-> s.next_tally + i - 1]
      active == SelectSeq(all, LAMBDA i : IsActive(s, i))
      stop == {i \in DOMAIN active : s.referendum_info[active[i]].end # n}
  IN  IF stop = {} THEN active ELSE SubSeq(active, 1, Min(stop) - 1)

(* What dispatching a proposal changes, and whether it returns Ok. *)
Dispatch(s, proposal) ==
  LET end == s.number + VotingPeriod
      ok == CASE Kind(proposal) = "fails" -> FALSE
              [] Kind(proposal) = "start" -> CanInject(s, end)
              [] OTHER -> TRUE
  IN  [ok |-> ok,
       storage |-> CASE Kind(proposal) = "cancel" -> ClearReferendum(s, Subject(proposal))
                     [] Kind(proposal) = "start" /\ ok ->
                          Inject(s, end, Subject(proposal), "SimpleMajority")
                     [] OTHER -> s]

-----------------------------------------------------------------------------
(* The calls *)

CanPropose(s, a, value) == value >= MinimumDeposit /\ CanReserve(s, a, value, s.number)
Propose(s, a, proposal, value) ==
  LET index == s.public_prop_count
  IN  [Reserve(s, a, value) EXCEPT
         !.public_prop_count = index + 1,
         !.deposit_of = Insert(@, index, [value |-> value, who |-> <<a>>]),
         !.public_props = Append(@, [index |-> index, proposal |-> proposal])]

CanSecond(s, a, index) ==
  index \in DOMAIN s.deposit_of /\ CanReserve(s, a, s.deposit_of[index].value, s.number)
Second(s, a, index) ==
  [Reserve(s, a, s.deposit_of[index].value) EXCEPT !.deposit_of[index].who = Append(@, a)]

CanVote(s, a, index) == IsActive(s, index) /\ VotingBalance(s, a) # 0
Vote(s, a, index, approve) ==
  [s EXCEPT !.voters_for = IF <<index, a>> \in DOMAIN s.vote_of THEN @
                           ELSE Insert(@, index, Append(VotersFor(s, index), a)),
            !.vote_of = Insert(@, <<index, a>>, approve)]

-----------------------------------------------------------------------------
(* The end of a block *)

LockedFor(s, index) == s.deposit_of[index].value * Len(s.deposit_of[index].who)

(* max_by_key: the last of those with the most. *)
Winner(s) ==
  LET Most(i) == LockedFor(s, s.public_props[i].index)
  IN  CHOOSE i \in DOMAIN s.public_props : \A j \in DOMAIN s.public_props :
        IF j > i THEN Most(j) < Most(i) ELSE Most(j) <= Most(i)

(* Vec::swap_remove *)
SwapRemove(seq, i) == [j \in 1 .. Len(seq) - 1 |-> IF j = i THEN seq[Len(seq)] ELSE seq[j]]

(* Mutant: only the one who proposed gets the deposit back. *)
RefundFirst(s, deposit) == Unreserve(s, Head(deposit.who), deposit.value)

Refund(s, deposit) ==
  FoldLeft(LAMBDA t, d : Unreserve(t, d, deposit.value), s, deposit.who)

(* The first half of end_block: a public proposal becomes a referendum. *)
Launch(s) ==
  LET prop == s.public_props[Winner(s)]
      taken == [Refund(s, s.deposit_of[prop.index]) EXCEPT
                  !.deposit_of = Without(@, prop.index),
                  !.public_props = SwapRemove(@, Winner(s))]
  IN  IF s.number % LaunchPeriod # 0 \/ s.public_props = <<>> THEN [ok |-> TRUE, storage |-> s]
      ELSE IF ~CanInject(taken, s.number + VotingPeriod) THEN [ok |-> FALSE, storage |-> taken]
      ELSE [ok |-> TRUE,
            storage |-> Inject(taken, s.number + VotingPeriod, prop.proposal, "SuperMajorityApprove")]

(* One referendum of the second half.  After an error the rest is left. *)
Conclude(r, index, info) ==
  LET approve == Tally(r.storage, index, TRUE)
      against == Tally(r.storage, index, FALSE)
      cleared == ClearReferendum(r.storage, index)
      done == IF Approved(info.threshold, approve, against, TotalStake)
              THEN Dispatch(cleared, info.proposal) ELSE [ok |-> TRUE, storage |-> cleared]
  IN  IF ~r.ok THEN r
      ELSE IF ~done.ok THEN done
      ELSE [ok |-> TRUE, storage |-> [done.storage EXCEPT !.next_tally = index + 1]]

(* Democracy::end_block, and whether it got to its end. *)
DemocracyEndBlock(s) ==
  LET launched == Launch(s)
      start == launched.storage
  IN  IF ~launched.ok THEN launched
      ELSE FoldLeft(LAMBDA r, i : Conclude(r, i, start.referendum_info[i]),
                    launched, MaturingReferendumsAt(start, s.number))

-----------------------------------------------------------------------------
(* The council, and blocks. *)

CONSTANTS GenesisIds, GenesisBalances,
          Councils,               \* the councils that may sit, in the order of the list
          CooloffPeriod, MotionPeriod,
          Cooloffs, Periods,      \* the values of the setters
          Deposits,               \* the values of public proposals
          MaxBlock, MaxCalls      \* bounds

VARIABLES s,                      \* the storage
          stalled,                \* history: end_block was left with an error
          calls

vars == <<s, stalled, calls>>

Init ==
  /\ s = GenesisStorage(GenesisIds, GenesisBalances) @@ DemocracyStorage @@
         [active_council |-> CHOOSE c \in Councils : TRUE,
          cooloff_period |-> CooloffPeriod, voting_period |-> MotionPeriod,
          proposals |-> <<>>, proposal_of |-> {}, proposal_voters |-> <<>>,
          council_vote_of |-> <<>>, vetoed |-> <<>>]
  /\ stalled = FALSE
  /\ calls = 0

IsCouncillor(t, a) == \E i \in DOMAIN t.active_council : t.active_council[i].who = a

WillStillBeCouncillorAt(t, a, n) ==
  \E i \in DOMAIN t.active_council :
    t.active_council[i].who = a /\ t.active_council[i].expiry > n

IsVetoed(t, p) == p \in DOMAIN t.vetoed /\ t.number < t.vetoed[p].expiry

-----------------------------------------------------------------------------
(* The calls of councillors; anyone may vote, but only theirs are counted. *)

(* sort_by_key on the expiry: after those that expire no later. *)
Queued(t, motion) ==
  [t EXCEPT !.proposals = SelectSeq(@, LAMBDA m : m.expiry <= motion.expiry) \o <<motion>>
                            \o SelectSeq(@, LAMBDA m : m.expiry > motion.expiry)]

ProposeMotion(a, p) ==
  LET expiry == s.number + s.voting_period
  IN  /\ WillStillBeCouncillorAt(s, a, expiry)
      /\ p \notin s.proposal_of /\ ~IsVetoed(s, p)
      /\ s' = [Queued(s, [expiry |-> expiry, hash |-> p]) EXCEPT
                 !.proposal_of = @ \cup {p},
                 !.proposal_voters = Insert(@, p, <<a>>),
                 !.council_vote_of = Insert(@, <<p, a>>, TRUE)]

VoteOnMotion(a, p, approve) ==
  LET voters == IF p \in DOMAIN s.proposal_voters THEN s.proposal_voters[p] ELSE <<>>
  IN  s' = [s EXCEPT
              !.proposal_voters = IF <<p, a>> \in DOMAIN s.council_vote_of THEN @
                                  ELSE Insert(@, p, Append(voters, a)),
              !.council_vote_of = Insert(@, <<p, a>>, approve)]

(* Without the votes of the council on a motion. *)
Untallied(t, p) ==
  [t EXCEPT !.council_vote_of =
     [k \in {k \in DOMAIN @ : k[1] # p \/ ~IsCouncillor(t, k[2])} |-> @[k]]]

(* Mutant: the motion stays in the queue. *)
DroppedNot(t, p) ==
  [t EXCEPT !.proposal_voters = Without(@, p), !.proposal_of = @ \ {p}]

(* Without the motion itself. *)
Dropped(t, p) ==
  [t EXCEPT !.proposals = SelectSeq(@, LAMBDA m : m.hash # p),
            !.proposal_voters = Without(@, p), !.proposal_of = @ \ {p}]

Veto(a, p) ==
  LET vetoers == IF p \in DOMAIN s.vetoed THEN s.vetoed[p].who ELSE {}
  IN  /\ IsCouncillor(s, a) /\ p \in DOMAIN s.proposal_voters /\ a \notin vetoers
      /\ s' = [Dropped(Untallied(s, p), p) EXCEPT
                 !.vetoed = Insert(@, p, [expiry |-> s.number + s.cooloff_period,
                                          who |-> vetoers \cup {a}])]

SetCooloffPeriod(n) == s' = [s EXCEPT !.cooloff_period = n]
SetVotingPeriod(n) == s' = [s EXCEPT !.voting_period = n]

(* An election; members and their terms come in the order of the list. *)
Elect(c) == c # s.active_council /\ s' = [s EXCEPT !.active_council = c]

-----------------------------------------------------------------------------
(* The calls of the public *)

ProposePublicly(a, p, value) == CanPropose(s, a, value) /\ s' = Propose(s, a, p, value)
SecondPublicly(a, index) == CanSecond(s, a, index) /\ s' = Second(s, a, index)
VotePublicly(a, index, approve) == CanVote(s, a, index) /\ s' = Vote(s, a, index, approve)

-----------------------------------------------------------------------------
(* The end of a block *)

CouncilVotes(t, p, way) ==
  Cardinality({i \in DOMAIN t.active_council :
    LET k == <<p, t.active_council[i].who>>
    IN  k \in DOMAIN t.council_vote_of /\ t.council_vote_of[k] = way})

Started(t, p, threshold) ==
  [ok |-> CanInject(t, t.number + VotingPeriod),
   storage |-> IF CanInject(t, t.number + VotingPeriod)
               THEN Inject(t, t.number + VotingPeriod, p, threshold) ELSE t]

(* What becomes of a motion that expires. *)
Concluded(t, p) ==
  LET approve == CouncilVotes(t, p, TRUE)
      unanimous == approve = Len(t.active_council)
      taken == [Untallied(t, p) EXCEPT !.proposals = Tail(@), !.proposal_of = @ \ {p}]
      passed == [taken EXCEPT !.vetoed = Without(@, p)]
  IN  IF Kind(p) = "cancel"
      THEN [ok |-> TRUE, storage |-> IF unanimous THEN ClearReferendum(taken, Subject(p)) ELSE taken]
      ELSE IF approve > Len(t.active_council) - approve
      THEN Started(passed, p, IF unanimous THEN "SuperMajorityAgainst" ELSE "SimpleMajority")
      ELSE [ok |-> TRUE, storage |-> taken]

RECURSIVE MotionsEndBlock(_)

(* voting::end_block: the motions at the front that expire now. *)
MotionsEndBlock(t) ==
  IF t.proposals = <<>> \/ Head(t.proposals).expiry # t.number THEN [ok |-> TRUE, storage |-> t]
  ELSE LET r == Concluded(t, Head(t.proposals).hash)
       IN  IF r.ok THEN MotionsEndBlock(r.storage) ELSE r

(* The council's part of the block, the public's, and the next block. *)
EndBlock ==
  LET motions == MotionsEndBlock(s)
      public == DemocracyEndBlock(motions.storage)
  IN  /\ s.number < MaxBlock
      /\ s' = [public.storage EXCEPT !.number = @ + 1]
      /\ stalled' = (stalled \/ ~motions.ok \/ ~public.ok)
      /\ UNCHANGED calls

Call ==
  /\ calls < MaxCalls /\ calls' = calls + 1
  /\ \/ \E a \in Accounts, p \in Proposals :
          \/ ProposeMotion(a, p) \/ Veto(a, p)
          \/ \E approve \in BOOLEAN : VoteOnMotion(a, p, approve)
          \/ \E value \in Deposits : ProposePublicly(a, p, value)
     \/ \E a \in Accounts, index \in 0 .. MaxCalls :
          \/ SecondPublicly(a, index)
          \/ \E approve \in BOOLEAN : VotePublicly(a, index, approve)
     \/ \E c \in Councils : Elect(c)
     \/ \E n \in Cooloffs : SetCooloffPeriod(n)
     \/ \E n \in Periods : SetVotingPeriod(n)
  /\ UNCHANGED stalled

Next == EndBlock \/ Call

Spec == Init /\ [][Next]_vars

-----------------------------------------------------------------------------
(* What is reserved of an account is the sum of its deposits for the open  *)
(* proposals, however often it seconded them (propose, second, end_block). *)
DepositsReserved ==
  \A a \in Accounts :
    s.reserved[a] = MapThenSumSet(
      LAMBDA i : s.deposit_of[i].value * Cardinality({j \in DOMAIN s.deposit_of[i].who :
                                                         s.deposit_of[i].who[j] = a}),
      DOMAIN s.deposit_of)

(* No motion and no referendum outlives its last block, however they are   *)
(* queued, vetoed, cancelled and launched, unless a dispatch failed before *)
(* (take_proposal_if_expiring_at, maturing_referendums_at).                *)
NothingOverdue ==
  ~stalled =>
    /\ \A i \in DOMAIN s.proposals : s.proposals[i].expiry >= s.number
    /\ \A i \in DOMAIN s.referendum_info :
         i >= s.next_tally /\ s.referendum_info[i].end >= s.number

(* While a veto lasts the council has no motion on the proposal, and the   *)
(* motions are those whose proposals are stored (propose, veto).           *)
VetoHolds ==
  /\ {s.proposals[i].hash : i \in DOMAIN s.proposals} = s.proposal_of
  /\ \A p \in s.proposal_of : ~IsVetoed(s, p)

(* The thresholds decide as the comparison of the products would.          *)
ThresholdsExact ==
  \A i \in DOMAIN s.referendum_info :
    LET approve == Tally(s, i, TRUE)
        against == Tally(s, i, FALSE)
        voters == IntegerSqrt(approve + against)
        all == IntegerSqrt(TotalStake)
    IN  Approved(s.referendum_info[i].threshold, approve, against, TotalStake) <=>
          /\ voters # 0
          /\ CASE s.referendum_info[i].threshold = "SuperMajorityApprove" -> against * all < approve * voters
               [] s.referendum_info[i].threshold = "SuperMajorityAgainst" -> against * voters < approve * all
               [] OTHER -> against < approve

(* Through motions, vetoes, public proposals, votes and launches: deposits *)
(* are covered, nothing is overdue, vetoes hold, and the thresholds decide *)
(* as they say.                                                            *)
MotionsSound == DepositsReserved /\ NothingOverdue /\ VetoHolds /\ ThresholdsExact
=============================================================================
