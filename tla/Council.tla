------------------------------ MODULE Council -------------------------------
(***************************************************************************)
(* The elections of the council (substrate/runtime/council/src/lib.rs):    *)
(* approval voting on slots of a candidate list, a tally that candidates   *)
(* present themselves for, and terms that end.                             *)
(*                                                                         *)
(* The storage is one record: the accounts of Balances and the items of    *)
(* the module.  A call that the code refuses changes nothing, and is not a *)
(* step; indices that a caller must give right are the right ones.         *)
(***************************************************************************)
EXTENDS Balances, SequencesExt

CONSTANTS GenesisIds, GenesisBalances,
          Voting,                \* the accounts that vote and present
          Running,               \* the accounts that run, and may be members
          CandidacyBond, VotingBond, PresentSlashPerVoter, CarryCount,
          InactiveGracePeriod, VotingPeriod,
          IndexModulus,          \* 2^32, the width of a VoteIndex and of a usize
          PresentationDuration, TermDuration, DesiredSeats,  \* at genesis
          Approvals,             \* the vectors of approvals that are tried
          Seats, Durations,      \* the values of the setters
          MaxBlock, MaxSlots, MaxCalls,    \* bounds
          Nobody                 \* AccountId::default()

VARIABLES s,                     \* the storage
          meant,                 \* history: the candidates a voter last chose from
          calls                  \* the calls so far

vars == <<s, meant, calls>>

Unregistered == [registered |-> FALSE]
NotPresenting == [active |-> FALSE]

(* GenesisConfig::build_storage, with no councillors yet. *)
CouncilGenesis ==
  [desired_seats |-> DesiredSeats, presentation_duration |-> PresentationDuration,
   term_duration |-> TermDuration, active_council |-> <<>>]

Init ==
  /\ s = GenesisStorage(GenesisIds, GenesisBalances) @@ CouncilGenesis @@
       [number |-> 1, vote_count |-> 0,
        approvals_of |-> [a \in Accounts |-> <<>>],
        register_info_of |-> [a \in Accounts |-> Unregistered],
        last_active_of |-> [a \in Accounts |-> {}],
        voters |-> <<>>, candidates |-> <<>>, candidate_count |-> 0,
        next_finalise |-> NotPresenting, snapshoted_stakes |-> <<>>, leaderboard |-> <<>>]
  /\ meant = [a \in Accounts |-> <<>>]
  /\ calls = 0

Presenting == s.next_finalise.active
IsVoter(a) == s.last_active_of[a] # {}
LastActive(a) == CHOOSE i \in s.last_active_of[a] : TRUE
Registered(a) == s.register_info_of[a].registered

(* Whether the approvals of voter count for the candidate in slot since then. *)
Approves(t, voter, info) ==
  /\ \E b \in t.last_active_of[voter] : b >= info.since
  /\ info.slot \in DOMAIN t.approvals_of[voter] /\ t.approvals_of[voter][info.slot]

-----------------------------------------------------------------------------
(* The calls of voters and candidates *)

SetApprovals(a, votes) ==
  /\ ~Presenting
  /\ IsVoter(a) \/ CanReserve(s, a, VotingBond, s.number)
  /\ s' = [(IF IsVoter(a) THEN s ELSE Reserve(s, a, VotingBond)) EXCEPT
             !.voters = IF IsVoter(a) THEN @ ELSE Append(@, a),
             !.approvals_of[a] = votes, !.last_active_of[a] = {s.vote_count}]
  /\ meant' = [meant EXCEPT ![a] = s.candidates]

(* Vec::swap_remove *)
SwapRemove(seq, i) == [j \in 1 .. Len(seq) - 1 |-> IF j = i THEN seq[Len(seq)] ELSE seq[j]]

(* Mutant: the voter stays in the map of the active ones. *)
RemoveVoterActive(t, a) ==
  [t EXCEPT !.voters = SwapRemove(@, CHOOSE i \in DOMAIN @ : @[i] = a), !.approvals_of[a] = <<>>]

RemoveVoter(t, a) ==
  [t EXCEPT !.voters = SwapRemove(@, CHOOSE i \in DOMAIN @ : @[i] = a),
            !.approvals_of[a] = <<>>, !.last_active_of[a] = {}]

(* Whether nobody that who approved of is still in the slot. *)
Inactive(who) ==
  ~\E i \in DOMAIN s.approvals_of[who] \cap DOMAIN s.candidates :
     /\ s.approvals_of[who][i] /\ s.candidates[i] # Nobody
     /\ Registered(s.candidates[i])
     /\ s.register_info_of[s.candidates[i]].since <= LastActive(who)

(* The difference of indices wraps before the first votes are over. *)
ReapInactiveVoter(a, who) ==
  /\ ~Presenting /\ IsVoter(a) /\ IsVoter(who)
  /\ LastActive(who) < (s.vote_count - InactiveGracePeriod) % IndexModulus
  /\ s' = IF Inactive(who) THEN TransferReserved(RemoveVoter(s, who), who, a, VotingBond)
          ELSE SlashReserved(RemoveVoter(s, a), a, VotingBond).storage
  /\ UNCHANGED meant

RetractVoter(a) ==
  /\ ~Presenting /\ IsVoter(a)
  /\ s' = Unreserve(RemoveVoter(s, a), a, VotingBond)
  /\ UNCHANGED meant

SubmitCandidacy(a, slot) ==
  /\ ~Registered(a)
  /\ \/ slot = s.candidate_count + 1 /\ s.candidate_count = Len(s.candidates)
     \/ slot \in DOMAIN s.candidates /\ s.candidates[slot] = Nobody
  /\ CanReserve(s, a, CandidacyBond, s.number)
  /\ s' = [Reserve(s, a, CandidacyBond) EXCEPT
             !.candidates = IF slot > Len(@) THEN Append(@, a) ELSE [@ EXCEPT ![slot] = a],
             !.candidate_count = @ + 1,
             !.register_info_of[a] = [registered |-> TRUE, since |-> s.vote_count, slot |-> slot]]
  /\ UNCHANGED meant

(* What a candidate got by the snapshot. *)
ActualTotal(info) ==
  FoldLeft(LAMBDA sum, i : IF Approves(s, s.voters[i], info)
                           THEN Plus(sum, s.snapshoted_stakes[i]) ELSE sum,
           0, [i \in DOMAIN s.voters |-> i])

(* The lowest entry makes room; sort_by_key keeps the order of equals. *)
Placed(board, total, who) ==
  LET rest == Tail(board)
      Below(e) == e.total < total
  IN  SelectSeq(rest, Below) \o <<[total |-> total, who |-> who]>>
        \o SelectSeq(rest, LAMBDA e : ~Below(e))

(* Mutant: a member whose term does not end may be presented. *)
PresentableAnyone(who) == TRUE

(* It would not be on the council twice. *)
Presentable(who) ==
  \A i \in DOMAIN s.active_council :
    s.active_council[i].who = who => i <= Len(s.next_finalise.expiring)

(* A wrong total costs the presenter; nothing is undone. *)
PresentWinner(a, who, total) ==
  LET punishment == PresentSlashPerVoter * Len(s.voters)
      dupe == \E i \in DOMAIN s.leaderboard : s.leaderboard[i].who = who
  IN  /\ Presenting /\ s.free[a] >= punishment
      /\ total > s.leaderboard[1].total
      /\ Presentable(who) /\ Registered(who)
      /\ s' = IF total = ActualTotal(s.register_info_of[who]) /\ ~dupe
              THEN [s EXCEPT !.leaderboard = Placed(@, total, who)]
              ELSE Slash(s, a, punishment).storage
      /\ UNCHANGED meant

-----------------------------------------------------------------------------
(* The privileged calls *)

SetDesiredSeats(n) == s' = [s EXCEPT !.desired_seats = n]
SetPresentationDuration(n) == s' = [s EXCEPT !.presentation_duration = n]
SetTermDuration(n) == s' = [s EXCEPT !.term_duration = n]

RemoveMember(who) ==
  s' = [s EXCEPT !.active_council = SelectSeq(@, LAMBDA m : m.who # who)]

Privileged ==
  /\ \/ \E n \in Seats : SetDesiredSeats(n)
     \/ \E n \in Durations : SetPresentationDuration(n) \/ SetTermDuration(n)
     \/ \E a \in Running : RemoveMember(a)
  /\ UNCHANGED meant

-----------------------------------------------------------------------------
(* The end of a block *)

NextVoteFrom(n) == ((n + VotingPeriod - 1) \div VotingPeriod) * VotingPeriod

(* The block of the next tally, as a set of at most one. *)
NextTally ==
  LET c == s.active_council
      coming == IF Presenting THEN s.next_finalise.coming ELSE 0
      possible == IF Presenting THEN s.next_finalise.at ELSE s.number
      count == IF Presenting
               THEN (Len(c) - Len(s.next_finalise.expiring) + coming) % IndexModulus ELSE Len(c)
      due == IF count < s.desired_seats THEN possible
             ELSE IF s.desired_seats <= coming THEN possible + s.term_duration
             ELSE c[Len(c) - (s.desired_seats - coming) + 1].expiry
  IN  IF s.desired_seats = 0 THEN {} ELSE {NextVoteFrom(due)}

(* take_while: the members at the front whose terms end now. *)
Expiring(t) ==
  LET n == CHOOSE n \in 0 .. Len(t.active_council) :
             /\ \A i \in 1 .. n : t.active_council[i].expiry = t.number
             /\ n < Len(t.active_council) => t.active_council[n + 1].expiry # t.number
  IN  [i \in 1 .. n |-> t.active_council[i].who]

StartTally(t) ==
  LET empty == t.desired_seats - (Len(t.active_council) - Len(Expiring(t)))
  IN  IF empty <= 0 THEN t
      ELSE [t EXCEPT
              !.next_finalise = [active |-> TRUE, at |-> t.number + t.presentation_duration,
                                 coming |-> empty, expiring |-> Expiring(t)],
              !.snapshoted_stakes = [i \in DOMAIN t.voters |-> VotingBalance(t, t.voters[i])],
              !.leaderboard = [i \in 1 .. empty + CarryCount |-> [total |-> 0, who |-> Nobody]]]

(* sort_by_key on the expiry, which keeps the order of equals. *)
ByExpiry(council) ==
  FoldLeft(LAMBDA acc, m : SelectSeq(acc, LAMBDA k : k.expiry <= m.expiry) \o <<m>>
                             \o SelectSeq(acc, LAMBDA k : k.expiry > m.expiry),
           <<>>, council)

(* Without the empty slots at the end, if a slot is taken at all. *)
Truncated(list) ==
  IF \A i \in DOMAIN list : list[i] = Nobody THEN list
  ELSE SubSeq(list, 1, CHOOSE i \in DOMAIN list :
                         list[i] # Nobody /\ \A j \in i + 1 .. Len(list) : list[j] = Nobody)

(* Mutant: the index of the vote stays. *)
NextVoteSame(t) == t

NextVote(t) == [t EXCEPT !.vote_count = @ + 1]

FinaliseTally(t) ==
  LET presented == Reverse(SelectSeq(t.leaderboard, LAMBDA e : e.total # 0))
      split == Least(t.next_finalise.coming, Len(presented))
      elected == SubSeq(presented, 1, split)
      runners == {presented[i].who : i \in split + 1 .. Len(presented)}
      kept == {a \in runners : t.register_info_of[a].registered}
      paid == FoldLeft(LAMBDA r, e : Unreserve(r, e.who, CandidacyBond), t, elected)
      council == SubSeq(t.active_council, Len(t.next_finalise.expiring) + 1, Len(t.active_council))
                   \o [i \in DOMAIN elected |-> [who |-> elected[i].who,
                                                 expiry |-> t.number + t.term_duration]]
      list == [i \in DOMAIN t.candidates |->
                 IF \E a \in kept : t.register_info_of[a].slot = i
                 THEN CHOOSE a \in kept : t.register_info_of[a].slot = i ELSE Nobody]
  IN  NextVote([paid EXCEPT
         !.snapshoted_stakes = <<>>, !.next_finalise = NotPresenting, !.leaderboard = <<>>,
         !.active_council = ByExpiry(council),
         !.register_info_of = [a \in Accounts |->
            IF \E i \in DOMAIN list : t.candidates[i] = a /\ list[i] # a THEN Unregistered ELSE @[a]],
         !.candidates = Truncated(list),
         !.candidate_count = Cardinality(kept)])

(* Council::end_block, and the number of the next block. *)
EndBlock ==
  LET tally == s.number % VotingPeriod = 0 /\ s.number \in NextTally
      t == IF tally THEN StartTally(s) ELSE s
      u == IF t.next_finalise.active /\ t.next_finalise.at = s.number THEN FinaliseTally(t) ELSE t
  IN  /\ s.number < MaxBlock
      /\ s' = [u EXCEPT !.number = @ + 1]
      /\ UNCHANGED <<meant, calls>>

Call ==
  /\ calls < MaxCalls /\ calls' = calls + 1
  /\ \/ Privileged
     \/ \E a \in Voting :
          \/ RetractVoter(a)
          \/ \E votes \in Approvals : SetApprovals(a, votes)
          \/ \E who \in Voting : ReapInactiveVoter(a, who)
          \/ \E who \in Running, error \in {0, 1} :
               /\ Registered(who)
               /\ PresentWinner(a, who, ActualTotal(s.register_info_of[who]) + error)
     \/ \E a \in Running, slot \in 1 .. MaxSlots : SubmitCandidacy(a, slot)

Next == EndBlock \/ Call

Spec == Init /\ [][Next]_vars

-----------------------------------------------------------------------------
(* An approval given while one candidate was in a slot never counts for    *)
(* another that took the slot later: "this prevent an approval meant for   *)
(* an earlier candidate being used to elect a new candidate" (lib.rs:100). *)
ApprovalsMeant ==
  \A v \in Voting, c \in Running :
    LET info == s.register_info_of[c]
    IN  Registered(c) /\ Approves(s, v, info) /\ info.slot \in DOMAIN meant[v] =>
          meant[v][info.slot] \in {Nobody, c}

(* What is reserved of an account covers its bonds as a voter and as a     *)
(* candidate, whatever was retracted, reaped, slashed, elected or dropped  *)
(* before: returning one bond never uses up another.                       *)
BondsReserved ==
  \A a \in Accounts :
    s.reserved[a] >= (IF IsVoter(a) THEN VotingBond ELSE 0)
                       + (IF Registered(a) THEN CandidacyBond ELSE 0)

(* Nobody sits on the council twice, though members may run again, seats   *)
(* are added and members removed while others present themselves.          *)
CouncilDistinct ==
  \A i, j \in DOMAIN s.active_council :
    s.active_council[i].who = s.active_council[j].who => i = j

(* Through votes, retractions, presentations, tallies and changes of the   *)
(* seats: approvals count for whom they were meant, bonds stay covered,    *)
(* and nobody has two seats.                                               *)
CouncilSound == ApprovalsMeant /\ BondsReserved /\ CouncilDistinct
=============================================================================
