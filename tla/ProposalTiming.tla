-------------------------- MODULE ProposalTiming --------------------------
(***************************************************************************)
(* When an authority proposes (polkadot/consensus/src/dynamic_inclusion.rs *)
(* and ProposalTiming in polkadot/consensus/src/lib.rs): the fewer         *)
(* parachain candidates are includable, the later.                         *)
(*                                                                         *)
(* Time is counted in microseconds since the start; timers are set in      *)
(* whole milliseconds of MILLI microseconds.  The number of includable     *)
(* candidates moves as the statement table likes.                          *)
(***************************************************************************)
EXTENDS Integers

CONSTANTS Initials,     \* numbers of parachains to start with
          AllowEmpty,   \* values of parachain_empty_duration to start with
          MinDelay,     \* DELAY_UNTIL
          MILLI,
          MaxTime       \* bound: the clock

VARIABLES dynamic,        \* the DynamicInclusion: y, m, and what it was made of
          now,
          included,       \* the includable count of the table
          last_included,
          deadline,       \* enough_candidates
          minimum_passed, \* minimum_delay is gone
          polled,         \* whether the task has run since the last change
          ready           \* the poll has returned Ready

timing == <<dynamic, now, included, last_included, deadline, minimum_passed, polled, ready>>

(* DynamicInclusion::new *)
NewDynamicInclusion(initial, allow_empty) ==
  IF initial = 0 THEN [y |-> 0, m |-> 0, initial |-> 0, allow_empty |-> allow_empty]
  ELSE [y |-> allow_empty, m |-> allow_empty \div initial,
        initial |-> initial, allow_empty |-> allow_empty]

(* When n candidates are enough (saturating_sub). *)
ValidAfter(d, n) == IF d.y >= d.m * n THEN d.y - d.m * n ELSE 0

(* Whether n candidates are enough at time t. *)
Acceptable(d, t, n) == t >= ValidAfter(d, n)

(* Mutant: the time that has passed is added. *)
AcceptableInElapsed(d, t, n) ==
  IF Acceptable(d, t, n) THEN 0
  ELSE ((ValidAfter(d, n) + t) \div MILLI) * MILLI

(* DynamicInclusion::acceptable_in: 0 if now, or the duration of the timer *)
(* to wait for, in microseconds but a multiple of MILLI.                   *)
AcceptableIn(d, t, n) ==
  IF Acceptable(d, t, n) THEN 0
  ELSE ((ValidAfter(d, n) - t) \div MILLI) * MILLI

-----------------------------------------------------------------------------
(* ProposerFactory::init at time 0 and Proposer::propose at any later one. *)
TimingInit ==
  /\ \E initial \in Initials, allow_empty \in AllowEmpty :
       dynamic = NewDynamicInclusion(initial, allow_empty)
  /\ now \in 0..MaxTime
  /\ included \in 0..dynamic.initial
  /\ last_included = included
  /\ deadline = now + AcceptableIn(dynamic, now, included)
  /\ minimum_passed = FALSE
  /\ polled = FALSE
  /\ ready = FALSE

TimePasses ==
  /\ now < MaxTime
  /\ now' = now + 1
  /\ polled' = FALSE
  /\ UNCHANGED <<dynamic, included, last_included, deadline, minimum_passed, ready>>

(* Candidates become includable, or bad. *)
CountChanges ==
  /\ ~ready
  /\ included' \in 0..dynamic.initial \ {included}
  /\ polled' = FALSE
  /\ UNCHANGED <<dynamic, now, last_included, deadline, minimum_passed, ready>>

(* Mutant: the timer is not set again when the count falls. *)
PollStaleTimer ==
  /\ ~ready /\ ~polled
  /\ polled' = TRUE
  /\ minimum_passed' = (minimum_passed \/ now >= MinDelay)
  /\ IF ~minimum_passed' THEN ready' = FALSE
     ELSE ready' = (now >= deadline \/ Acceptable(dynamic, now, included))
  /\ last_included' = included
  /\ UNCHANGED <<dynamic, now, included, deadline>>

(* ProposalTiming::poll, woken by the interval or by a timer. *)
Poll ==
  /\ ~ready /\ ~polled
  /\ polled' = TRUE
  /\ minimum_passed' = (minimum_passed \/ now >= MinDelay)
  /\ \/ /\ ~minimum_passed'
        /\ UNCHANGED <<last_included, deadline, ready>>
     \/ /\ minimum_passed'
        /\ included = last_included
        /\ ready' = (now >= deadline)
        /\ UNCHANGED <<last_included, deadline>>
     \/ /\ minimum_passed'
        /\ included # last_included
        /\ Acceptable(dynamic, now, included)
        /\ ready' = TRUE
        /\ UNCHANGED <<last_included, deadline>>
     \/ /\ minimum_passed'
        /\ included # last_included
        /\ ~Acceptable(dynamic, now, included)
        /\ last_included' = included
        /\ deadline' = now + AcceptableIn(dynamic, now, included)
        /\ ready' = (now >= deadline')
  /\ UNCHANGED <<dynamic, now, included>>

TimingNext == TimePasses \/ CountChanges \/ Poll

(* Time goes on, and the interval wakes the task again and again. *)
TimingFairness == WF_timing(TimePasses) /\ WF_timing(Poll)

TimingSpec == TimingInit /\ [][TimingNext]_timing /\ TimingFairness

-----------------------------------------------------------------------------
(* Nobody proposes before the minimum delay, nor when the candidates that  *)
(* are includable at that time are not enough, up to the millisecond that  *)
(* the timer is rounded down by; and a poll that finds enough candidates   *)
(* proposes, whatever smaller or larger count the timer was set for.       *)
ReadyOnTime ==
  [][/\ ready' /\ ~ready =>
          now >= MinDelay /\ Acceptable(dynamic, now + MILLI - 1, included)
     /\ polled' /\ ~polled /\ now >= MinDelay /\ Acceptable(dynamic, now, included)
          => ready']_timing

(* A proposal is made in the end, with whatever there is. *)
EventuallyReady == <>ready
=============================================================================
