----------------------------- MODULE MCProposal -----------------------------
(***************************************************************************)
(* What an authority does on top of a block, part by part: the agreement   *)
(* it starts, the duties it takes, the time it proposes at, the block it   *)
(* fills and what the runtime makes of the candidates.  One hands the next *)
(* a block, a number of parachains or a list of candidates, which each     *)
(* part is given every value of, so the parts are explored one at a time.  *)
(***************************************************************************)
EXTENDS ProposalTiming, ProposeBlock, Parachains, BftService

CONSTANTS small, medium, wide, huge, wrong

VARIABLE part

vars == <<part, timing, filling, registry, roster, v>>

NoTiming ==
  /\ dynamic = NewDynamicInclusion(0, 0) /\ now = 0
  /\ included = 0 /\ last_included = 0 /\ deadline = 0
  /\ minimum_passed = FALSE /\ polled = FALSE /\ ready = FALSE

NoHeads ==
  /\ parachains = <<>> /\ code = {} /\ heads = <<>> /\ did_update = FALSE
  /\ phase = "parent" /\ candidates = <<>> /\ others = 0 /\ number = 0

NoRoster ==
  /\ active_parachains = <<>> /\ validator_count = 1 /\ shuffled = 0
  /\ roles_val = <<>> /\ roles_gua = <<>> /\ groups = <<>> /\ local = <<>>

Init ==
  /\ part \in {"timing", "filling", "heads", "roster", "service"}
  /\ FillingInit /\ ServiceInit
  /\ IF part = "timing" THEN TimingInit ELSE NoTiming
  /\ IF part = "heads" THEN HeadsInit ELSE NoHeads
  /\ IF part = "roster" THEN RosterInit ELSE NoRoster

(* A step of one part. *)
InTiming(A) == part = "timing" /\ A /\ UNCHANGED <<part, filling, registry, roster, v>>
InFilling(A) == part = "filling" /\ A /\ UNCHANGED <<part, timing, registry, roster, v>>
InHeads(A) == part = "heads" /\ A /\ UNCHANGED <<part, timing, filling, roster, v>>
InRoster(A) == part = "roster" /\ A /\ UNCHANGED <<part, timing, filling, registry, v>>
InService(A) == part = "service" /\ A /\ UNCHANGED <<part, timing, filling, registry, roster>>

Next ==
  \/ InTiming(TimingNext)
  \/ InFilling(FillingNext)
  \/ InHeads(HeadsNext)
  \/ InRoster(RosterNext)
  \/ InService(ServiceNext)

(* Encoded sizes, with a limit of 4. *)
MCSize(t) == CASE t = small -> 1 [] t = medium -> 2 [] t = wide -> 3
               [] t = huge -> 5 [] t = wrong -> 1

(* The fairness of the parts, of which only one takes steps. *)
Spec ==
  /\ Init /\ [][Next]_vars
  /\ WF_vars(InTiming(TimePasses) \/ InFilling(StartFilling) \/ InService(Reactor))
  /\ WF_vars(InTiming(Poll) \/ InFilling(Consider))
  /\ WF_vars(InFilling(Bake))
  /\ SF_vars(InFilling(BlockImported) \/ InService(NewBatch({TimerTask})))

(* Every part gets on: a proposal is made, the pool is served, and the     *)
(* service settles on the best block (ProposalTiming::poll, propose_with,  *)
(* the timer of Service::new).                                             *)
Progress ==
  /\ part = "timing" => EventuallyReady
  /\ PoolMoves
  /\ part = "service" => SettlesOnBest
=============================================================================
