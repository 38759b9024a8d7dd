----------------------------- MODULE BftService -----------------------------
(***************************************************************************)
(* Which agreement a validator works on: the BFT service                   *)
(* (substrate/bft/src/lib.rs: BftService, BftFuture, AgreementHandle) and  *)
(* the consensus service that drives it from block import notifications    *)
(* and a timer (polkadot/consensus/src/service.rs).                        *)
(*                                                                         *)
(* All of it runs on one thread, the reactor, which polls one task at a    *)
(* time; only blocks from the network are imported on other threads.  The  *)
(* chain is a line, so a block is its number.  What an agreement decides   *)
(* is left open: it may commit, with or without the candidate at hand,     *)
(* fail, or go on.                                                         *)
(***************************************************************************)
EXTENDS Integers, Sequences, FiniteSets

CONSTANTS MaxBlock,      \* bound: the chain
          MaxAgreements, \* bound: the agreements that are started
          Outside,       \* the blocks on which this node is no authority
          MaxErrors,     \* bound: failures to read a state or to set up a proposer
          Nil

(* best: the number of the best block; notes: the notifications not yet    *)
(* handled; live: live_agreement, the parent and the agreement's number;   *)
(* fut: the agreements, each with its parent, and whether it was polled    *)
(* (its task was sent), cancelled (the flag) or finished; stream: the      *)
(* parent whose messages the network delivers (bft_messages); due: the     *)
(* tasks of the reactor's current batch that are still to be polled; turn: *)
(* the task being polled; waits: the agreement whose task the reactor      *)
(* waits for; prev_best: of the timer; fresh: the agreements spawned in    *)
(* this batch; errors; exit: the signal.                                   *)
VARIABLE v

Idle == -2
TimerTask == -1
NotesTask == 0

Started == 1..Len(v.fut)
Running(f) == ~f.done /\ ~f.cancel

ServiceInit ==
  v = [best |-> 0, notes |-> <<>>, live |-> Nil, fut |-> <<>>, stream |-> Nil,
       due |-> {}, turn |-> Idle, waits |-> Nil, prev_best |-> 0, fresh |-> {},
       errors |-> 0, exit |-> FALSE]

-----------------------------------------------------------------------------
(* Mutant: the task is woken but not told to stop. *)
DropHandleNoCancel(s, handle) == s

(* AgreementHandle::drop.  It waits for the task of the agreement, which   *)
(* is there once the agreement was polled; if the agreement is gone        *)
(* unpolled there is nothing to do.                                        *)
DropHandle(s, handle) ==
  IF handle = Nil THEN s
  ELSE LET f == s.fut[handle.id]
       IN  IF f.polled THEN [s EXCEPT !.fut[handle.id].cancel = TRUE]
           ELSE IF f.done THEN s
           ELSE [s EXCEPT !.waits = handle.id]

(* BftService::live_agreement *)
LiveOn(s, parent) == s.live # Nil /\ s.live.parent = parent

(* BftService::build_upon, with the agreement spawned on the reactor if    *)
(* there is one.  ok: the proposer could be set up.                        *)
BuildUpon(s, parent, ok) ==
  CASE LiveOn(s, parent) -> s
    [] ~LiveOn(s, parent) /\ parent \in Outside -> DropHandle([s EXCEPT !.live = Nil], s.live)
    [] ~LiveOn(s, parent) /\ parent \notin Outside /\ ~ok -> [s EXCEPT !.errors = @ + 1]
    [] OTHER ->
       LET id == Len(s.fut) + 1
       IN  DropHandle([s EXCEPT !.fut = Append(@, [parent |-> parent, polled |-> FALSE,
                                                   cancel |-> FALSE, done |-> FALSE]),
                                !.live = [parent |-> parent, id |-> id],
                                !.fresh = @ \cup {id}], s.live)

(* start_bft: nothing if that agreement is live; else the stream of its    *)
(* messages is opened first.  known: the authorities could be read.        *)
StartBft(s, parent, known, ok) ==
  IF LiveOn(s, parent) THEN s
  ELSE IF ~known THEN [s EXCEPT !.errors = @ + 1]
  ELSE BuildUpon([s EXCEPT !.stream = parent], parent, ok)

Bounded(s) == Len(s.fut) <= MaxAgreements /\ s.errors <= MaxErrors

-----------------------------------------------------------------------------
(* A block is imported; it is the new best one and is notified. *)
Imported(s) ==
  IF s.best < MaxBlock THEN [s EXCEPT !.best = @ + 1, !.notes = Append(@, s.best + 1)] ELSE s

(* ... from the network, on another thread. *)
ImportBlock == v.best < MaxBlock /\ v' = Imported(v)

(* The reactor takes what is ready: the notifications, the timer, and the  *)
(* agreements that were spawned, woken by their handle, or woken by a      *)
(* message or a timeout of theirs.                                         *)
NewBatch(timer) ==
  /\ v.turn = Idle /\ v.due = {} /\ ~v.exit
  /\ \E more \in SUBSET {id \in Started : ~v.fut[id].done} :
       v' = [v EXCEPT !.fresh = {},
                      !.due = {id \in Started : ~v.fut[id].done /\ (~v.fut[id].polled \/ v.fut[id].cancel)}
                              \cup more \cup timer
                              \cup (IF v.notes = <<>> THEN {} ELSE {NotesTask})]

Polls(task) ==
  /\ v.turn = Idle /\ task \in v.due
  /\ v' = [v EXCEPT !.turn = task, !.due = @ \ {task}]

EndTurn == v' = [v EXCEPT !.turn = Idle]

(* for_each takes the notifications one by one until there is none. *)
HandleNotification ==
  /\ v.turn = NotesTask /\ v.waits = Nil
  /\ \/ v.notes = <<>> /\ EndTurn
     \/ /\ v.notes # <<>>
        /\ \E known \in BOOLEAN, ok \in BOOLEAN :
             v' = StartBft([v EXCEPT !.notes = Tail(@)], Head(v.notes), known, ok)
        /\ Bounded(v')

(* Mutant: the timer never starts an agreement. *)
TimedIdle ==
  /\ v.turn = TimerTask
  /\ v' = [v EXCEPT !.prev_best = v.best, !.turn = Idle]

(* The timer: if the best block is still the one of the last tick, work on *)
(* it.                                                                     *)
Timed ==
  /\ v.turn = TimerTask /\ v.waits = Nil
  /\ \/ v.best # v.prev_best /\ v' = [v EXCEPT !.prev_best = v.best, !.turn = Idle]
     \/ /\ v.best = v.prev_best
        /\ \E known \in BOOLEAN, ok \in BOOLEAN :
             LET s == StartBft(v, v.best, known, ok)
             IN  v' = IF s.waits = Nil THEN [s EXCEPT !.turn = Idle] ELSE s
        /\ Bounded(v')

(* Mutant: an agreement that is not finished does not send its task. *)
PollUnsent(id) ==
  LET s == [v EXCEPT !.fut[id].polled = TRUE, !.due = @ \ {id}]
      over == [s EXCEPT !.fut[id].done = TRUE]
  IN  /\ v.turn = Idle /\ id \in v.due
      /\ \/ v.fut[id].cancel /\ v' = over
         \/ /\ ~v.fut[id].cancel
            /\ \/ v' = [s EXCEPT !.fut[id].polled = v.fut[id].polled]
               \/ v.fut[id].parent = v.best /\ v' = Imported(over)
               \/ v.errors < MaxErrors /\ v' = [over EXCEPT !.errors = @ + 1]

(* BftFuture::poll: send the task, stop if told so, else poll the          *)
(* agreement, and import what it commits if the block is at hand.  A       *)
(* finished one is dropped and reports the misbehavior it saw.             *)
PollAgreement(id) ==
  LET s == [v EXCEPT !.fut[id].polled = TRUE, !.due = @ \ {id}]
      over == [s EXCEPT !.fut[id].done = TRUE]
  IN  /\ v.turn = Idle /\ id \in v.due
      /\ \/ v.fut[id].cancel /\ v' = over
         \/ /\ ~v.fut[id].cancel
            /\ \/ v' = s
               \/ v.fut[id].parent = v.best /\ v' = Imported(over)
               \/ v.errors < MaxErrors /\ v' = [over EXCEPT !.errors = @ + 1]

(* Service::drop: the signal, and the end of the reactor after its batch,  *)
(* which drops every task.                                                 *)
Drop == ~v.exit /\ v' = [v EXCEPT !.exit = TRUE]

Exit ==
  /\ v.exit /\ v.turn = Idle /\ v.due = {} /\ \E id \in Started : ~v.fut[id].done
  /\ v' = [v EXCEPT !.fut = [i \in DOMAIN @ |-> [@[i] EXCEPT !.done = TRUE]]]

Reactor ==
  \/ Polls(NotesTask) \/ Polls(TimerTask) \/ HandleNotification \/ Timed \/ Exit
  \/ \E id \in Started : PollAgreement(id)

ServiceNext ==
  \/ ImportBlock \/ Drop \/ Reactor
  \/ \E timer \in SUBSET {TimerTask} : NewBatch(timer)

(* The reactor goes on while it has something to poll, and the timer ticks *)
(* again and again.                                                        *)
ServiceFairness == WF_v(Reactor) /\ SF_v(NewBatch({TimerTask}))

ServiceSpec == ServiceInit /\ [][ServiceNext]_v /\ ServiceFairness

-----------------------------------------------------------------------------
(* A node never works on two agreements: of those that are neither         *)
(* finished nor told to stop there is only the one the service holds, and  *)
(* the one it waits for to tell it so (AgreementHandle::drop, build_upon). *)
OneAgreement ==
  \A id \in Started : Running(v.fut[id]) /\ v.waits # id => v.live # Nil /\ v.live.id = id

(* The reactor waits for an agreement, which is for good, only when a new  *)
(* best block is handled before the agreement on the last one had its      *)
(* first turn: in the batch that spawned it or in the next                 *)
(* (AgreementHandle::drop, task.wait()).                                   *)
WaitsForFresh == v.waits # Nil => v.waits \in v.fresh \cup v.due

(* Both of these: the agreements that were replaced are over, or the       *)
(* reactor is stuck in the one way there is.                               *)
OneAtATime == OneAgreement /\ WaitsForFresh

(* When blocks stop coming, the service holds an agreement on the best     *)
(* block, however many attempts to start one failed before, unless the     *)
(* reactor waits for good (the timer of Service::new).                     *)
SettlesOnBest ==
  <>[](v.best \in Outside \/ v.exit \/ v.waits # Nil \/ LiveOn(v, v.best))
=============================================================================
