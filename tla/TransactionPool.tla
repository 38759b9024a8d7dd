--------------------------- MODULE TransactionPool ---------------------------
(***************************************************************************)
(* The pool of extrinsics that wait for a block: polkadot's transaction    *)
(* pool (polkadot/transaction-pool/src/lib.rs) over the generic extrinsic  *)
(* pool with its listener and watchers (substrate/extrinsic-pool/src), and *)
(* the misbehavior reports that a validator puts into it                   *)
(* (import_misbehavior in polkadot/consensus/src/lib.rs).                  *)
(*                                                                         *)
(* The container below them, the transaction-pool crate, is external; it   *)
(* is modelled from the interface that this code implements for it.  A     *)
(* transaction is its own hash.                                            *)
(***************************************************************************)
EXTENDS Integers, Sequences, FiniteSets, SequencesExt

CONSTANTS Accounts, Local,  \* the accounts, and that of this validator
          MaxIndex,         \* bound: the index of an extrinsic
          Limit,            \* max_count: what the pool holds
          MaxCalls,         \* bound: the calls
          None

(* m: queue maps a sender, or None for unknown ones, to its transactions   *)
(* by index; next: the accounts' indices on the chain; owner: the accounts *)
(* that an account number can be looked up for; pledged: the transactions  *)
(* that were submitted to be watched and have no watcher yet; watched:     *)
(* those with a watcher; finalised: those whose watchers were told that    *)
(* they are in a block; panicked.                                          *)
VARIABLE m

Senders == Accounts \cup {None}

(* An extrinsic: who signed it, whether the signature is good, and whether *)
(* it names its sender by id or by number.                                 *)
Extrinsics == [by : Accounts, index : 0..MaxIndex, id : BOOLEAN, good : BOOLEAN]

Init ==
  m = [queue |-> [s \in Senders |-> <<>>], next |-> [a \in Accounts |-> 0], owner |-> {},
       pledged |-> {}, watched |-> {}, finalised |-> {},
       panicked |-> FALSE, calls |-> 0]

All(q) == UNION {Range(q[s]) : s \in Senders}
Size(q) == Cardinality(All(q))

-----------------------------------------------------------------------------
(* Verifier::verify_transaction: the sender, None if its number is not     *)
(* known, or "bad".                                                        *)
Verified(p, xt) ==
  IF xt.id \/ xt.by \in p.owner THEN (IF xt.good THEN <<xt.by>> ELSE <<>>) ELSE <<None>>

(* Scoring::choose: of two fully verified ones with the same index the     *)
(* first stays.                                                            *)
Choose(q, sender, xt) ==
  sender # None => \A i \in DOMAIN q[sender] : q[sender][i].index # xt.index

(* Scoring::compare: after those with the same or a lower index. *)
Placed(list, xt) ==
  InsertAt(list, Cardinality({i \in DOMAIN list : list[i].index <= xt.index}) + 1, xt)

(* Scoring::should_replace: a full pool gives up one that is not fully     *)
(* verified, the last of them.                                             *)
Room(q) ==
  IF Size(q) < Limit THEN q
  ELSE IF q[None] = <<>> THEN q ELSE [q EXCEPT ![None] = Front(@)]

(* txpool's import: the queue with xt, or <<>> for an error. *)
Import(q, sender, xt) ==
  LET roomy == Room(q)
  IN  IF xt \in All(q) \/ Size(roomy) >= Limit \/ ~Choose(roomy, sender, xt) THEN <<>>
      ELSE <<[roomy EXCEPT ![sender] = Placed(@, xt)]>>

(* Pool::submit of one: verify and import, or an error. *)
Submitted(p, xt) ==
  IF Verified(p, xt) = <<>> THEN <<>> ELSE Import(p.queue, Verified(p, xt)[1], xt)

(* Mutant: what is known of the sender's index stays. *)
IsReadySame(known, xt) ==
  [state |-> IF xt.index > known THEN "future" ELSE IF xt.index = known THEN "ready" ELSE "stale",
   known |-> known]

(* Ready::is_ready: the state of xt when the sender's next index is known, *)
(* which is counted up whatever the state is.                              *)
IsReady(known, xt) ==
  [state |-> IF xt.index > known THEN "future" ELSE IF xt.index = known THEN "ready" ELSE "stale",
   known |-> known + 1]

(* The known index and the state before each transaction of a list. *)
Walked(list, known) ==
  LET at[i \in 0..Len(list)] ==
        IF i = 0 THEN [state |-> "none", known |-> known] ELSE IsReady(at[i - 1].known, list[i])
  IN  at

(* txpool's cull: drop the stale ones at the front of each sender's list.  *)
(* A listener is told that they are mined.                                 *)
CulledFrom(list, known) ==
  LET at == Walked(list, known)
      stays == {i \in 1..Len(list) : at[i].state # "stale"}
      first == IF stays = {} THEN Len(list) + 1 ELSE CHOOSE i \in stays : \A j \in stays : i <= j
  IN  SubSeq(list, first, Len(list))

(* Sender::finalised: the watchers of a transaction get the message and    *)
(* are done.                                                               *)
Finalised(p, gone) == [p EXCEPT !.finalised = @ \cup gone]

(* Listener::mined and fire: those that are watched are told, and the      *)
(* senders that are done are forgotten.                                    *)
Mined(p, gone) == Finalised([p EXCEPT !.watched = @ \ gone], p.watched \cap gone)

(* TransactionPool::cull; those without a sender are in the future. *)
Cull(p) ==
  LET q == [s \in Senders |-> IF s = None THEN p.queue[s] ELSE CulledFrom(p.queue[s], p.next[s])]
  IN  Mined([p EXCEPT !.queue = q], All(p.queue) \ All(q))

(* The pending ones of a sender: while they are ready. *)
PendingFrom(list, known) ==
  LET at == Walked(list, known)
      not == {i \in 1..Len(list) : at[i].state # "ready"}
      upto == IF not = {} THEN Len(list) ELSE (CHOOSE i \in not : \A j \in not : i <= j) - 1
  IN  SubSeq(list, 1, upto)

(* cull_and_get_pending. *)
Pending(p) == [a \in Accounts |-> PendingFrom(Cull(p).queue[a], p.next[a])]

-----------------------------------------------------------------------------
Call == m.calls < MaxCalls /\ ~m.panicked
Counted(p) == [p EXCEPT !.calls = m.calls + 1]

(* submit, and submit_and_watch, which takes the lock again to make the    *)
(* watcher of what it imported.  A transaction that had to make room keeps *)
(* its watchers.                                                           *)
Submit(xt, watch) ==
  /\ Call /\ (watch => m.pledged = {})
  /\ LET q == Submitted(m, xt)
     IN  m' = Counted(IF q = <<>> THEN m
                      ELSE [m EXCEPT !.queue = q[1],
                                     !.pledged = @ \cup (IF watch THEN {xt} ELSE {})])

CreateWatcher(xt) ==
  /\ xt \in m.pledged
  /\ m' = [m EXCEPT !.pledged = @ \ {xt}, !.watched = @ \cup {xt}]

(* remove, with the extrinsic reported as invalid or canceled; the watcher *)
(* is told neither.                                                        *)
Removed(p, xt) ==
  [p EXCEPT !.queue = [s \in Senders |-> SelectSeq(@[s], LAMBDA t : t # xt)]]

RemoveOne(xt) == Call /\ xt \in All(m.queue) /\ m' = Counted(Removed(m, xt))

(* reverify_transaction: remove and submit again. *)
ReverifyTransaction(xt) ==
  /\ Call /\ xt \in All(m.queue)
  /\ LET p == Removed(m, xt)
         q == Submitted(p, xt)
     IN  m' = Counted(IF q = <<>> THEN p ELSE [p EXCEPT !.queue = q[1]])

(* submit of several: it ends at the first error. *)
SubmittedAll(p, list) ==
  LET step(acc, xt) ==
        IF acc.failed THEN acc
        ELSE LET q == Submitted(acc.p, xt)
             IN  IF q = <<>> THEN [acc EXCEPT !.failed = TRUE] ELSE [acc EXCEPT !.p.queue = q[1]]
  IN  FoldLeft(step, [p |-> p, failed |-> FALSE], list).p

(* retry_verification: all without a sender are taken out, as if they were *)
(* stale, and submitted again.                                             *)
RetryVerification ==
  /\ Call /\ m.queue[None] # <<>>
  /\ LET p == Mined([m EXCEPT !.queue[None] = <<>>], Range(m.queue[None]))
     IN  m' = Counted(SubmittedAll(p, m.queue[None]))

CullAction == Call /\ m' = Counted(Cull(m))

(* A block with the first n pending ones of an account; accounts get a     *)
(* number.                                                                 *)
Block(a, n) ==
  /\ Call /\ n <= Len(Pending(m)[a])
  /\ \E known \in SUBSET Accounts :
       /\ m.owner \subseteq known /\ (n > 0 \/ known # m.owner)
       /\ m' = Counted([m EXCEPT !.next[a] = @ + n, !.owner = known])

(* import_misbehavior: the reports of an agreement, from the index behind  *)
(* the last pending one of this account, or behind the one of the state,   *)
(* must all be imported.                                                   *)
ImportMisbehavior(count) ==
  /\ Call
  /\ LET p == Cull(m)
         pending == PendingFrom(p.queue[Local], p.next[Local])
         first == (IF pending = <<>> THEN p.next[Local] ELSE Last(pending).index) + 1
         reports == [i \in 1..count |-> [by |-> Local, index |-> first + i - 1, id |-> TRUE, good |-> TRUE]]
         step(acc, xt) ==
           IF acc.panicked THEN acc
           ELSE LET q == Submitted(acc, xt)
                IN  IF q = <<>> THEN [acc EXCEPT !.panicked = TRUE]
                    ELSE [acc EXCEPT !.queue = q[1]]
     IN  /\ first + count - 1 <= MaxIndex
         /\ m' = Counted(FoldLeft(step, p, reports))

Next ==
  \/ \E xt \in Extrinsics, watch \in BOOLEAN : Submit(xt, watch)
  \/ \E xt \in m.pledged : CreateWatcher(xt)
  \/ \E xt \in All(m.queue) : RemoveOne(xt) \/ ReverifyTransaction(xt)
  \/ RetryVerification \/ CullAction
  \/ \E a \in Accounts, n \in 0..2 : Block(a, n)
  \/ \E count \in 1..2 : ImportMisbehavior(count)

Spec == Init /\ [][Next]_m

-----------------------------------------------------------------------------
(* What a proposer takes from the pool: of a sender with nothing stale in  *)
(* the pool, all extrinsics whose indices count up from its index on the   *)
(* chain, in that order and nothing else, however they were submitted,     *)
(* retried and mined before (cull_and_get_pending, is_ready, choose).      *)
PendingExact ==
  \A a \in Accounts :
    LET queued == {m.queue[a][i].index : i \in DOMAIN m.queue[a]}
        run == {k \in queued : m.next[a]..k \subseteq queued}
        pending == Pending(m)[a]
    IN  /\ \A i \in DOMAIN pending : pending[i].by = a /\ pending[i].index = m.next[a] + i - 1
        /\ (\A k \in queued : k >= m.next[a]) => Len(pending) = Cardinality(run)
=============================================================================
