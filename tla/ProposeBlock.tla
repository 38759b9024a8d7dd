---------------------------- MODULE ProposeBlock ----------------------------
(***************************************************************************)
(* How an authority fills its proposal from the transaction pool           *)
(* (propose_with in polkadot/consensus/src/lib.rs) and evaluates the       *)
(* result (evaluate_initial in polkadot/consensus/src/evaluation.rs, of    *)
(* which the size is all that can go wrong here; Parachains has the rest). *)
(* The pool is a queue in its own order; a proposal may become a block or  *)
(* another authority's takes its place.                                    *)
(***************************************************************************)
EXTENDS Integers, Sequences, FiniteSets, Functions

CONSTANTS Txs,
          Size(_),       \* encoded_size
          Invalid,       \* the transactions that push_extrinsic refuses
          MAX_TRANSACTIONS_SIZE,
          InherentSize   \* of the timestamp and the parachain heads

VARIABLES pool,            \* the pending transactions, in the pool's order
          unseen,          \* transactions still to be submitted
          stage,           \* "idle", "filling", "baked", or "panicked"
          next,            \* the place in the pool of pending_iterator
          block,           \* the transactions pushed
          unqueue_invalid,
          on_chain,        \* the transactions of the chain
          culled           \* the transactions removed without being included

filling == <<pool, unseen, stage, next, block, unqueue_invalid, on_chain, culled>>

TotalSize(ts) ==
  LET total[n \in 0..Len(ts)] == IF n = 0 THEN 0 ELSE total[n - 1] + Size(ts[n])
  IN  total[Len(ts)]

(* The transactions that are not removed, in the order they were in. *)
Without(ts, removed) ==
  LET kept == {i \in 1..Len(ts) : ts[i] \notin removed}
      nth(n) == CHOOSE i \in kept : Cardinality({j \in kept : j <= i}) = n
  IN  [n \in 1..Cardinality(kept) |-> ts[nth(n)]]

InPool(t) == t \in Range(pool)

FillingInit ==
  /\ pool = <<>> /\ unseen = Txs
  /\ stage = "idle" /\ next = 1 /\ block = <<>> /\ unqueue_invalid = {}
  /\ on_chain = {} /\ culled = {}

(* A transaction finds its place in the pool while nobody iterates. *)
Submit(t) ==
  /\ stage = "idle" /\ t \in unseen
  /\ \E i \in 0..Len(pool) : pool' = SubSeq(pool, 1, i) \o <<t>> \o SubSeq(pool, i + 1, Len(pool))
  /\ unseen' = unseen \ {t}
  /\ UNCHANGED <<stage, next, block, unqueue_invalid, on_chain, culled>>

(* propose_with begins: the pool's iterator is at the first transaction. *)
StartFilling ==
  /\ stage = "idle"
  /\ stage' = "filling" /\ next' = 1 /\ block' = <<>> /\ unqueue_invalid' = {}
  /\ UNCHANGED <<pool, unseen, on_chain, culled>>

(* Mutant: a transaction that does not fit any more is culled, too. *)
ConsiderGreedy ==
  /\ stage = "filling" /\ next <= Len(pool)
  /\ LET pending == pool[next] IN
     \/ /\ Size(pending) > MAX_TRANSACTIONS_SIZE \/ pending \in Invalid
           \/ TotalSize(block) + Size(pending) >= MAX_TRANSACTIONS_SIZE
        /\ unqueue_invalid' = unqueue_invalid \cup {pending} /\ UNCHANGED block
     \/ /\ TotalSize(block) + Size(pending) < MAX_TRANSACTIONS_SIZE
        /\ pending \notin Invalid
        /\ block' = Append(block, pending) /\ UNCHANGED unqueue_invalid
  /\ next' = next + 1
  /\ UNCHANGED <<pool, unseen, stage, on_chain, culled>>

(* One transaction of the iterator: too large, pushed or refused. *)
Consider ==
  /\ stage = "filling" /\ next <= Len(pool)
  /\ LET pending == pool[next]
         fits == TotalSize(block) + Size(pending) < MAX_TRANSACTIONS_SIZE
     IN \/ /\ Size(pending) > MAX_TRANSACTIONS_SIZE
           /\ unqueue_invalid' = unqueue_invalid \cup {pending} /\ UNCHANGED block
        \/ /\ fits /\ pending \in Invalid
           /\ unqueue_invalid' = unqueue_invalid \cup {pending} /\ UNCHANGED block
        \/ /\ fits /\ pending \notin Invalid
           /\ block' = Append(block, pending) /\ UNCHANGED unqueue_invalid
  /\ next' = next + 1
  /\ UNCHANGED <<pool, unseen, stage, on_chain, culled>>

(* The first transaction that does not fit ends the block. *)
Full ==
  /\ next <= Len(pool)
  /\ Size(pool[next]) <= MAX_TRANSACTIONS_SIZE
  /\ TotalSize(block) + Size(pool[next]) >= MAX_TRANSACTIONS_SIZE

(* Mutant: the unusable transactions stay in the pool. *)
BakeKeeping ==
  /\ stage = "filling"
  /\ next > Len(pool) \/ Full
  /\ UNCHANGED pool
  /\ culled' = culled \cup unqueue_invalid
  /\ stage' = "baked"
  /\ UNCHANGED <<unseen, next, block, unqueue_invalid, on_chain>>

(* The end of the iteration: the pool forgets the unusable transactions,   *)
(* the block is baked and evaluated, and the evaluation asserted.          *)
Bake ==
  /\ stage = "filling"
  /\ next > Len(pool) \/ Full
  /\ pool' = Without(pool, unqueue_invalid)
  /\ culled' = culled \cup unqueue_invalid
  /\ stage' = IF InherentSize + TotalSize(block) > MAX_TRANSACTIONS_SIZE
              THEN "panicked" ELSE "baked"
  /\ UNCHANGED <<unseen, next, block, unqueue_invalid, on_chain>>

(* The proposal becomes a block, and its transactions are stale. *)
BlockImported ==
  /\ stage = "baked"
  /\ on_chain' = on_chain \cup Range(block)
  /\ pool' = Without(pool, Range(block))
  /\ stage' = "idle"
  /\ UNCHANGED <<unseen, next, block, unqueue_invalid, culled>>

(* The round ends with another block, or none. *)
Superseded ==
  /\ stage = "baked"
  /\ stage' = "idle"
  /\ UNCHANGED <<pool, unseen, next, block, unqueue_invalid, on_chain, culled>>

FillingNext ==
  \/ \E t \in Txs : Submit(t)
  \/ StartFilling \/ Consider \/ Bake \/ BlockImported \/ Superseded

(* The authority's turn comes again and again, and its proposals are       *)
(* agreed on again and again; nobody has to submit anything.               *)
FillingFairness ==
  /\ WF_filling(StartFilling) /\ WF_filling(Consider) /\ WF_filling(Bake) /\ SF_filling(BlockImported)

FillingSpec == FillingInit /\ [][FillingNext]_filling /\ FillingFairness

-----------------------------------------------------------------------------
(* No transaction is lost or included twice: each submitted one is either  *)
(* in the pool, or on the chain, or was too large or invalid.              *)
NothingLost ==
  /\ \A t \in Txs \ unseen : InPool(t) \/ t \in on_chain \/ t \in culled
  /\ \A t \in culled : Size(t) > MAX_TRANSACTIONS_SIZE \/ t \in Invalid
  /\ Cardinality(Range(pool)) = Len(pool) /\ Range(pool) \cap on_chain = {}

(* The assertion of propose_with: the authority's own proposal passes the  *)
(* evaluation that the others put it through.                              *)
OwnProposalAccepted == stage # "panicked"

(* Every transaction of the pool gets into a block, or is culled: the      *)
(* unusable ones never hold up the others.                                 *)
PoolMoves == \A t \in Txs : InPool(t) ~> ~InPool(t)
=============================================================================
