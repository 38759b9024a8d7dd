------------------------------ MODULE ClientDb ------------------------------
(***************************************************************************)
(* Block import by the client into the disk backend                        *)
(* (substrate/client/src/client.rs, substrate/client/db/src): threads that *)
(* import blocks, the columns of the key-value store, the state database   *)
(* that finalizes and prunes behind the chain, and restarts.               *)
(*                                                                         *)
(* A header is its hash; what it says (number, parent, state) is in chain. *)
(* Executing a block needs the state of its parent, and fails without it.  *)
(***************************************************************************)
EXTENDS StateDb

CONSTANTS Genesis,    \* the hash of block 0
          Threads,    \* callers of import_block
          Modes,      \* pruning modes to start with
          Windows,    \* values of finalization_window to start with
          MaxNumber,  \* bound: height of the chain
          Forks,      \* whether a block may have a sibling
          MayRestart  \* whether the node is restarted

ASSUME GenesisAssumption == Genesis \notin Hashes /\ None \notin Hashes

VARIABLES st,       \* the StateDb of the backend
          db,       \* columns STATE and STATE_META
          cols,     \* columns HEADER, BLOCK_INDEX and META (the best block)
          meta,     \* BlockchainDb::meta
          window,   \* finalization_window
          thread,   \* where each thread is in import_block
          panicked, \* an assert or expect failed
          chain     \* what the headers say

backend == <<st, db, cols, meta, panicked>>
vars == <<st, db, cols, meta, window, thread, panicked, chain>>

Blocks == Hashes \cup {Genesis}

Numbers == 0..MaxNumber

-----------------------------------------------------------------------------
(* Reading the columns. *)

(* BlockchainDb::header, by the hash of a block: the index gives the       *)
(* number, and the header column is keyed by numbers.                      *)
HeaderOf(h) == IF cols.index[h] = None THEN None ELSE cols.header[cols.index[h]]

(* BlockchainDb::hash *)
HashAt(c, number) == IF number \in Numbers THEN c.header[number] ELSE None

(* BlockchainDb::status, by hash *)
InChain(h) == cols.index[h] # None

(* read_meta *)
ReadMeta(c) ==
  [best_hash |-> IF c.best = None THEN None ELSE c.header[c.best],
   best_number |-> IF c.best = None THEN 0 ELSE c.best,
   genesis_hash |-> c.header[0]]

(* Mutant: the genesis hash is set by every new best block. *)
UpdateMetaGenesis(m, hash, number, is_best) ==
  IF ~is_best THEN m
  ELSE [best_hash |-> hash, best_number |-> number, genesis_hash |-> hash]

(* BlockchainDb::update_meta *)
UpdateMeta(m, hash, number, is_best) ==
  IF ~is_best THEN m
  ELSE [best_hash |-> hash, best_number |-> number,
        genesis_hash |-> IF number = 0 THEN hash ELSE m.genesis_hash]

-----------------------------------------------------------------------------
(* Whether state_db takes the block and knows the one to finalize. *)
Accepts(hash, number, parent) ==
  st.mode.kind = "ArchiveAll" \/ number = 0 \/ CanInsert(st, number, parent)

Finalizable(s, hash) ==
  \/ s.mode.kind = "ArchiveAll"
  \/ s.levels # <<>> /\ \E j \in 1..Len(s.levels[1]) : s.levels[1][j].hash = hash

(* Mutant: finalization is one block late. *)
ToFinalizeLate(hash, number) ==
  IF number <= window + 1 THEN None ELSE HashAt(cols, number - window - 1)

(* The block that commit_operation finalizes: the one that the header      *)
(* column, without this transaction, has `window' blocks below.            *)
ToFinalize(hash, number) ==
  IF number <= window THEN None
  ELSE IF window = 0 THEN hash
  ELSE HashAt(cols, number - window)

(* Backend::commit_operation.  The whole transaction is one write; then    *)
(* the meta of the blockchain is updated.                                  *)
CommitOperation(hash, header, is_best, change) ==
  LET number == header.number
      final == ToFinalize(hash, number)
      ins == InsertBlock(st, hash, number, header.parent, change)
      fin == FinalizeBlock(ins.st, final)
      ok == /\ Accepts(hash, number, header.parent)
            /\ final # None => Finalizable(ins.st, final)
  IN  /\ panicked' = ~ok
      /\ IF ok
         THEN /\ st' = IF final = None THEN ins.st ELSE fin.st
              /\ db' = IF final = None THEN Apply(db, ins.commit)
                       ELSE Apply(Apply(db, ins.commit), fin.commit)
              /\ cols' = [header |-> [cols.header EXCEPT ![number] = hash],
                          index |-> [cols.index EXCEPT ![hash] = number],
                          best |-> IF is_best THEN number ELSE cols.best]
              /\ meta' = UpdateMeta(meta, hash, number, is_best)
         ELSE UNCHANGED <<st, db, cols, meta>>

-----------------------------------------------------------------------------
Idle == [pc |-> "idle"]

(* Backend::from_kvdb and Client::new on an empty disk: the genesis block  *)
(* is committed.                                                           *)
Init ==
  /\ \E mode \in Modes, state \in SUBSET Keys :
       /\ st = NewStateDb(mode, <<>>)
       /\ db = [data |-> state, meta |-> <<>>]
       /\ chain = [b \in Blocks |->
                     IF b = Genesis
                     THEN [number |-> 0, parent |-> None, state |-> state]
                     ELSE None]
  /\ window \in Windows
  /\ cols = [header |-> [n \in Numbers |-> IF n = 0 THEN Genesis ELSE None],
             index |-> [b \in Blocks |-> IF b = Genesis THEN 0 ELSE None],
             best |-> 0]
  /\ meta = ReadMeta(cols)
  /\ thread = [t \in Threads |-> Idle]
  /\ panicked = FALSE

Known == {b \in Blocks : chain[b] # None}

(* Hashes are only compared, so any new one will do. *)
Fresh == IF Hashes \subseteq Known THEN {} ELSE {CHOOSE b \in Hashes : b \notin Known}

(* Somebody authors a block on one that they know of. *)
Author(b, p, state) ==
  /\ chain[p].number < MaxNumber
  /\ Forks \/ \A c \in Known : chain[c].number <= chain[p].number
  /\ chain' = [chain EXCEPT ![b] = [number |-> chain[p].number + 1,
                                    parent |-> p, state |-> state]]
  /\ UNCHANGED <<backend, window, thread>>

(* Client::import_block up to the lock: the parent must be in the chain. *)
ImportBlock(t, b) ==
  /\ thread[t] = Idle
  /\ InChain(chain[b].parent)
  /\ thread' = [thread EXCEPT ![t] = [pc |-> "waiting", block |-> b]]
  /\ UNCHANGED <<backend, window, chain>>

Locked == \E t \in Threads : thread[t].pc = "executing"

(* importing_block, the block that block_status reports as queued. *)
Importing == {thread[t].block : t \in {u \in Threads : thread[u].pc = "executing"}}

(* Mutant: the lock is not held while the block is executed. *)
BeginOperationUnlocked(t) ==
  LET b == thread[t].block
  IN  /\ thread[t].pc = "waiting"
      /\ ~InChain(b)
      /\ thread' = [thread EXCEPT ![t] = [pc |-> "executing", block |-> b,
                                         base |-> HeaderOf(chain[b].parent)]]
      /\ UNCHANGED <<backend, window, chain>>

(* The lock is taken, and execute_and_import_block begins an operation at  *)
(* the parent unless the block is there already.                           *)
BeginOperation(t) ==
  LET b == thread[t].block
  IN  /\ thread[t].pc = "waiting"
      /\ ~Locked
      /\ thread' = [thread EXCEPT ![t] =
           IF InChain(b) THEN Idle
           ELSE [pc |-> "executing", block |-> b,
                 base |-> HeaderOf(chain[b].parent)]]
      /\ UNCHANGED <<backend, window, chain>>

(* Whether execute_block can run on the state of the base header. *)
Executes(t) ==
  /\ thread[t].base = chain[thread[t].block].parent
  /\ chain[thread[t].base].state \subseteq Readable(st, db)

(* Mutant: the number is compared with that of the best block itself. *)
CommitOffByOne(t) ==
  LET b == thread[t].block
      old == chain[chain[b].parent].state
  IN  /\ thread[t].pc = "executing"
      /\ CommitOperation(b, chain[b], chain[b].number = meta.best_number,
                         ChangeSet(chain[b].state \ old, old \ chain[b].state))
      /\ thread' = [thread EXCEPT ![t] = Idle]
      /\ UNCHANGED <<window, chain>>

(* The block is executed and committed; it is the best one if its number   *)
(* is next.                                                                *)
Commit(t) ==
  LET b == thread[t].block
      old == chain[chain[b].parent].state
  IN  /\ thread[t].pc = "executing"
      /\ Executes(t)
      /\ CommitOperation(b, chain[b], chain[b].number = meta.best_number + 1,
                         ChangeSet(chain[b].state \ old, old \ chain[b].state))
      /\ thread' = [thread EXCEPT ![t] = Idle]
      /\ UNCHANGED <<window, chain>>

(* Execution fails and the error is returned. *)
Fail(t) ==
  /\ thread[t].pc = "executing"
  /\ ~Executes(t)
  /\ thread' = [thread EXCEPT ![t] = Idle]
  /\ UNCHANGED <<backend, window, chain>>

(* The process ends and starts again: Backend::from_kvdb, Client::new. *)
Restart ==
  /\ MayRestart
  /\ st' = NewStateDb(st.mode, db.meta)
  /\ meta' = ReadMeta(cols)
  /\ thread' = [t \in Threads |-> Idle]
  /\ panicked' = FALSE
  /\ UNCHANGED <<db, cols, window, chain>>

Next ==
  \/ /\ ~panicked
     /\ \/ \E b \in Fresh, p \in Known, state \in SUBSET Keys :
             Author(b, p, state)
        \/ \E t \in Threads : \/ \E b \in Known \ {Genesis} : ImportBlock(t, b)
                              \/ BeginOperation(t)
                              \/ Commit(t)
                              \/ Fail(t)
  \/ Restart

Spec == Init /\ [][Next]_vars

-----------------------------------------------------------------------------
(* The asserts of the state database and its "attempting to finalize       *)
(* unknown block" hold in every commit.                                    *)
NeverPanics == ~panicked

(* What the blockchain remembers is what it would read from disk: a crash  *)
(* after any commit loses nothing and moves the best block nowhere.        *)
MetaMatchesDisk == meta = ReadMeta(cols)

(* The header column is one chain up to the best block. *)
CanonicalChain ==
  /\ \A n \in Numbers : (cols.header[n] # None) <=> (n <= meta.best_number)
  /\ \A n \in 1..meta.best_number :
       /\ chain[cols.header[n]].number = n
       /\ chain[cols.header[n]].parent = cols.header[n - 1]

(* Finalization follows the best block at the distance of the window, also *)
(* across restarts, and no block is in the state database twice.           *)
FinalizationFollows ==
  st.mode.kind # "ArchiveAll" /\ meta.best_number > 0 =>
    LET final == IF meta.best_number > window THEN meta.best_number - window ELSE 0
    IN  /\ st.last_finalized = [hash |-> cols.header[final], number |-> final]
        /\ Len(st.levels) = meta.best_number - final
        /\ \A i \in 1..Len(st.levels) :
             Len(st.levels[i]) = 1 /\ st.levels[i][1].hash = cols.header[final + i]

(* The state of the best block can be read, and in a pruned database that  *)
(* of every block which is not yet final and of max_blocks final ones.     *)
BestStateReadable ==
  LET kept == IF st.mode.kind = "Constrained"
              THEN meta.best_number - window - st.mode.max_blocks ELSE 0
  IN  \A n \in Numbers :
        n <= meta.best_number /\ n >= kept =>
          chain[cols.header[n]].state \subseteq Readable(st, db)

(* A node that imports a chain without forks on several threads, and is    *)
(* stopped and started between any two commits, keeps one chain, finalizes *)
(* it at the distance of its window, can read the states it promised to    *)
(* keep, and loses nothing of what it knew (commit_operation, from_kvdb).  *)
DiskConsistent ==
  NeverPanics /\ MetaMatchesDisk /\ CanonicalChain /\ FinalizationFollows /\ BestStateReadable
=============================================================================
