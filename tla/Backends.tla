------------------------------ MODULE Backends ------------------------------
(***************************************************************************)
(* The client over its other two backends: the one in memory               *)
(* (substrate/client/src/in_mem.rs) and that of a light node               *)
(* (substrate/client/src/light, substrate/client/db/src/light.rs), with    *)
(* the notifications of imports that the rest of the node lives on         *)
(* (substrate/client/src/client.rs).                                       *)
(*                                                                         *)
(* Threads import blocks into a client in memory; a light node imports the *)
(* same blocks in the same order, and is restarted at times.  A header is  *)
(* its hash; what it says is in chain.                                     *)
(***************************************************************************)
EXTENDS Integers, Sequences, FiniteSets

CONSTANTS Hashes, Genesis,  \* the blocks
          Full,             \* those with extrinsics
          MaxNumber,        \* bound: the chain
          Threads,          \* the callers of import_block
          Origins,          \* where blocks come from but from agreements
          None

(* v: chain: number and parent of the blocks; mem and light: the two       *)
(* stores; thread: where a caller is; importing: importing_block; sinks:   *)
(* what each subscriber was sent.                                          *)
VARIABLE v

Blocks == Hashes \cup {Genesis}
Numbers == 0..MaxNumber

-----------------------------------------------------------------------------
(* In memory.  A state is the block after which it is. *)
NewBlockchain ==
  [blocks |-> [b \in Blocks |-> None], hashes |-> [n \in Numbers |-> None],
   best_hash |-> None, best_number |-> 0, genesis_hash |-> None, states |-> [b \in Blocks |-> None]]

(* StoredBlock::new: with or without a body and a justification. *)
StoredBlock(h, body, just) == [header |-> h, body |-> body, just |-> just]

(* Blockchain::id *)
IdInMemory(s, id) == IF id \in Numbers THEN s.hashes[id] ELSE id

(* Blockchain::insert *)
Insert(s, number, block, is_new_best) ==
  LET h == block.header
  IN  [s EXCEPT !.blocks[h] = block, !.hashes[number] = h,
                !.best_hash = IF is_new_best THEN h ELSE @,
                !.best_number = IF is_new_best THEN number ELSE @,
                !.genesis_hash = IF number = 0 THEN h ELSE @]

(* HeaderBackend and Backend of Blockchain. *)
Stored(s, id) == LET h == IdInMemory(s, id) IN IF h = None THEN None ELSE s.blocks[h]
HeaderInMemory(s, id) == IF Stored(s, id) = None THEN None ELSE Stored(s, id).header
StatusInMemory(s, id) == Stored(s, id) # None
HashInMemory(s, n) == IdInMemory(s, n)
BodyInMemory(s, id) == Stored(s, id) # None /\ Stored(s, id).body
JustificationInMemory(s, id) == Stored(s, id) # None /\ Stored(s, id).just
InfoInMemory(s) == [best_hash |-> s.best_hash, best_number |-> s.best_number, genesis_hash |-> s.genesis_hash]

(* Backend::state_at *)
StateAt(s, h) == s.states[h]

(* Backend::begin_operation: on the state of the parent, if there is one,  *)
(* or on the empty one.                                                    *)
BeginOperation(s, parent) ==
  [old |-> IF parent = None THEN None ELSE StateAt(s, parent), new |-> None, pending |-> None, best |-> FALSE]

(* BlockImportOperation: set_block_data, and update_storage or             *)
(* reset_storage.                                                          *)
SetBlockData(op, block, is_new_best) == [op EXCEPT !.pending = block, !.best = is_new_best]
UpdateStorage(op, st) == [op EXCEPT !.new = st]

(* Mutant: the state of the parent is kept for the block. *)
CommitInMemoryOld(s, op, number) ==
  Insert([s EXCEPT !.states[op.pending.header] = IF op.old = None THEN op.new ELSE op.old],
         number, op.pending, op.best)

(* Backend::commit_operation *)
CommitInMemory(s, op, number) ==
  Insert([s EXCEPT !.states[op.pending.header] = IF op.new = None THEN op.old ELSE op.new],
         number, op.pending, op.best)

-----------------------------------------------------------------------------
(* Of a light node: columns HEADER, BLOCK_INDEX and META, and the copy of  *)
(* the latter two in memory.  number_to_db_key: the four bytes of a        *)
(* number, the highest first.                                              *)
NumberToDbKey(n) == <<n \div (2^24), (n \div (2^16)) % 256, (n \div (2^8)) % 256, n % 256>>

NewLightStorage ==
  [header |-> [k \in {NumberToDbKey(n) : n \in Numbers} |-> None], index |-> [b \in Blocks |-> None],
   best |-> None, meta |-> [best_hash |-> None, best_number |-> 0, genesis_hash |-> None]]

(* LightStorage::update_meta *)
UpdateMeta(meta, h, number, is_new_best) ==
  IF ~is_new_best THEN meta
  ELSE [best_hash |-> h, best_number |-> number,
        genesis_hash |-> IF number = 0 THEN h ELSE meta.genesis_hash]

(* Mutant: the key of the best block is written for every header. *)
ImportHeaderBest(s, h, number, is_new_best) ==
  LET key == NumberToDbKey(number)
  IN  [header |-> [s.header EXCEPT ![key] = h], index |-> [s.index EXCEPT ![h] = key],
       best |-> key, meta |-> UpdateMeta(s.meta, h, number, is_new_best)]

(* LightStorage::import_header, one transaction and then the meta. *)
ImportHeader(s, h, number, is_new_best) ==
  LET key == NumberToDbKey(number)
  IN  [header |-> [s.header EXCEPT ![key] = h], index |-> [s.index EXCEPT ![h] = key],
       best |-> IF is_new_best THEN key ELSE s.best,
       meta |-> UpdateMeta(s.meta, h, number, is_new_best)]

(* read_id and read_db *)
ReadId(s, id) == IF id \in Numbers THEN NumberToDbKey(id) ELSE s.index[id]
ReadDb(s, id) == IF ReadId(s, id) = None THEN None ELSE s.header[ReadId(s, id)]

(* read_meta: the number is that of the header in the chain. *)
ReadMeta(s, chain) ==
  LET header == IF s.best = None THEN None ELSE s.header[s.best]
  IN  [best_hash |-> header, best_number |-> IF header = None THEN 0 ELSE chain[header].number,
       genesis_hash |-> s.header[NumberToDbKey(0)]]

HeaderOfLight(s, id) == ReadDb(s, id)
StatusOfLight(s, id) == IF id \in Numbers THEN id <= s.meta.best_number ELSE ReadId(s, id) # None
HashOfLight(s, n) == ReadDb(s, n)
InfoOfLight(s) == s.meta

(* RemoteCallExecutor::call, by number: the block that is asked for. *)
RemoteCall(s, n) == HashOfLight(s, n)

(* check_execution_proof: the header whose state root the proof of a call  *)
(* at a block is checked against.                                          *)
RootOfCall(s, h) == HeaderOfLight(s, h)

-----------------------------------------------------------------------------
Number(h) == v.chain[h].number
Idle == [pc |-> "idle", block |-> Genesis, body |-> FALSE, origin |-> "Own", best |-> FALSE]

(* LightStorage::from_kvdb *)
FromKvdb(s) == [s EXCEPT !.meta = ReadMeta(s, v.chain)]

(* Any tree of blocks.  Hashes are only compared, so the lowest of those   *)
(* without extrinsics may be any of them.                                  *)
Chains ==
  LET lowest == CHOOSE b \in Hashes \ Full : TRUE
  IN  {c \in [Hashes -> [number : Numbers \ {0}, parent : Blocks]] :
         /\ \A b \in Hashes : c[b].number = IF c[b].parent = Genesis THEN 1 ELSE c[c[b].parent].number + 1
         /\ \A b \in Hashes \ Full : c[lowest].number <= c[b].number}

(* Client::new: the genesis block is committed. *)
Init ==
  LET op == SetBlockData(UpdateStorage(BeginOperation(NewBlockchain, None), Genesis),
                         StoredBlock(Genesis, TRUE, FALSE), TRUE)
  IN  \E c \in Chains :
      v = [chain |-> [b \in Blocks |-> IF b = Genesis THEN [number |-> 0, parent |-> None] ELSE c[b]],
           mem |-> CommitInMemory(NewBlockchain, op, 0),
           light |-> ImportHeader(NewLightStorage, Genesis, 0, TRUE),
           thread |-> [t \in Threads |-> Idle], importing |-> None, sinks |-> <<>>]

-----------------------------------------------------------------------------
(* Client: what is read by hash or number. *)
BlockStatus(id) ==
  IF v.importing # None /\ v.importing = id THEN "Queued" ELSE IF HeaderInMemory(v.mem, id) # None THEN "InChain" ELSE "Unknown"

BlockHashFromId(id) == IF id \in Numbers THEN HashInMemory(v.mem, id) ELSE id

BlockNumberFromId(id) ==
  IF id \in Numbers THEN id
  ELSE LET header == HeaderInMemory(v.mem, id) IN IF header = None THEN None ELSE Number(header)

(* Client::block: all three parts, or none. *)
Block(id) ==
  IF HeaderInMemory(v.mem, id) # None /\ BodyInMemory(v.mem, id) /\ JustificationInMemory(v.mem, id)
  THEN HeaderInMemory(v.mem, id) ELSE None

(* Client::import_block up to the lock. *)
ImportBlock(t, b, origin, body) ==
  /\ v.thread[t].pc = "idle" /\ StatusInMemory(v.mem, v.chain[b].parent)
  /\ v' = [v EXCEPT !.thread[t] = [pc |-> "waiting", block |-> b, body |-> body, origin |-> origin, best |-> FALSE]]

(* BlockImport::import_block of the agreement: what was committed, whole. *)
ImportAgreed(t, b) == ImportBlock(t, b, "ConsensusBroadcast", TRUE)

TakeLock(t) ==
  /\ v.thread[t].pc = "waiting" /\ \A u \in Threads : v.thread[u].pc \in {"idle", "waiting"}
  /\ v' = [v EXCEPT !.thread[t].pc = "locked", !.importing = v.thread[t].block]

Unlocked(s, t) == [s EXCEPT !.thread[t] = Idle, !.importing = None]

NextBest(number, best_number) == number = best_number + 1

(* execute_and_import_block: the block is executed on the state of its     *)
(* parent, which fails if it has extrinsics and came without, and          *)
(* committed.  The light node has no state to execute it on.               *)
Executes(th) == th.block \in Full => th.body

Committed(t) ==
  LET th == v.thread[t]
      b == th.block
      best == NextBest(Number(b), InfoInMemory(v.mem).best_number)
      op == UpdateStorage(SetBlockData(BeginOperation(v.mem, v.chain[b].parent), StoredBlock(b, th.body, TRUE), best), b)
  IN  [v EXCEPT !.mem = CommitInMemory(@, op, Number(b)),
                !.light = ImportHeader(@, b, Number(b), NextBest(Number(b), InfoOfLight(@).best_number)),
                !.thread[t].pc = "committed", !.thread[t].best = best]

(* Mutant: a block that is there is imported again. *)
ExecuteAndImportAgain(t) ==
  /\ v.thread[t].pc = "locked"
  /\ \/ ~Executes(v.thread[t]) /\ v' = Unlocked(v, t)
     \/ Executes(v.thread[t]) /\ v' = Committed(t)

(* ... unless it is there. *)
ExecuteAndImport(t) ==
  LET th == v.thread[t]
      new == ~StatusInMemory(v.mem, th.block) /\ StateAt(v.mem, v.chain[th.block].parent) # None
  IN  /\ th.pc = "locked"
      /\ \/ ~(new /\ Executes(th)) /\ v' = Unlocked(v, t)
         \/ new /\ Executes(th) /\ v' = Committed(t)

(* Client::best_block_header, whose expect says that there is one. *)
BestHeader == HeaderInMemory(v.mem, v.mem.best_hash)

(* The subscribers are told, unless the block is part of a sync or a file; *)
(* then the lock is released.                                              *)
Notify(t) ==
  LET th == v.thread[t]
      note == [hash |-> th.block, best |-> th.best]
      told == IF th.origin \in {"NetworkBroadcast", "Own", "ConsensusBroadcast"}
              THEN [i \in DOMAIN v.sinks |-> [v.sinks[i] EXCEPT !.got = Append(@, note)]]
              ELSE v.sinks
  IN  /\ th.pc = "committed"
      /\ v' = [Unlocked(v, t) EXCEPT !.sinks = told]

(* import_notification_stream, by a task that looks at the best block       *)
(* before or after.                                                         *)
Subscribe ==
  /\ v.sinks = <<>>
  /\ v' = [v EXCEPT !.sinks = <<[got |-> <<>>]>>]

RestartLight == v.light # FromKvdb(v.light) /\ v' = [v EXCEPT !.light = FromKvdb(@)]

Next ==
  \/ \E t \in Threads :
       \/ \E b \in Hashes :
            \/ ImportAgreed(t, b)
            \/ \E origin \in Origins, body \in {(b \in Full), FALSE} : ImportBlock(t, b, origin, body)
       \/ TakeLock(t) \/ ExecuteAndImport(t) \/ Notify(t)
  \/ Subscribe \/ RestartLight

Spec == Init /\ [][Next]_v

-----------------------------------------------------------------------------
Sibling(h) == {b \in Blocks \ {h} : StatusInMemory(v.mem, b) /\ Number(b) = Number(h)}

(* The light node answers as a full one does: the same best number, the    *)
(* same hash and status for every number, for every block the same status, *)
(* and the same header for every block that has no sibling, whose state    *)
(* root is the one that calls at it are checked against; so too for the    *)
(* best block, across restarts (the two HeaderBackends, from_kvdb,         *)
(* check_execution_proof).                                                 *)
BackendsAgree ==
  LET mem == InfoInMemory(v.mem)
      light == InfoOfLight(v.light)
  IN  /\ light.best_number = mem.best_number /\ light.genesis_hash = mem.genesis_hash
      /\ Sibling(mem.best_hash) = {} => light.best_hash = mem.best_hash
      /\ BestHeader # None /\ HeaderOfLight(v.light, light.best_hash) # None
      /\ \A n \in Numbers : RemoteCall(v.light, n) = HashInMemory(v.mem, n)
      /\ \A id \in Numbers \cup Blocks : StatusOfLight(v.light, id) = StatusInMemory(v.mem, id)
      /\ \A h \in Blocks :
           Sibling(h) = {} => /\ HeaderOfLight(v.light, h) = HeaderInMemory(v.mem, h)
                              /\ RootOfCall(v.light, h) \in {None, h}

(* What is read by number or by hash is of one block: its header, its      *)
(* number, the state after it, and its extrinsics, which are there if it   *)
(* has any and it is not the first, whichever siblings are imported at the *)
(* same time, with bodies or without (Client::block, block_number_from_id, *)
(* state_at, execute_and_import_block).                                    *)
ReadsAgree ==
  \A id \in Numbers \cup Blocks :
    LET h == BlockHashFromId(id)
    IN  BlockStatus(id) = "InChain" =>
          /\ HeaderInMemory(v.mem, id) = h /\ BlockNumberFromId(id) = Number(h) /\ StateAt(v.mem, h) = h
          /\ h # Genesis /\ h \in Full => Block(id) = h

(* A subscriber is told of a block once, after it can be read, and of new  *)
(* best blocks in the order of their numbers without a number twice, while *)
(* threads import at the same time (execute_and_import_block).             *)
NotifiedInOrder ==
  \A i \in DOMAIN v.sinks :
    LET got == v.sinks[i].got
    IN  \A j \in DOMAIN got :
          /\ BlockStatus(got[j].hash) # "Unknown" /\ StateAt(v.mem, got[j].hash) # None
          /\ \A k \in 1..(j - 1) :
               /\ got[k].hash # got[j].hash
               /\ got[k].best /\ got[j].best => Number(got[k].hash) < Number(got[j].hash)

(* All of these: a block is read alike from either backend, and whole, and *)
(* is told of when it can be read.                                         *)
BackendsSound == BackendsAgree /\ ReadsAgree /\ NotifiedInOrder
=============================================================================
