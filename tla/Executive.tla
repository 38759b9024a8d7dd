----------------------------- MODULE Executive -----------------------------
(***************************************************************************)
(* Building a block and executing it: the block builder of the client      *)
(* (substrate/client/src/block_builder.rs), the inherent extrinsics and    *)
(* the API of polkadot/api, the executive module that drives the runtime   *)
(* (substrate/runtime/executive), and the system, timestamp and parachains *)
(* modules as far as they keep the books of a block.                       *)
(*                                                                         *)
(* The storage is a record.  A hash is injective, so the hash of a header  *)
(* is the header, the state root is the storage it is the root of, and the *)
(* extrinsics root the sequence of extrinsics.  A panic of the runtime     *)
(* gives the value Panic.                                                  *)
(***************************************************************************)
EXTENDS Integers, Sequences, SequencesExt, FiniteSets

CONSTANTS Accounts, Funds,   \* the accounts and what each starts with
          Fee, Period,       \* transaction fee and timestamp period
          Amounts, Moments,  \* the inputs of transfers and timestamps
          MaxHeight, MaxPushes, \* bounds: blocks, and extrinsics pushed on one
          None, Panic

(* x: storage is the state of the last block and head its header; builder  *)
(* has the storage, the extrinsics and the number of pushes of the block   *)
(* being built, and whether one was not applied (slipped); blocks are the  *)
(* blocks that were baked on the last one.                                 *)
VARIABLE x

(* inherent_extrinsics: the two that a block starts with. *)
InherentExtrinsics(now) ==
  <<[sender |-> None, index |-> 0, signature |-> TRUE, call |-> "set", arg |-> now],
    [sender |-> None, index |-> 0, signature |-> TRUE, call |-> "set_heads", arg |-> 0]>>

Inherent == UNION {ToSet(InherentExtrinsics(now)) : now \in Moments}

(* set_heads is anybody's to send, too. *)
SignedInherent == [sender : Accounts, index : {0}, signature : {TRUE}, call : {"set_heads"}, arg : {0}]

Transfers == [sender : Accounts, index : 0..1, signature : BOOLEAN, call : {"transfer"}, arg : Amounts]

Extrinsics == Inherent \cup SignedInherent \cup Transfers

-----------------------------------------------------------------------------
(* timestamp: GenesisConfig::build_storage; the period is a constant. *)
TimestampGenesis == [now |-> 0]

(* The system module.  The genesis configuration, with the hash of block 0 *)
(* that is not known yet.                                                  *)
Genesis ==
  TimestampGenesis @@
  [nonce |-> [a \in Accounts |-> 0], free |-> [a \in Accounts |-> Funds],
   number |-> None, parent_hash |-> None, block_hash |-> <<>>,
   extrinsics_root |-> None, random_seed |-> None, extrinsic_index |-> None,
   extrinsic_data |-> <<>>, did_time |-> FALSE, did_heads |-> FALSE]

(* The hashes that calculate_random mixes: those of the blocks before the  *)
(* parent, and that of block 0 for what is missing.                        *)
Mixed(s, number) ==
  [c \in 0..(IF number > 1 THEN number - 2 ELSE 0) |-> s.block_hash[c]]

(* system::initialise, and initialise_block after it. *)
Initialise(s, number, parent_hash, txs_root) ==
  LET hashes == [n \in 0..(number - 1) |-> IF n = number - 1 THEN parent_hash ELSE s.block_hash[n]]
      noted == [s EXCEPT !.number = number, !.parent_hash = parent_hash,
                         !.block_hash = hashes, !.extrinsics_root = txs_root]
  IN  [noted EXCEPT !.random_seed = Mixed(noted, number), !.extrinsic_index = 0]

(* Mutant: the index of the next extrinsic stays. *)
FinaliseKeepsIndex(s) ==
  LET rest == [s EXCEPT !.random_seed = None,
                        !.number = None, !.parent_hash = None, !.extrinsics_root = None]
  IN  [storage |-> rest,
       header |-> [number |-> s.number, parent_hash |-> s.parent_hash,
                   extrinsics_root |-> s.extrinsics_root, state_root |-> rest]]

(* system::finalise: what lives only in a block is taken out.  The header, *)
(* and the storage that its state root is the root of.                     *)
Finalise(s) ==
  LET rest == [s EXCEPT !.random_seed = None, !.extrinsic_index = None,
                        !.number = None, !.parent_hash = None, !.extrinsics_root = None]
  IN  [storage |-> rest,
       header |-> [number |-> s.number, parent_hash |-> s.parent_hash,
                   extrinsics_root |-> s.extrinsics_root, state_root |-> rest]]

(* note_extrinsic: the data at the place of the next extrinsic. *)
NoteExtrinsic(s, xt) ==
  [s EXCEPT !.extrinsic_data =
     [i \in DOMAIN @ \cup {s.extrinsic_index} |-> IF i = s.extrinsic_index THEN xt ELSE @[i]]]

(* derive_extrinsics: the root of the data of the first extrinsic_index    *)
(* places, which are taken out.                                            *)
DeriveExtrinsics(s) ==
  LET count == s.extrinsic_index
      at(i) == IF i \in DOMAIN s.extrinsic_data THEN s.extrinsic_data[i] ELSE None
  IN  [s EXCEPT !.extrinsics_root = [i \in 1..count |-> at(i - 1)],
                !.extrinsic_data = [i \in DOMAIN @ \ 0..(count - 1) |-> @[i]]]

-----------------------------------------------------------------------------
(* The calls.  timestamp::set asserts all it asks for. *)
SetTimestamp(s, signed, now) ==
  IF signed \/ s.did_time \/ s.extrinsic_index # 0 \/ (s.now # 0 /\ now < s.now + Period)
  THEN Panic ELSE [s EXCEPT !.now = now, !.did_time = TRUE]

(* parachains::set_heads, with no candidates: its checks are errors, which *)
(* change nothing.                                                         *)
SetHeads(s, signed) ==
  IF signed \/ s.did_heads \/ s.extrinsic_index # 1 THEN s ELSE [s EXCEPT !.did_heads = TRUE]

(* A transfer to somebody outside, standing for what extrinsics do. *)
Transfer(s, who, amount) ==
  IF s.free[who] < amount THEN s ELSE [s EXCEPT !.free[who] = @ - amount]

Dispatch(s, xt) ==
  CASE xt.call = "set" -> SetTimestamp(s, xt.sender # None, xt.arg)
    [] xt.call = "set_heads" -> SetHeads(s, xt.sender # None)
    [] xt.call = "transfer" -> Transfer(s, xt.sender, xt.arg)

(* UncheckedExtrinsic::check: what is not signed is nobody's. *)
Checks(xt) == xt.sender # None => xt.signature

(* What apply_extrinsic_no_note_with_len asks for: the signature, the      *)
(* sender's index, and the fee.                                            *)
Applies(s, xt) ==
  /\ Checks(xt)
  /\ xt.sender # None => xt.index = s.nonce[xt.sender] /\ s.free[xt.sender] >= Fee

Paid(s, who) == [s EXCEPT !.free[who] = @ - Fee, !.nonce[who] = @ + 1]

(* The rest of it: pay, dispatch, count.  An error of the call is an       *)
(* outcome: the fee and the index are spent.                               *)
Apply(s, xt) ==
  LET paid == IF xt.sender = None THEN s ELSE Paid(s, xt.sender)
      done == Dispatch(paid, xt)
  IN  IF done = Panic THEN Panic ELSE [done EXCEPT !.extrinsic_index = @ + 1]

(* The end of a block: each module's execute, of which parachains and      *)
(* timestamp assert that they were set.                                    *)
Finalisation(s) ==
  IF s.did_heads /\ s.did_time THEN [s EXCEPT !.did_heads = FALSE, !.did_time = FALSE] ELSE Panic

(* CheckedBlock::new: the inherent extrinsics are there, in their places. *)
CheckedBlock(xts) ==
  /\ Len(xts) > 0 /\ xts[1].sender = None /\ xts[1].call = "set"
  /\ Len(xts) > 1 /\ xts[2].sender = None /\ xts[2].call = "set_heads"

-----------------------------------------------------------------------------
(* execute_block: initialise, the checks that need no execution, each      *)
(* extrinsic, which must apply, the end, and the header against the one    *)
(* that comes out.                                                         *)
ExecuteBlock(s, header, xts) ==
  LET start == Initialise(s, header.number, header.parent_hash, header.extrinsics_root)
      step(acc, xt) == IF acc = Panic \/ ~Applies(acc, xt) THEN Panic ELSE Apply(acc, xt)
      applied == IF header.extrinsics_root = xts THEN FoldLeft(step, start, xts) ELSE Panic
      ended == IF applied = Panic THEN Panic ELSE Finalisation(applied)
      last == Finalise(ended)
  IN  IF ended = Panic \/ last.header.state_root # header.state_root THEN Panic ELSE last.storage

(* Init: the genesis block, whose header has no parent. *)
Init ==
  x = [storage |-> Genesis,
       head |-> [number |-> 0, parent_hash |-> None, extrinsics_root |-> <<>>, state_root |-> Genesis],
       builder |-> None, blocks |-> {}]

(* BlockBuilder::at_block: the header has the parent's hash and the next   *)
(* number, and initialise_block runs on the parent's state.                *)
NewBuilder ==
  [storage |-> Initialise(x.storage, x.head.number + 1, x.head, <<>>),
   extrinsics |-> <<>>, slipped |-> FALSE, pushes |-> 0]

CanBuild == x.builder = None /\ x.blocks = {} /\ x.head.number < MaxHeight

AtBlock == CanBuild /\ x' = [x EXCEPT !.builder = NewBuilder]

(* BlockBuilder::push: apply_extrinsic notes the extrinsic and applies it. *)
(* A panic undoes what it did and returns the error; whatever outcome it   *)
(* reports otherwise, the extrinsic is on the block.                       *)
Pushed(b, xt) ==
  LET noted == NoteExtrinsic(b.storage, xt)
      done == IF Applies(noted, xt) THEN Apply(noted, xt) ELSE noted
  IN  IF done = Panic THEN Panic
      ELSE [storage |-> done, extrinsics |-> Append(b.extrinsics, xt),
            slipped |-> b.slipped \/ ~Applies(noted, xt), pushes |-> b.pushes + 1]

Push(xt) ==
  /\ x.builder # None
  /\ LET b == x.builder
     IN  /\ b.pushes < MaxPushes
         /\ x' = [x EXCEPT !.builder =
                    IF Pushed(b, xt) = Panic THEN [b EXCEPT !.pushes = @ + 1] ELSE Pushed(b, xt)]

(* PolkadotApi::build_block: a builder that has the inherent extrinsics; a *)
(* push that panics fails it.                                              *)
BuildBlock(now) ==
  /\ CanBuild
  /\ LET step(b, xt) == IF b = Panic THEN Panic ELSE Pushed(b, xt)
         built == FoldLeft(step, NewBuilder, InherentExtrinsics(now))
     IN  built # Panic /\ x' = [x EXCEPT !.builder = built]

(* Mutant: finalise_block does not run the end of the modules. *)
FinaliseBlockOnly(s) == Finalise(DeriveExtrinsics(s))

(* executive::finalise_block. *)
FinaliseBlock(s) ==
  LET ended == Finalisation(s)
  IN  IF ended = Panic THEN Panic ELSE Finalise(DeriveExtrinsics(ended))

(* BlockBuilder::bake: finalise_block gives the header. *)
Bake ==
  /\ x.builder # None
  /\ LET last == FinaliseBlock(x.builder.storage)
     IN  x' = [x EXCEPT !.builder = None,
                        !.blocks = IF last = Panic THEN @
                                   ELSE @ \cup {[header |-> last.header, storage |-> last.storage,
                                                 extrinsics |-> x.builder.extrinsics,
                                                 slipped |-> x.builder.slipped]}]

(* The block is executed by somebody, and is the last one if that works. *)
Import(block) ==
  /\ block \in x.blocks /\ x.builder = None
  /\ LET s == ExecuteBlock(x.storage, block.header, block.extrinsics)
     IN  x' = IF s = Panic THEN [x EXCEPT !.blocks = @ \ {block}]
              ELSE [x EXCEPT !.storage = s, !.head = block.header, !.blocks = {}]

Next ==
  \/ AtBlock
  \/ \E now \in Moments : BuildBlock(now)
  \/ \E xt \in Extrinsics : Push(xt)
  \/ Bake
  \/ \E block \in x.blocks : Import(block)

Spec == Init /\ [][Next]_x

-----------------------------------------------------------------------------
(* A block whose every push was applied executes on its parent without a   *)
(* panic, to the very storage the builder had: building and executing take *)
(* different paths through the executive (BlockBuilder::bake,              *)
(* Executive::execute_block).  And no block executes that CheckedBlock     *)
(* would refuse.                                                           *)
BuiltExecutes ==
  \A block \in x.blocks :
    LET after == ExecuteBlock(x.storage, block.header, block.extrinsics)
    IN  /\ ~block.slipped => after = block.storage
        /\ after # Panic => CheckedBlock(block.extrinsics)

(* Between blocks the storage has nothing left of the block: no number,    *)
(* index, data, or mark that an inherent came (finalise_block,             *)
(* final_checks).                                                          *)
NothingLeft ==
  LET s == x.storage
  IN  /\ s.number = None /\ s.extrinsic_index = None /\ s.extrinsic_data = <<>>
      /\ ~s.did_time /\ ~s.did_heads
      /\ \A n \in DOMAIN s.block_hash : s.block_hash[n].number = n

(* A block is built to what it executes to, and either way nothing of it   *)
(* is left for the next.                                                   *)
BlocksSound == BuiltExecutes /\ NothingLeft
=============================================================================
