------------------------------ MODULE Execution ------------------------------
(***************************************************************************)
(* One runtime call after another on a state: the overlay and the          *)
(* externalities (substrate/state-machine/src), the storage functions of   *)
(* the runtime above them (substrate/runtime-support/src/storage,          *)
(* substrate/runtime-io/with_std.rs), the choice between the native and    *)
(* the Wasm runtime (substrate/executor/src/native_executor.rs), and the   *)
(* proof of a call that a light client checks by calling again             *)
(* (proving_backend.rs, substrate/client/src/light/call_executor.rs).      *)
(*                                                                         *)
(* A call is any sequence of storage operations that ends well or in a     *)
(* panic.  A trie is its contents, so a root is a map, and a proof is the  *)
(* set of keys whose values it shows.                                      *)
(***************************************************************************)
EXTENDS Integers, Sequences, SequencesExt, FiniteSets

CONSTANTS MaxOps,    \* bound: the operations of all calls
          MaxCalls,  \* bound: the calls
          Values

Unset == -1  \* a key that an overlay has no entry for
Gone == -2   \* no value

(* A value, a list of at most two items with its length, and a map whose   *)
(* keys have a common prefix.                                              *)
StorageKeys == {"code", "len", "l0", "l1", "m1", "m2"}
ItemKey(i) == <<"l0", "l1">>[i + 1]
Prefixed == {"m1", "m2"}

(* e: the backend; the overlay, committed and prospective; transaction,    *)
(* the root that was computed last, or Unset; phase: "idle", "call" or     *)
(* "done"; runtime: who runs the call; ops: the operations of the call,    *)
(* with what they answer; touched: the keys of the proof; list: what the   *)
(* list should hold, now and before the call; fresh: the call started with *)
(* an empty overlay; spent, calls.                                         *)
VARIABLE e

NoChanges == [k \in StorageKeys |-> Unset]

(* A map with the entries of an overlay. *)
Over(top, base) == [k \in StorageKeys |-> IF top[k] = Unset THEN base[k] ELSE top[k]]

(* OverlayedChanges::storage: the prospective entry, or else the committed. *)
Overlay(s) == Over(s.prospective, s.committed)

(* Ext::storage: the overlay, and then the backend. *)
Storage(s, k) == IF Overlay(s)[k] # Unset THEN Overlay(s)[k] ELSE s.backend[k]

Init ==
  \E code \in {Gone, 1, 2, 3} :
    e = [backend |-> [k \in StorageKeys |-> IF k = "code" THEN code ELSE IF k = "m1" THEN 1 ELSE Gone],
         committed |-> NoChanges, prospective |-> NoChanges, transaction |-> NoChanges, phase |-> "idle",
         runtime |-> "none", ops |-> <<>>, touched |-> {}, list |-> <<>>, list_before |-> <<>>,
         fresh |-> FALSE, spent |-> 0, calls |-> 0]

-----------------------------------------------------------------------------
(* Externalities. *)

(* Mutant: the root stays when the storage changes. *)
MarkDirtyNot(s) == s

(* mark_dirty: the root is forgotten. *)
MarkDirty(s) == [s EXCEPT !.transaction = NoChanges]

(* place_storage, and with it set_storage and clear_storage. *)
PlaceStorage(s, k, val) == [MarkDirty(s) EXCEPT !.prospective[k] = val]

(* for_keys_with_prefix of the trie. *)
ForKeysWithPrefix(s) == {k \in Prefixed : s.backend[k] # Gone}

(* clear_prefix: the keys that the backend has. *)
ClearPrefix(s) ==
  [MarkDirty(s) EXCEPT !.prospective = [k \in StorageKeys |-> IF k \in ForKeysWithPrefix(s) THEN Gone ELSE @[k]]]

(* Mutant: the prospective changes are applied first. *)
ExtDeltaSwapped(s) == Over(s.committed, s.prospective)

(* The changes that storage_root hands to the backend: the committed ones  *)
(* and then the prospective ones.                                          *)
ExtDelta(s) == Over(s.prospective, s.committed)

(* storage_root of the trie: the delta is applied to a copy. *)
TrieRoot(backend, delta) == Over(delta, backend)

(* Ext::storage_root: computed unless it is known. *)
StorageRoot(s) ==
  IF s.transaction # NoChanges THEN s
  ELSE [s EXCEPT !.transaction = TrieRoot(s.backend, ExtDelta(s))]

(* A key that is read from the backend, as the overlay has no answer. *)
Reads(s, keys) == {k \in keys : Overlay(s)[k] = Unset}

(* Mutant: a key that is not there leaves no trace. *)
RecordedPresent(s, keys) == {k \in Reads(s, keys) : s.backend[k] # Gone}

(* What reads through the proving backend add to the proof. *)
Recorded(s, keys) == Reads(s, keys)

-----------------------------------------------------------------------------
(* The runtime's storage: values, and lists. *)

(* What get and take answer for the three kinds of items: an option, the   *)
(* value or a default, or a value that must be there.                      *)
Panics(kind, val) == kind = "required" /\ val = Gone
Query(kind, val) == IF kind = "default" /\ val = Gone THEN 0 ELSE val

Put(s, k, val) == PlaceStorage(s, k, val)
Kill(s, k) == PlaceStorage(s, k, Gone)

(* take: kill if there is a value. *)
Take(s, k) == IF Storage(s, k) = Gone THEN s ELSE Kill(s, k)

Count(s) == Query("default", Storage(s, "len"))

ClearItem(s, i) == IF i < Count(s) THEN Kill(s, ItemKey(i)) ELSE s

(* The indices first, .., last - 1. *)
Indices(first, last) == [j \in 1..(IF last > first THEN last - first ELSE 0) |-> first + j - 1]

(* Mutant: the items behind the new end stay. *)
SetCountOnly(s, count) == Put(s, "len", count)

(* set_count: the items behind the new end are cleared first. *)
SetCount(s, count) == Put(FoldLeft(ClearItem, s, Indices(count, Count(s))), "len", count)

SetItem(s, i, val) == IF i < Count(s) THEN Put(s, ItemKey(i), val) ELSE s

(* StorageVec::set_items: the items, and then their number. *)
VecSetItems(s, items) ==
  LET put(acc, i) == Put(acc, ItemKey(i), items[i + 1])
  IN  SetCount(FoldLeft(put, s, Indices(0, Len(items))), Len(items))

(* set_items of a declared list: the number, and then the items. *)
ListSetItems(s, items) ==
  LET put(acc, i) == SetItem(acc, i, items[i + 1])
  IN  FoldLeft(put, SetCount(s, Len(items)), Indices(0, Len(items)))

Push(s, val) ==
  LET n == Count(s) IN SetCount(Put(s, ItemKey(n), val), n + 1)

(* clear of a declared list. *)
Clear(s) == Kill(FoldLeft(ClearItem, s, Indices(0, Count(s))), "len")

Items(s) == [i \in 1..Count(s) |-> Query("default", Storage(s, ItemKey(i - 1)))]

-----------------------------------------------------------------------------
(* An operation of the runtime: what it does to the storage, the keys it   *)
(* reads, what it answers, and what it does to the list as a sequence.     *)
Kinds == {"option", "default", "required"}

Ops ==
  [op : {"get", "take"}, key : Prefixed, val : {0}, kind : Kinds]
  \cup [op : {"put"}, key : Prefixed, val : Values, kind : {"option"}]
  \cup [op : {"put"}, key : {"code"}, val : {1, 3}, kind : {"option"}]
  \cup [op : {"kill"}, key : Prefixed \cup {"code"}, val : {0}, kind : {"option"}]
  \cup [op : {"root", "clear_prefix", "clear", "items"}, key : {"m1"}, val : {0}, kind : {"option"}]
  \cup [op : {"push", "vec_set_items", "list_set_items"}, key : {"l0"}, val : Values, kind : {"option"}]
  \cup [op : {"set_item"}, key : {"l0", "l1"}, val : Values, kind : {"option"}]

Index(o) == IF o.key = "l0" THEN 0 ELSE 1

Effect(s, o) ==
  CASE o.op \in {"get", "items"} -> s
    [] o.op = "take" -> Take(s, o.key)
    [] o.op = "kill" -> Kill(s, o.key)
    [] o.op = "put" -> Put(s, o.key, o.val)
    [] o.op = "root" -> StorageRoot(s)
    [] o.op = "clear_prefix" -> ClearPrefix(s)
    [] o.op = "push" -> Push(s, o.val)
    [] o.op = "set_item" -> SetItem(s, Index(o), o.val)
    [] o.op = "vec_set_items" -> VecSetItems(s, <<o.val>>)
    [] o.op = "list_set_items" -> ListSetItems(s, <<o.val>>)
    [] o.op = "clear" -> Clear(s)

ReadKeys(s, o) ==
  CASE o.op \in {"get", "take"} -> {o.key}
    [] o.op \in {"push", "set_item", "vec_set_items", "list_set_items", "clear"} -> {"len"}
    [] o.op = "items" -> {"len"} \cup {ItemKey(i - 1) : i \in 1..Count(s)}
    [] OTHER -> {}

Answer(s, o) ==
  CASE o.op \in {"get", "take"} -> <<Query(o.kind, Storage(s, o.key))>>
    [] o.op = "items" -> Items(s)
    [] OTHER -> <<>>

ListAfter(list, o) ==
  CASE o.op = "push" -> Append(list, o.val)
    [] o.op = "set_item" -> [i \in DOMAIN list |-> IF i = Index(o) + 1 THEN o.val ELSE list[i]]
    [] o.op \in {"vec_set_items", "list_set_items"} -> <<o.val>>
    [] o.op = "clear" -> <<>>
    [] OTHER -> list

-----------------------------------------------------------------------------
(* can_call_with: code 2 is of the native runtime's version, code 3 is not. *)
CanCallWith(code) == code = 2

(* NativeExecutor::call: the native runtime runs if the code is its own,   *)
(* code 1, or of its version, which the Wasm is asked for.                 *)
Runtime(code) == IF code = 1 \/ CanCallWith(code) THEN "native" ELSE "wasm"

(* execute: without code there is no call. *)
Start ==
  /\ e.phase = "idle" /\ e.calls < MaxCalls
  /\ LET code == Storage(e, "code") IN
       e' = IF code = Gone THEN [e EXCEPT !.calls = @ + 1]
            ELSE [e EXCEPT !.calls = @ + 1, !.phase = "call", !.runtime = Runtime(code),
                           !.touched = Recorded(e, {"code"}),
                           !.fresh = (e.committed = NoChanges), !.list_before = e.list]

(* Mutant: the changes of a failed call stay. *)
DiscardProspectiveNot(s) == s

DiscardProspective(s) == [s EXCEPT !.prospective = NoChanges]

(* After the call: only the storage, the list and the bounds are left. *)
Ended(s) ==
  [s EXCEPT !.phase = "idle", !.transaction = NoChanges, !.fresh = FALSE, !.ops = <<>>,
            !.touched = {}, !.list_before = <<>>, !.runtime = "none"]

(* The changes of a call that ends in an error are discarded. *)
Failed(s) == Ended(DiscardProspective([s EXCEPT !.list = s.list_before]))

(* The runtime does something, and may panic.  The list has room for two. *)
Operate(o) ==
  /\ e.phase = "call" /\ e.spent < MaxOps
  /\ o.op = "push" => Count(e) < 2
  /\ e' = IF o.op \in {"get", "take"} /\ Panics(o.kind, Storage(e, o.key))
          THEN Failed([e EXCEPT !.spent = @ + 1])
          ELSE [Effect(e, o) EXCEPT
                  !.ops = Append(@, [o |-> o, answer |-> Answer(e, o)]),
                  !.touched = @ \cup Recorded(e, ReadKeys(e, o)),
                  !.list = ListAfter(@, o), !.spent = @ + 1]

(* Mutant: only new keys are committed. *)
CommitProspectiveKeeps(s) ==
  [s EXCEPT !.committed = Over(s.committed, s.prospective), !.prospective = NoChanges]

CommitProspective(s) ==
  [s EXCEPT !.committed = Over(s.prospective, s.committed), !.prospective = NoChanges]

(* The call returns: the transaction is taken, and the changes committed. *)
Return ==
  /\ e.phase = "call"
  /\ e' = [CommitProspective(StorageRoot(e)) EXCEPT !.phase = "done"]

(* safe_call: a panic, or a trap of the Wasm, is an error. *)
SafeCall ==
  /\ e.phase = "call"
  /\ e' = Failed(e)

(* The caller goes on with the overlay (a block builder) or applies the    *)
(* transaction to the backend (an import) and starts a new overlay.        *)
Continue(apply) ==
  /\ e.phase = "done"
  /\ e' = [Ended(e) EXCEPT !.backend = IF apply THEN e.transaction ELSE @,
                           !.committed = IF apply THEN NoChanges ELSE @]

Next ==
  \/ Start \/ Return \/ SafeCall
  \/ \E o \in Ops : Operate(o)
  \/ \E apply \in BOOLEAN : Continue(apply)

Spec == Init /\ [][Next]_e

-----------------------------------------------------------------------------
(* check_execution_proof: the same call on the parts of the state that are *)
(* in the proof.  A read of another key is a panic: <<>>.  Both start from *)
(* an empty overlay.                                                       *)
Replay(proof, ops) ==
  LET start == [e EXCEPT !.prospective = NoChanges, !.committed = NoChanges, !.transaction = NoChanges]
      step(acc, entry) ==
        IF acc = <<>> THEN <<>>
        ELSE LET s == acc[1]
                 missing == Reads(s, ReadKeys(s, entry.o)) \ proof
             IN  IF missing # {} THEN <<>>
                 ELSE <<Effect(s, entry.o), Append(acc[2], Answer(s, entry.o))>>
  IN  IF "code" \notin proof THEN <<>> ELSE FoldLeft(step, <<start, <<>>>>, ops)

Answers(ops) == [i \in DOMAIN ops |-> ops[i].answer]

(* The root that the runtime is given, and the transaction that is written *)
(* to disk, are those of the state the runtime sees, after any writes      *)
(* since the root was last computed (Ext::mark_dirty, storage_root).       *)
RootIsCurrent == e.transaction # NoChanges => e.transaction = [k \in StorageKeys |-> Storage(e, k)]

(* A failed call leaves the state as it was, and a good one what it saw,   *)
(* for the next call on the same overlay (execute).  The list of the       *)
(* runtime is a sequence through all of that, and nothing of it is left    *)
(* behind its end (StorageVec, StorageList).                               *)
ListIsSequence ==
  /\ Items(e) = e.list
  /\ \A i \in {0, 1} : i >= Count(e) => Storage(e, ItemKey(i)) = Gone

(* The proof of a call suffices to check it: a light client gets the same  *)
(* answers, if the call started from an empty overlay and cleared no       *)
(* prefix.  With part of the proof it fails or gets the same               *)
(* (ProvingBackend::storage, check_execution_proof).                       *)
ProofSuffices ==
  e.phase = "done" /\ e.fresh /\ (\A i \in DOMAIN e.ops : e.ops[i].o.op # "clear_prefix") =>
    \A proof \in SUBSET e.touched :
      LET checked == Replay(proof, e.ops)
      IN  IF checked = <<>> THEN proof # e.touched ELSE checked[2] = Answers(e.ops)

(* Through calls that succeed and fail, natively and in Wasm: the root is  *)
(* that of what the runtime sees, its lists are sequences, and proofs      *)
(* suffice to check a call.                                                *)
ExecutionSound == RootIsCurrent /\ ListIsSequence /\ ProofSuffices
=============================================================================
