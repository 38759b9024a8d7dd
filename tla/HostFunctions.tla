---------------------------- MODULE HostFunctions ----------------------------
(***************************************************************************)
(* What a runtime can ask of its host, in its two builds side by side: the *)
(* native one calls the externalities directly (substrate/runtime-io/      *)
(* with_std.rs); the Wasm one passes pointers into its linear memory to    *)
(* the executor (runtime-io/without_std.rs, substrate/executor/src/        *)
(* wasm_executor.rs and wasm_utils.rs, substrate/pwasm-libc).              *)
(*                                                                         *)
(* The runtime holds byte vectors and uses any of the functions on them.   *)
(* Memory is a row of cells: a byte, a u32 or a hash fills one.  Integers  *)
(* of 32 bits are scaled to 2 * Half values.  A trie root or a hash is a   *)
(* number that tells its inputs apart.                                     *)
(***************************************************************************)
EXTENDS Integers, Sequences, SequencesExt, FiniteSets

CONSTANTS Half,      \* 2^31, scaled
          MemSize,   \* the cells of the memory, the heap's included
          MaxOps,    \* bound: the functions used in all calls
          MaxVecs,   \* bound: the vectors that a call makes
          Values     \* the byte sequences to write

U32Max == 2 * Half - 1

(* The keys are byte sequences; the first is a prefix of the second. *)
StoredKeys == {<<0>>, <<0, 1>>, <<1>>}
Missing == <<-1>>

(* The stack of the Wasm runtime: a place for a key and one for a result. *)
KeyAt == 0
OutAt == 2
Heap == 3

(* h: native and wasm, what each build's storage holds; mem and heap of    *)
(* the Wasm; vecs: the vectors of the runtime, with the bytes the native   *)
(* one has in them; answer: what the last function answered in each build; *)
(* trapped; ops.                                                           *)
VARIABLE h

Fresh == [mem |-> <<>> \o [i \in 1..MemSize |-> 0], heap |-> Heap, vecs |-> <<>>]

Init ==
  h = [native |-> [k \in StoredKeys |-> Missing], wasm |-> [k \in StoredKeys |-> Missing],
       mem |-> Fresh.mem, heap |-> Heap, vecs |-> <<>>,
       answer |-> [native |-> <<>>, wasm |-> <<>>], trapped |-> FALSE, ops |-> 0]

-----------------------------------------------------------------------------
(* The memory of the Wasm instance, and its heap. *)

Inside(w, ptr, len) == ptr + len <= Len(w.mem)
Get(w, ptr, len) == SubSeq(w.mem, ptr + 1, ptr + len)

Set(w, ptr, bytes) ==
  IF ~Inside(w, ptr, Len(bytes)) THEN [w EXCEPT !.trapped = TRUE]
  ELSE [w EXCEPT !.mem = SubSeq(@, 1, ptr) \o bytes \o SubSeq(@, ptr + Len(bytes) + 1, Len(@))]

(* WritePrimitive and ReadPrimitive of a u32. *)
WritePrimitive(w, ptr, n) == Set(w, ptr, <<n>>)
ReadPrimitive(w, ptr) == Get(w, ptr, 1)[1]

(* Mutant: the end of the heap stays. *)
AllocateSame(w, size) == w

(* Heap::allocate: the next bytes, whether or not the memory has them.     *)
(* Nothing is ever freed.                                                  *)
Allocate(w, size) == [w EXCEPT !.heap = @ + size]

(* A number that tells lists of byte sequences apart. *)
Number(list) ==
  LET digit(acc, d) == 4 * acc + d
      word(acc, s) == digit(FoldLeft(LAMBDA n, b : digit(n, b + 2), acc, s), 0)
  IN  FoldLeft(word, 1, list)

-----------------------------------------------------------------------------
(* Arguments and results between the Wasm and the host. *)

(* ConvertibleToWasm: an unsigned number or a pointer passes as signed, *)
ToRuntimeValue(n) == IF n >= Half THEN n - 2 * Half ELSE n

(* ... and is unsigned again on the other side. *)
FromRuntimeValue(n) == IF n < 0 THEN n + 2 * Half ELSE n

(* unmarshall_args and marshall. *)
Marshalled(args) == [i \in DOMAIN args |-> FromRuntimeValue(ToRuntimeValue(args[i]))]

-----------------------------------------------------------------------------
(* The host functions.  Each gives the state and what it returns.          *)
Ok(w, ret) == [w |-> w, ret |-> ret]
Trap(w) == Ok([w EXCEPT !.trapped = TRUE], 0)

ext_set_storage(w, a) ==
  IF ~Inside(w, a[1], a[2]) \/ ~Inside(w, a[3], a[4]) THEN Trap(w)
  ELSE Ok([w EXCEPT !.wasm[Get(w, a[1], a[2])] = Get(w, a[3], a[4])], 0)

ext_clear_storage(w, a) ==
  IF ~Inside(w, a[1], a[2]) THEN Trap(w)
  ELSE Ok([w EXCEPT !.wasm[Get(w, a[1], a[2])] = Missing], 0)

(* clear_prefix of the externalities, for keys that the backend has. *)
Cleared(store, prefix) == [k \in StoredKeys |-> IF IsPrefix(prefix, k) THEN Missing ELSE store[k]]

ext_clear_prefix(w, a) ==
  IF ~Inside(w, a[1], a[2]) THEN Trap(w)
  ELSE Ok([w EXCEPT !.wasm = Cleared(@, Get(w, a[1], a[2]))], 0)

(* The value goes to new memory, and its length to the place given. *)
ext_get_allocated_storage(w, a) ==
  LET value == w.wasm[Get(w, a[1], a[2])]
      alloc == Set(Allocate(w, Len(value)), w.heap, value)
  IN  IF ~Inside(w, a[1], a[2]) THEN Trap(w)
      ELSE IF value = Missing THEN Ok(WritePrimitive(w, a[3], U32Max), 0)
      ELSE IF alloc.trapped THEN Trap(w)
      ELSE Ok(WritePrimitive(alloc, a[3], Len(value)), w.heap)

(* The value behind the offset.  An offset beyond its end is a panic. *)
From(value, offset) == SubSeq(value, offset + 1, Len(value))

Least(m, n) == IF m < n THEN m ELSE n

(* As much as there is room for; what was written is returned. *)
ext_get_storage_into(w, a) ==
  LET value == w.wasm[Get(w, a[1], a[2])]
      rest == From(value, a[5])
      written == Least(a[4], Len(rest))
      done == Set(w, a[3], SubSeq(rest, 1, written))
  IN  IF ~Inside(w, a[1], a[2]) THEN Trap(w)
      ELSE IF value = Missing THEN Ok(w, U32Max)
      ELSE IF a[5] > Len(value) \/ done.trapped THEN Trap(w)
      ELSE Ok(done, written)

Root(store) == Number([i \in 1..3 |-> store[<< <<0>>, <<0, 1>>, <<1>> >>[i]]])

ext_storage_root(w, a) == Ok(Set(w, a[1], <<Root(w.wasm)>>), 0)

(* scan: where each value starts, from the lengths of those before it. *)
Offsets(lens) == [i \in DOMAIN lens |-> FoldLeft(+, 0, SubSeq(lens, 1, i - 1))]

ext_enumerated_trie_root(w, a) ==
  LET lens == [i \in 1..a[3] |-> ReadPrimitive(w, a[2] + i - 1)]
      values == [i \in 1..a[3] |-> Get(w, a[1] + Offsets(lens)[i], lens[i])]
  IN  IF ~Inside(w, a[2], a[3]) \/ ~Inside(w, a[1], FoldLeft(+, 0, lens)) THEN Trap(w)
      ELSE Ok(Set(w, a[4], <<Number(values)>>), 0)

(* blake2_256, and twox_128 and twox_256 likewise. *)
ext_blake2_256(w, a) ==
  IF a[2] = 0 THEN Ok(Set(w, a[3], <<Number(<< <<>> >>)>>), 0)
  ELSE IF ~Inside(w, a[1], a[2]) THEN Trap(w)
  ELSE Ok(Set(w, a[3], <<Number(<<Get(w, a[1], a[2])>>)>>), 0)

(* A signature is good if it is the hash of the message, and the key's. *)
Verifies(sig, msg, pubkey) == sig = Number(<<msg, <<pubkey>> >>)

ext_ed25519_verify(w, a) ==
  IF ~Inside(w, a[1], a[2]) \/ ~Inside(w, a[3], 1) \/ ~Inside(w, a[4], 1) THEN Trap(w)
  ELSE Ok(w, IF Verifies(ReadPrimitive(w, a[3]), Get(w, a[1], a[2]), ReadPrimitive(w, a[4]))
             THEN 0 ELSE 5)

ext_malloc(w, a) == Ok(Allocate(w, a[1]), w.heap)
ext_free(w, a) == Ok(w, 0)

Overlap(dest, src, count) == count > 0 /\ dest < src + count /\ src < dest + count

(* copy_nonoverlapping: an overlap is an error. *)
ext_memcpy(w, a) ==
  IF ~Inside(w, a[2], a[3]) \/ Overlap(a[1], a[2], a[3]) THEN Trap(w)
  ELSE Ok(Set(w, a[1], Get(w, a[2], a[3])), a[1])

ext_memmove(w, a) ==
  IF ~Inside(w, a[2], a[3]) THEN Trap(w) ELSE Ok(Set(w, a[1], Get(w, a[2], a[3])), a[1])

ext_memset(w, a) == Ok(Set(w, a[1], [i \in 1..a[3] |-> a[2]]), a[1])

(* The order of two byte sequences of one length, with the first byte that *)
(* differs.                                                                *)
Compare(s, t) ==
  LET differ == {i \in DOMAIN s : s[i] # t[i]}
      first == CHOOSE i \in differ : \A j \in differ : i <= j
  IN  IF differ = {} THEN 0 ELSE IF s[first] > t[first] THEN 1 ELSE -1

ext_memcmp(w, a) ==
  IF ~Inside(w, a[1], a[3]) \/ ~Inside(w, a[2], a[3]) THEN Trap(w)
  ELSE Ok(w, Compare(Get(w, a[1], a[3]), Get(w, a[2], a[3])))

-----------------------------------------------------------------------------
(* impl_function_executor: an import is bound to the index of its name,    *)
(* and the function with that index is called on the arguments; this is    *)
(* what the caller gets of its result r (resolve_fn, dispatch_fn).  Only   *)
(* memcmp returns a signed number, which stays as it is.                   *)
Ext(r) == [r EXCEPT !.ret = FromRuntimeValue(ToRuntimeValue(@))]

(* The allocator: an empty vector has no memory. *)
Alloc(w, size) == IF size = 0 THEN Ok(w, 1) ELSE Ext(ext_malloc(w, Marshalled(<<size>>)))

-----------------------------------------------------------------------------
(* runtime-io without std.  The key of a call is on the stack. *)
PutKey(w, k) == Set(w, KeyAt, k)

wasm_storage(w, k) ==
  LET r == Ext(ext_get_allocated_storage(PutKey(w, k), Marshalled(<<KeyAt, Len(k), OutAt>>)))
      length == ReadPrimitive(r.w, OutAt)
  IN  [w |-> r.w, ptr |-> r.ret, len |-> IF length = U32Max THEN -1 ELSE length]

wasm_set_storage(w, k, ptr, len) ==
  Ext(ext_set_storage(PutKey(w, k), Marshalled(<<KeyAt, Len(k), ptr, len>>))).w

wasm_clear_storage(w, k) == Ext(ext_clear_storage(PutKey(w, k), Marshalled(<<KeyAt, Len(k)>>))).w
wasm_clear_prefix(w, k) == Ext(ext_clear_prefix(PutKey(w, k), Marshalled(<<KeyAt, Len(k)>>))).w

(* read_storage: the number, or -1 for None. *)
wasm_read_storage(w, k, ptr, len, offset) ==
  LET r == Ext(ext_get_storage_into(PutKey(w, k), Marshalled(<<KeyAt, Len(k), ptr, len, offset>>)))
  IN  IF r.ret = U32Max THEN [r EXCEPT !.ret = -1] ELSE r

(* The lengths and the joined values are new vectors. *)
wasm_enumerated_trie_root(w, values) ==
  LET lens == [i \in DOMAIN values |-> Len(values[i])]
      joined == FlattenSeq(values)
      l == Alloc(w, Len(lens))
      j == Alloc(Set(l.w, l.ret, lens), Len(joined))
  IN  Ext(ext_enumerated_trie_root(Set(j.w, j.ret, joined),
                                   Marshalled(<<j.ret, l.ret, Len(lens), OutAt>>))).w

-----------------------------------------------------------------------------
(* runtime-io with std: what the function answers. *)
native_read_storage(k, offset) ==
  IF h.native[k] = Missing THEN -1 ELSE Len(From(h.native[k], offset))

(* The part of a vector that is written over. *)
Overwritten(bytes, new) == new \o SubSeq(bytes, Len(new) + 1, Len(bytes))

native_read_into(k, bytes, offset) ==
  IF h.native[k] = Missing THEN bytes
  ELSE LET rest == From(h.native[k], offset)
       IN  Overwritten(bytes, SubSeq(rest, 1, Least(Len(rest), Len(bytes))))

(* IncrementalInput::read: how much was read, given what read_storage      *)
(* answers.                                                                *)
Advanced(len, room) == Least(IF len = -1 THEN 0 ELSE len, room)

(* What a decoder reads in pieces of one size, up to the end: the native   *)
(* build, and the Wasm one, whose buffer is the vector at ptr.             *)
NativeInput(k, size) ==
  LET at[n \in 0..3] ==
        IF n = 0 THEN [pos |-> 0, got |-> <<>>]
        ELSE LET s == at[n - 1]
                 read == Advanced(native_read_storage(k, s.pos), size)
             IN  [pos |-> s.pos + read,
                  got |-> s.got \o SubSeq(native_read_into(k, [i \in 1..size |-> 0], s.pos), 1, read)]
  IN  at[3].got

WasmInput(w, k, ptr, size) ==
  LET at[n \in 0..3] ==
        IF n = 0 THEN [w |-> w, pos |-> 0, got |-> <<>>]
        ELSE LET s == at[n - 1]
                 r == wasm_read_storage(s.w, k, ptr, size, s.pos)
                 read == Advanced(r.ret, size)
             IN  [w |-> r.w, pos |-> s.pos + read, got |-> s.got \o Get(r.w, ptr, read)]
  IN  at[3]

-----------------------------------------------------------------------------
(* The runtime.  A step of it is a function call in both builds; w is the  *)
(* state after the Wasm one, with the native storage still to be changed.  *)
Step == ~h.trapped /\ h.ops < MaxOps
Vecs == DOMAIN h.vecs
Vec(ptr, bytes) == [ptr |-> ptr, bytes |-> bytes]
Contents(w, v) == Get(w, v.ptr, Len(v.bytes))

Did(w, native, wasm) ==
  h' = [w EXCEPT !.ops = @ + 1,
                 !.answer = IF w.trapped THEN h.answer ELSE [native |-> native, wasm |-> wasm]]

(* A vector of its own, written byte by byte; a vector is dropped. *)
NewVec(bytes) ==
  LET r == Alloc(h, Len(bytes))
  IN  /\ Step /\ Len(h.vecs) < MaxVecs
      /\ Did([Set(r.w, r.ret, bytes) EXCEPT !.vecs = Append(@, Vec(r.ret, bytes))], <<>>, <<>>)

DropVec(i) ==
  /\ Step
  /\ Did([Ext(ext_free(h, Marshalled(<<h.vecs[i].ptr>>))).w EXCEPT !.vecs = RemoveAt(@, i)],
         <<>>, <<>>)

Storage(k) ==
  LET r == wasm_storage(h, k)
      found == h.native[k] # Missing
  IN  /\ Step /\ Len(h.vecs) < MaxVecs
      /\ Did(IF found THEN [r.w EXCEPT !.vecs = Append(@, Vec(r.ptr, h.native[k]))] ELSE r.w,
             <<IF found THEN Len(h.native[k]) ELSE -1>>, <<r.len>>)

SetStorage(k, i) ==
  /\ Step
  /\ Did([wasm_set_storage(h, k, h.vecs[i].ptr, Len(h.vecs[i].bytes))
            EXCEPT !.native[k] = h.vecs[i].bytes], <<>>, <<>>)

ClearStorage(k) == Step /\ Did([wasm_clear_storage(h, k) EXCEPT !.native[k] = Missing], <<>>, <<>>)

ClearPrefix(k) ==
  Step /\ Did([wasm_clear_prefix(h, k) EXCEPT !.native = Cleared(@, k)], <<>>, <<>>)

(* read_storage into a vector.  An offset beyond the value is a panic in   *)
(* both builds.  The answers differ if the vector is too short: the rest   *)
(* of the value, or what was written.                                      *)
ReadStorage(k, i, offset) ==
  LET v == h.vecs[i]
      r == wasm_read_storage(h, k, v.ptr, Len(v.bytes), offset)
      answer == native_read_storage(k, offset)
  IN  /\ Step
      /\ h.native[k] # Missing => offset <= Len(h.native[k])
      /\ Did([r.w EXCEPT !.vecs[i].bytes = native_read_into(k, v.bytes, offset)],
             <<Least(answer, Len(v.bytes))>>, <<r.ret>>)

(* get and take of the runtime's storage: the value is decoded from an     *)
(* input; the pieces are read to a buffer.                                 *)
Decode(k, size) ==
  LET r == Alloc(h, size)
      input == WasmInput(Set(r.w, r.ret, [i \in 1..size |-> 0]), k, r.ret, size)
  IN  Step /\ Did(input.w, NativeInput(k, size), input.got)

StorageRoot ==
  LET w == Ext(ext_storage_root(h, Marshalled(<<OutAt>>))).w
  IN  Step /\ Did(w, <<Root(h.native)>>, <<ReadPrimitive(w, OutAt)>>)

EnumeratedTrieRoot(list) ==
  LET w == wasm_enumerated_trie_root(h, [i \in DOMAIN list |-> Contents(h, h.vecs[list[i]])])
  IN  /\ Step
      /\ Did(w, <<Number([i \in DOMAIN list |-> h.vecs[list[i]].bytes])>>,
             <<ReadPrimitive(w, OutAt)>>)

Blake2(i) ==
  LET v == h.vecs[i]
      w == Ext(ext_blake2_256(h, Marshalled(<<v.ptr, Len(v.bytes), OutAt>>))).w
  IN  Step /\ Did(w, <<Number(<<v.bytes>>)>>, <<ReadPrimitive(w, OutAt)>>)

(* A signature, of this message or of another, is checked. *)
Ed25519Verify(i, sig) ==
  LET v == h.vecs[i]
      w == Set(Set(h, OutAt, <<sig>>), KeyAt, <<1>>)
      r == Ext(ext_ed25519_verify(w, Marshalled(<<v.ptr, Len(v.bytes), OutAt, KeyAt>>)))
  IN  Step /\ Did(r.w, <<IF Verifies(sig, v.bytes, 1) THEN 0 ELSE 5>>, <<r.ret>>)

(* memcpy between two vectors and memmove within one, as far as both go;   *)
(* memset; memcmp.                                                         *)
Memcpy(i, j) ==
  LET n == Least(Len(h.vecs[i].bytes), Len(h.vecs[j].bytes))
  IN  /\ Step /\ i # j
      /\ Did([Ext(ext_memcpy(h, Marshalled(<<h.vecs[i].ptr, h.vecs[j].ptr, n>>))).w
                EXCEPT !.vecs[i].bytes = Overwritten(@, SubSeq(h.vecs[j].bytes, 1, n))], <<>>, <<>>)

Memmove(i) ==
  LET v == h.vecs[i]
      n == Len(v.bytes)
  IN  /\ Step /\ n > 1
      /\ Did([Ext(ext_memmove(h, Marshalled(<<v.ptr + 1, v.ptr, n - 1>>))).w
                EXCEPT !.vecs[i].bytes = <<v.bytes[1]>> \o SubSeq(v.bytes, 1, n - 1)], <<>>, <<>>)

Memset(i, b) ==
  LET v == h.vecs[i]
  IN  /\ Step
      /\ Did([Ext(ext_memset(h, Marshalled(<<v.ptr, b, Len(v.bytes)>>))).w
                EXCEPT !.vecs[i].bytes = <<>> \o [n \in DOMAIN v.bytes |-> b]], <<>>, <<>>)

Memcmp(i, j) ==
  LET s == h.vecs[i]
      t == h.vecs[j]
      n == Least(Len(s.bytes), Len(t.bytes))
      r == ext_memcmp(h, Marshalled(<<s.ptr, t.ptr, n>>))
  IN  /\ Step /\ i # j
      /\ Did(r.w, <<Compare(SubSeq(s.bytes, 1, n), SubSeq(t.bytes, 1, n))>>, <<r.ret>>)

(* WasmExecutor::call: where the result is, from the number returned. *)
Unpacked(r) == [ptr |-> r % (2 * Half), len |-> (r \div (2 * Half)) % (2 * Half)]

(* impl_stubs: the call returns a vector; its length is in the upper half. *)
Packed(ptr, len) == ptr + 2 * Half * len

(* The call is over.  The next one has a new instance, and its input is    *)
(* written to the heap by the host.                                        *)
Return(i, input) ==
  LET v == h.vecs[i]
      out == Unpacked(Packed(v.ptr, Len(v.bytes)))
      next == [h EXCEPT !.mem = Fresh.mem, !.heap = Heap, !.vecs = <<Vec(Heap, input)>>]
  IN  /\ Step
      /\ Did(Set(Allocate(next, Len(input)), Heap, input), v.bytes, Get(h, out.ptr, out.len))

Next ==
  \/ StorageRoot
  \/ \E bytes \in Values : NewVec(bytes)
  \/ \E k \in StoredKeys : Storage(k) \/ ClearStorage(k) \/ ClearPrefix(k)
  \/ \E k \in StoredKeys, size \in 1..2 : Decode(k, size)
  \/ \E i \in Vecs : DropVec(i) \/ Blake2(i) \/ Memmove(i)
  \/ \E i \in Vecs, b \in 0..1 : Memset(i, b)
  \/ \E i \in Vecs, k \in StoredKeys : SetStorage(k, i)
  \/ \E i \in Vecs, k \in StoredKeys, offset \in 0..2 : ReadStorage(k, i, offset)
  \/ \E i \in Vecs, j \in Vecs : Memcpy(i, j) \/ Memcmp(i, j) \/ EnumeratedTrieRoot(<<i, j>>)
  \/ \E i \in Vecs, good \in BOOLEAN :
       Ed25519Verify(i, IF good THEN Number(<<h.vecs[i].bytes, <<1>> >>) ELSE 0)
  \/ \E i \in Vecs, input \in Values : Return(i, input)

Spec == Init /\ [][Next]_h

-----------------------------------------------------------------------------
(* Both builds of the runtime do the same: until the Wasm runs out of      *)
(* memory, their storage, their vectors and the answers of the host are    *)
(* equal, whatever was allocated, copied, read in pieces or called before  *)
(* (FunctionExecutor, read_storage, IncrementalInput).                     *)
HostsAgree ==
  ~h.trapped =>
    /\ h.wasm = h.native
    /\ h.answer.wasm = h.answer.native
    /\ \A i \in Vecs : Contents(h, h.vecs[i]) = h.vecs[i].bytes
=============================================================================
