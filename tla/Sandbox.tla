------------------------------ MODULE Sandbox ------------------------------
(***************************************************************************)
(* The sandbox in which the runtime runs contracts, in its two builds side *)
(* by side: natively over wasmi (substrate/runtime-sandbox/with_std.rs),   *)
(* and in Wasm (without_std.rs), where every operation is a call to the    *)
(* executor's store (substrate/executor/src/sandbox.rs, wasm_executor.rs). *)
(* The same operations are applied to both.                                *)
(*                                                                         *)
(* A memory is known by the order of its creation: natively that names the *)
(* shared object, in Wasm it is the index into the store.  A guest imports *)
(* at most one function and the memory, which it writes before it calls    *)
(* the function.  A host function counts, returns nothing or fails.        *)
(***************************************************************************)
EXTENDS Integers, Sequences, SequencesExt

CONSTANTS Names,      \* what functions are registered as
          HeapSize,   \* the allocations that fit into the executor's heap
          MaxCalls    \* bound: operations in one call of the runtime

VARIABLE b

Nothing == "nothing"
MemoryName == "memory"
HostFuncs == {"inc", "unit", "fail"}
PageCells == 2
Codes == [func : Names \cup {Nothing}, mem : BOOLEAN, start : BOOLEAN]
Out(s, n) == <<s, n>>

(* A call of the runtime: FunctionExecutor::new makes an empty store and a *)
(* fresh heap.                                                             *)
Fresh ==
      [cells |-> [native |-> <<>>, wasm |-> <<>>],  \* the memories' contents
       store |-> <<>>,        \* Store::memories: TRUE until torn down
       live |-> {},           \* the memories the supervisor has a handle of
       map |-> <<>>,          \* the native environment, by name
       defined |-> <<>>,      \* defined_host_functions
       entries |-> <<>>,      \* the Wasm environment
       insts |-> <<>>, heap |-> 0,
       counter |-> [native |-> 0, wasm |-> 0],      \* the supervisor's state
       out |-> [native |-> Out("ok", 0), wasm |-> Out("ok", 0)],
       aborted |-> FALSE,     \* the Wasm runtime's call has trapped
       wrote |-> FALSE,       \* history: Memory::set was called
       calls |-> 0]

Init == b = Fresh

Room == b.calls < MaxCalls /\ ~b.aborted
Counted(r) == [r EXCEPT !.calls = @ + 1]
Both(o) == [native |-> o, wasm |-> o]

(* An import that returns DummyUserError traps, and so does the runtime    *)
(* that called it: WasmExecutor::call fails, whatever the native build     *)
(* answers (o).                                                            *)
Abort(r, o) == [r EXCEPT !.aborted = TRUE, !.out = [native |-> o, wasm |-> Out("abort", 0)]]

-----------------------------------------------------------------------------
(* Memory::new and Store::new_memory. *)
NewMemory(r, pages) ==
  LET cells == [k \in 1..(pages * PageCells) |-> 0]
  IN  [r EXCEPT !.store = Append(@, TRUE), !.live = @ \cup {Len(r.store) + 1},
                !.cells = [native |-> Append(@.native, cells), wasm |-> Append(@.wasm, cells)]]

MemoryNew(pages, maximum) ==
  /\ Room
  /\ b' = Counted(IF pages > maximum THEN Abort(b, Out("module", 0))
                  ELSE [NewMemory(b, pages) EXCEPT !.out = Both(Out("ok", 0))])

(* Store::memory_teardown. *)
MemoryTeardown(r, m) == [r EXCEPT !.store[m] = FALSE]

(* Drop for Memory, of the last handle or of a clone: natively a count,    *)
(* in Wasm the end of the memory.                                          *)
DropMemory(m) ==
  /\ Room /\ m \in b.live
  /\ \/ b' = Counted([MemoryTeardown(b, m) EXCEPT !.live = @ \ {m}])
     \/ b' = Counted(MemoryTeardown(b, m))

(* Memory::get through ext_sandbox_memory_get, of one cell. *)
Get(m, at) ==
  LET Read(cells) == IF at \in 1..Len(cells) THEN Out("cell", cells[at]) ELSE Out("oob", 0)
  IN  /\ Room /\ m \in b.live
      /\ b' = Counted(IF ~b.store[m] THEN Abort(b, Read(b.cells.native[m]))
                      ELSE [b EXCEPT !.out = [w \in {"native", "wasm"} |-> Read(b.cells[w][m])]])

(* Memory::set of one cell.  ext_sandbox_memory_set reads the supervisor's *)
(* memory at the address meant for the guest and writes the guest's at the *)
(* address of the buffer: what stands there (v) and where that is (ptr)    *)
(* depend on the supervisor's layout.                                      *)
Set(m, at, v, ptr) ==
  LET cells == b.cells
      In(w, a) == a \in 1..Len(cells[w][m])
      Done(ok) == IF ok THEN Out("ok", 0) ELSE Out("oob", 0)
      native == [b EXCEPT !.cells.native[m] = IF In("native", at) THEN [@ EXCEPT ![at] = 1] ELSE @,
                          !.wrote = TRUE]
  IN  /\ Room /\ m \in b.live
      /\ b' = Counted(IF ~b.store[m] THEN Abort(native, Done(In("native", at)))
                      ELSE [native EXCEPT
                              !.cells.wasm[m] = IF In("wasm", ptr) THEN [@ EXCEPT ![ptr] = v] ELSE @,
                              !.out = [native |-> Done(In("native", at)),
                                       wasm |-> Done(In("wasm", ptr))]])

-----------------------------------------------------------------------------
(* EnvironmentDefinitionBuilder::add_host_func: DefinedHostFunctions::define *)
(* natively, an entry in Wasm.                                             *)
AddHostFunc(name, f) ==
  /\ Room
  /\ b' = Counted([b EXCEPT !.defined = Append(@, f),
                            !.map = [k \in {name} |-> <<"func", Len(b.defined) + 1>>] @@ @,
                            !.entries = Append(@, [name |-> name, kind |-> "func", func |-> f, mem |-> 0])])

(* add_memory, given a clone.  In Wasm the clone is dropped on return. *)
AddMemory(m) ==
  /\ Room /\ m \in b.live
  /\ b' = Counted([MemoryTeardown(b, m) EXCEPT
                     !.map = [k \in {MemoryName} |-> <<"memory", m>>] @@ @,
                     !.entries = Append(@, [name |-> MemoryName, kind |-> "memory", func |-> Nothing, mem |-> m])])

(* GuestToSupervisorFunctionMapping::define. *)
Define(mapping, f) == [funcs |-> Append(mapping, f), idx |-> Len(mapping) + 1]

(* Mutant: the first entry of a name counts. *)
DecodeEnvironmentFirst(entries) ==
  FoldLeft(LAMBDA d, en :
             IF en.kind = "func"
             THEN LET def == Define(d.mapping, en.func)
                  IN  [d EXCEPT !.mapping = def.funcs, !.funcs = @ @@ [k \in {en.name} |-> def.idx]]
             ELSE [d EXCEPT !.memory = en.mem],
           [mapping |-> <<>>, funcs |-> <<>>, memory |-> 0], entries)

(* decode_environment_definition: the last entry of a name counts. *)
DecodeEnvironment(entries) ==
  FoldLeft(LAMBDA d, en :
             IF en.kind = "func"
             THEN LET def == Define(d.mapping, en.func)
                  IN  [d EXCEPT !.mapping = def.funcs, !.funcs = [k \in {en.name} |-> def.idx] @@ @]
             ELSE [d EXCEPT !.memory = en.mem],
           [mapping |-> <<>>, funcs |-> <<>>, memory |-> 0], entries)

(* ... which fails on a memory that was torn down. *)
EnvironmentDecodes(r) ==
  \A k \in 1..Len(r.entries) : r.entries[k].kind = "memory" => r.store[r.entries[k].mem]

(* resolve_func and resolve_memory of the native builder. *)
NativeResolves(r, code) ==
  /\ code.func # Nothing => code.func \in DOMAIN r.map
  /\ code.mem => MemoryName \in DOMAIN r.map

(* resolve_func and resolve_memory of the executor's Imports. *)
WasmResolves(r, code) ==
  LET d == DecodeEnvironment(r.entries)
  IN  /\ EnvironmentDecodes(r)
      /\ code.func # Nothing => code.func \in DOMAIN d.funcs
      /\ code.mem => d.memory # 0

NativeFunc(r, code) == IF code.func = Nothing THEN Nothing ELSE r.defined[r.map[code.func][2]]

(* func_by_guest_index of what resolve_func gave; its expect says that     *)
(* there is one.                                                           *)
WasmFunc(r, code) ==
  LET d == DecodeEnvironment(r.entries)
  IN  IF code.func = Nothing THEN Nothing
      ELSE IF d.funcs[code.func] \in 1..Len(d.mapping) THEN d.mapping[d.funcs[code.func]] ELSE "undefined"

-----------------------------------------------------------------------------
(* A host function, over the supervisor's counter. *)
Host(f, n) ==
  CASE f = "inc" -> [out |-> Out("value", n + 1), counter |-> n + 1]
    [] f \in {"unit", Nothing} -> [out |-> Out("unit", 0), counter |-> n]
    [] OTHER -> [out |-> Out("execution", 0), counter |-> n]

(* wasmi runs the guest: it writes its memory, unless that has no page,    *)
(* and calls its function.                                                 *)
Guest(r, w, f, m) ==
  IF m # 0 /\ Len(r.cells[w][m]) = 0 THEN [r EXCEPT !.out[w] = Out("execution", 0)]
  ELSE [r EXCEPT !.cells[w] = IF m = 0 THEN @ ELSE [@ EXCEPT ![m] = [@ EXCEPT ![1] = 1]],
                 !.counter[w] = Host(f, @).counter,
                 !.out[w] = Host(f, r.counter[w]).out]

(* Heap::allocate, k times; deallocate gives nothing back. *)
Allocate(r, k) == [r EXCEPT !.heap = @ + k]
Fits(r) == r.heap <= HeapSize

(* GuestExternals::invoke_index of the executor: the arguments and the     *)
(* result of a host function go through the supervisor's heap, and where   *)
(* they no longer fit the guest traps.                                     *)
WasmGuest(r, i) ==
  LET a == IF i.wfunc = Nothing THEN r ELSE Allocate(r, 2)
  IN  IF Fits(a) THEN Guest(a, "wasm", i.wfunc, i.mem)
      ELSE [a EXCEPT !.out.wasm = Out("execution", 0)]

NativeGuest(r, i) == Guest(r, "native", i.func, i.mem)

(* Instance::new, and ext_sandbox_instantiate with sandbox::instantiate.   *)
(* The instance is registered only once its start function has returned.   *)
NewInstance(code) ==
  LET m == IF code.mem THEN b.map[MemoryName][2] ELSE 0
      a == Allocate(b, 1)
      i == [func |-> NativeFunc(b, code), wfunc |-> WasmFunc(b, code), mem |-> m]
      native == IF code.start THEN NativeGuest(a, i) ELSE a
      both == IF code.start THEN WasmGuest(native, i) ELSE native
      failed == code.start /\ native.out.native[1] = "execution"
      answer == IF failed THEN Out("module", 0) ELSE Out("ok", 0)
  IN  /\ Room
      /\ b' = Counted(
           IF ~NativeResolves(b, code) THEN Abort(a, Out("module", 0))
           ELSE IF ~Fits(a) \/ ~WasmResolves(b, code) THEN Abort(native, answer)
           ELSE IF code.start /\ both.out.wasm[1] = "execution" THEN Abort(both, answer)
           ELSE [both EXCEPT !.insts = Append(@, i), !.out = [native |-> answer, wasm |-> Out("ok", 0)]])

(* Instance::invoke, and ext_sandbox_invoke_poc2: the arguments and the    *)
(* buffer for the result are allocated first.  Nothing is written for a    *)
(* function that returns nothing: a buffer of zeros decodes to Unit.       *)
Invoke(k) ==
  LET i == b.insts[k]
      a == Allocate(NativeGuest(b, i), 2)
  IN  /\ Room /\ k \in 1..Len(b.insts)
      /\ b' = Counted(IF Fits(a) THEN WasmGuest(a, i) ELSE Abort(a, a.out.native))

(* The next call of the runtime. *)
NextCall ==
  /\ b.calls = MaxCalls \/ b.aborted
  /\ b' = Fresh

Next ==
  \/ \E p \in 0..1, q \in 0..1 : MemoryNew(p, q)
  \/ \E m \in 1..Len(b.store) :
       \/ DropMemory(m) \/ AddMemory(m)
       \/ \E at \in 1..PageCells : Get(m, at)
       \/ \E at \in 1..PageCells, v \in 0..1, ptr \in {1, PageCells + 1} : Set(m, at, v, ptr)
  \/ \E name \in Names, f \in HostFuncs : AddHostFunc(name, f)
  \/ \E code \in Codes : NewInstance(code)
  \/ \E k \in 1..Len(b.insts) : Invoke(k)
  \/ NextCall

Spec == Init /\ [][Next]_b

-----------------------------------------------------------------------------
(* The native and the Wasm build of the runtime give the same answers, and *)
(* call the same host functions as often, for as long as the Wasm one is   *)
(* not aborted, has not run out of heap and has not written a memory       *)
(* through Memory::set.                                                    *)
SandboxesAgree ==
  ~b.aborted /\ ~b.wrote /\ Fits(b) => b.out.native = b.out.wasm /\ b.counter.native = b.counter.wasm
=============================================================================
