---------------------------- MODULE LightClient ----------------------------
(***************************************************************************)
(* What a light client knows of a state that it does not have              *)
(* (substrate/client/src/light): it asks full nodes to run a call, gets    *)
(* the trie nodes that the call touched, and runs the call on them.  The   *)
(* full node runs and records it (client/src/call_executor.rs,             *)
(* prove_execution in state-machine/src/lib.rs, proving_backend.rs,        *)
(* on_remote_call_request in network/src/protocol.rs).                     *)
(*                                                                         *)
(* The headers are stored as in Backends.  Who is asked again when an      *)
(* answer does not check out, or none comes, is the matter of OnDemand:    *)
(* here a request goes to any server that is connected.  A state is what   *)
(* its trie says of three keys: the code, and a list of at most one        *)
(* authority under a count and an item.  The trie has a root node, which   *)
(* is the hash of the state, and a node for each value.                    *)
(***************************************************************************)
EXTENDS Integers, Sequences, FiniteSets

CONSTANTS Headers, GenesisHeader, MaxHeight,  \* Hashes, Genesis, MaxNumber of Backends
          Lineage,    \* number and parent of each block
          State,    \* the state after each block
          FullNodes,
          Faithful, \* servers that run the node's code
          MaxCalls, MaxPrunes,  \* bounds
          Absent

(* l: light: the store of headers; kept: the states each server has;       *)
(* connected: the servers; call: the one that waits for an answer, with    *)
(* the server it was sent to; answers; refused: history, the servers that  *)
(* were refused though they had the state; panicked; calls and prunes.     *)
VARIABLE l

Light == INSTANCE Backends WITH
  Hashes <- Headers, Genesis <- GenesisHeader, MaxNumber <- MaxHeight, None <- Absent,
  Full <- {}, Threads <- {}, Origins <- {}, v <- [chain |-> Lineage]

(* The calls of the client (storage and code_at, authorities_at,           *)
(* runtime_version_at) and of the API, and the runtime's methods that some *)
(* of them are.                                                            *)
Calls == {"storage", "authorities_at", "version", "session_keys", "validators"}
Method(what) == IF what = "version" THEN what ELSE "authorities"

Gone == 0     \* no value, and the default version
Error == -1
Panic == -2

-----------------------------------------------------------------------------
(* The state machine. *)

Root(st) == <<"root", st>>
Leaf(st, k) == IF st[k] = Gone THEN {} ELSE {<<k, st[k]>>}

(* The keys that a call reads: the code first (execute), then the list. *)
KeysRead(st, method) ==
  IF method = "version" THEN {"code"}
  ELSE IF st.count = Gone THEN {"code", "count"} ELSE {"code", "count", "item"}

(* The version is that of the code. *)
Execute(st, method) == IF method = "version" THEN st.code ELSE IF st.count = Gone THEN Gone ELSE st.item

(* Mutant: a read leaves its value only. *)
ProveExecutionLeaves(st, method) == UNION {Leaf(st, k) : k \in KeysRead(st, method)}

(* prove_execution: the nodes that were touched. *)
ProveExecution(st, method) == {Root(st)} \cup UNION {Leaf(st, k) : k \in KeysRead(st, method)}

(* create_proof_check_backend: there must be the root. *)
ProofCheckBackend(st, proof) == Root(st) \in proof

(* execution_proof_check: execute panics if it cannot read the code; a     *)
(* panic of the runtime is an error.                                       *)
ExecutionProofCheck(st, proof, method) ==
  CASE ~ProofCheckBackend(st, proof) -> Error
    [] ProofCheckBackend(st, proof) /\ ~(Leaf(st, "code") \subseteq proof) -> Panic
    [] OTHER -> IF \A k \in KeysRead(st, method) : Leaf(st, k) \subseteq proof THEN Execute(st, method) ELSE Error

-----------------------------------------------------------------------------
(* The full node. *)

(* Client::state_at *)
Has(p, h) == h \in l.kept[p]

(* Client::execution_proof: with an overlay of its own, or an error. *)
ExecutionProof(p, h, method) == IF Has(p, h) THEN <<ProveExecution(State[h], method)>> ELSE <<>>

(* on_remote_call_request: for an error the proof is empty. *)
OnRemoteCallRequest(p, h, method) ==
  LET proof == ExecutionProof(p, h, method) IN IF proof = <<>> THEN {} ELSE proof[1]

(* LocalCallExecutor::call *)
LocalCall(h, method) == Execute(State[h], method)

(* with_runtime: the runtime's function on the state of the block, in a    *)
(* block on top of it.                                                     *)
WithRuntime(h, method) == Execute(State[h], method)

(* What a full node's API and client say. *)
FullApi(h, what) ==
  CASE what = "session_keys" -> WithRuntime(h, "authorities")
    [] what \in {"authorities_at", "version"} -> LocalCall(h, Method(what))
    [] OTHER -> Error

(* The states that a server may have, and what it may send of one. *)
Parts(h) == SUBSET ({Root(State[h])} \cup UNION {Leaf(State[h], k) : k \in DOMAIN State[h]})

-----------------------------------------------------------------------------
(* The light client. *)

(* Backend::begin_operation, and set_block_data of ImportOperation. *)
BeginHeader == [is_new_best |-> FALSE, header |-> Absent]
SetBlockData(op, h, is_new_best) == [op EXCEPT !.is_new_best = is_new_best, !.header = h]

(* Backend::commit_operation *)
CommitHeader(s, op) == Light!ImportHeader(s, op.header, Lineage[op.header].number, op.is_new_best)

(* Blockchain: header, hash and the best number are those of the store. *)
BlockchainHeader(s, h) == Light!HeaderOfLight(s, h)
BlockchainHash(s, n) == Light!HashOfLight(s, n)
BlockchainBest(s) == s.meta.best_number

(* OnDemandState has no storage, and of the API there are the session keys *)
(* only (RemotePolkadotApiWrapper).                                        *)
NotOnLight == {"storage"}
NotRemote == {"validators"}

(* runtime_version_at: the default for an error. *)
Decoded(what, data) == IF what = "version" /\ data = Error THEN Gone ELSE data

(* RemoteCallExecutor::call: the block that is asked for. *)
BlockOf(s, id) == IF id \in Light!Numbers THEN BlockchainHash(s, id) ELSE id

(* Mutant: the state of the best block. *)
LocalStateRootBest(s, h) ==
  LET header == BlockchainHeader(s, BlockchainHash(s, BlockchainBest(s)))
  IN  IF header = Absent THEN <<>> ELSE <<State[header]>>

(* check_execution_proof: the state root in the header, if there is one. *)
LocalStateRoot(s, h) ==
  LET header == BlockchainHeader(s, h) IN IF header = Absent THEN <<>> ELSE <<State[header]>>

CheckExecutionProof(s, h, method, proof) ==
  LET st == LocalStateRoot(s, h)
  IN  IF st = <<>> THEN Error ELSE ExecutionProofCheck(st[1], proof, method)

LightInit ==
  l = [light |-> CommitHeader(Light!NewLightStorage, SetBlockData(BeginHeader, GenesisHeader, TRUE)),
       kept |-> [p \in FullNodes |-> {GenesisHeader}], connected |-> FullNodes, call |-> Absent,
       answers |-> {}, refused |-> {}, panicked |-> FALSE, calls |-> 0, prunes |-> 0]

(* Client::import_block, with no state to run it on. *)
ImportLight(h) ==
  /\ ~l.panicked /\ BlockchainHeader(l.light, h) = Absent /\ BlockchainHeader(l.light, Lineage[h].parent) # Absent
  /\ LET best == Lineage[h].number = BlockchainBest(l.light) + 1
     IN  l' = [l EXCEPT !.light = CommitHeader(@, SetBlockData(BeginHeader, h, best))]

(* A server imports a block, or discards a state (ClientDb). *)
ServerImports(p, h) ==
  /\ h \notin l.kept[p] /\ Lineage[h].parent \in l.kept[p]
  /\ l' = [l EXCEPT !.kept[p] = @ \cup {h}]

ServerPrunes(p, h) ==
  /\ h \in l.kept[p] /\ l.prunes < MaxPrunes
  /\ l' = [l EXCEPT !.kept[p] = @ \ {h}, !.prunes = @ + 1]

Answered(s, what, at, data) ==
  [s EXCEPT !.call = Absent,
            !.answers = @ \cup {[what |-> what, at |-> at, result |-> Decoded(what, data),
                                 own |-> at \in Light!Blocks /\ BlockchainHeader(s.light, at) = at]}]

(* A call of the API or of the client; it waits for its answer.  The rest  *)
(* of the API, and the storage, are not there.                             *)
Call(what, id) ==
  /\ l.call = Absent /\ l.calls < MaxCalls /\ ~l.panicked
  /\ LET h == BlockOf(l.light, id)
         s == [l EXCEPT !.calls = @ + 1]
     IN  l' = CASE what \in NotOnLight \cup NotRemote -> Answered(s, what, id, Error)
                [] what \notin NotOnLight \cup NotRemote /\ h = Absent -> Answered(s, what, id, Error)
                [] OTHER -> [s EXCEPT !.call = [what |-> what, at |-> h, server |-> Absent]]

(* OnDemand: Fetcher::remote_call and dispatch, also again. *)
DispatchCall(p) ==
  /\ l.call # Absent /\ l.call.server = Absent /\ p \in l.connected /\ ~l.panicked
  /\ l' = [l EXCEPT !.call.server = p]

(* OnDemand: the server is lost, or has not answered in time. *)
Lost(p) ==
  /\ l.call # Absent /\ l.call.server = p
  /\ l' = [l EXCEPT !.call.server = Absent, !.connected = @ \ {p}]

(* A server that was lost or refused connects again. *)
Connects(p) == p \notin l.connected /\ ~l.panicked /\ l' = [l EXCEPT !.connected = @ \cup {p}]

(* OnDemand::on_remote_call_response: the answer checks out, or the server *)
(* is disconnected and the call is kept.                                   *)
OnCallResponse(p, proof) ==
  LET c == l.call
      result == CheckExecutionProof(l.light, c.at, Method(c.what), proof)
      true == Has(p, c.at) /\ proof = ProveExecution(State[c.at], Method(c.what))
  IN  l' = CASE result = Panic -> [l EXCEPT !.panicked = TRUE]
             [] result = Error ->
                [l EXCEPT !.call.server = Absent, !.connected = @ \ {p},
                          !.refused = IF true /\ BlockchainHeader(l.light, c.at) = c.at THEN @ \cup {p} ELSE @]
             [] OTHER -> Answered(l, c.what, c.at, result)

Waits(p) == l.call # Absent /\ l.call.server = p /\ ~l.panicked

ServerResponds(p) ==
  /\ Waits(p)
  /\ IF p \in Faithful THEN OnCallResponse(p, OnRemoteCallRequest(p, l.call.at, Method(l.call.what)))
     ELSE \E h \in l.kept[p] : \E proof \in Parts(h) : OnCallResponse(p, proof)

LightNext ==
  \/ \E h \in Headers : ImportLight(h)
  \/ \E p \in FullNodes : \/ \E h \in Headers : ServerImports(p, h) \/ ServerPrunes(p, h)
                          \/ DispatchCall(p) \/ Lost(p) \/ Connects(p) \/ ServerResponds(p)
  \/ \E what \in Calls :
       \E id \in Light!Blocks \cup Light!Numbers : Call(what, id)

LightSpec == LightInit /\ [][LightNext]_l

-----------------------------------------------------------------------------
(* A light client that is answered knows what a full node would tell it of *)
(* the state of the block it asked about, whatever nodes of whatever state *)
(* the servers sent before, unless it has a header of a sibling in the     *)
(* place of the block's; and no server is refused that had the state and   *)
(* sent what it touched (check_execution_proof, prove_execution).          *)
AnswersTrue ==
  /\ \A a \in l.answers :
       a.own /\ a.result # Error => a.result = FullApi(a.at, a.what)
  /\ l.refused = {}
=============================================================================
