------------------------- MODULE LightClientProofs -------------------------
(***************************************************************************)
(* Proofs about a light node: its client (LightClient), for any chain, any *)
(* states of it and any servers, and the service that sends its calls to   *)
(* servers (OnDemand), for any calls.                                      *)
(***************************************************************************)
EXTENDS LightClient, OnDemand, SequenceTheorems, FiniteSetTheorems, TLAPS

-----------------------------------------------------------------------------
(* What is assumed of the constants: hashes, numbers and nothing are told  *)
(* apart, and so are values and errors.                                    *)
Names == Absent \notin Light!Blocks /\ Light!Blocks \cap Light!Numbers = {}
Values == \A h \in Light!Blocks : State[h] \in [code : Nat, count : Nat, item : Nat]

(* The state has its fields. *)
Shape(s) ==
  s = [light |-> s.light, kept |-> s.kept, connected |-> s.connected, call |-> s.call,
       answers |-> s.answers, refused |-> s.refused, panicked |-> s.panicked,
       calls |-> s.calls, prunes |-> s.prunes]

Remote == {"authorities_at", "version", "session_keys"}

(* What waits for an answer is a call that a full node answers. *)
CallShape(c) ==
  c # Absent => c = [what |-> c.what, at |-> c.at, server |-> c.server] /\ c.what \in Remote

True(a) == a.own /\ a.result # Error => a.result = FullApi(a.at, a.what)

IInv ==
  /\ Shape(l)
  /\ l.kept \in [FullNodes -> SUBSET Light!Blocks]
  /\ CallShape(l.call)
  /\ \A a \in l.answers : True(a)
  /\ l.refused = {}

-----------------------------------------------------------------------------
(* Whatever proof is sent, the check of it comes to what the execution on  *)
(* the state itself does, or to nothing (execution_proof_check).           *)
LEMMA CheckIsExecution ==
  ASSUME NEW st, NEW proof, NEW method,
         ExecutionProofCheck(st, proof, method) \notin {Error, Panic}
  PROVE  ExecutionProofCheck(st, proof, method) = Execute(st, method)
  BY DEF ExecutionProofCheck

(* What prove_execution records passes the check. *)
LEMMA ProofChecksOut ==
  ASSUME NEW st \in [code : Nat, count : Nat, item : Nat], NEW method
  PROVE  ExecutionProofCheck(st, ProveExecution(st, method), method) # Error
<1> DEFINE proof == ProveExecution(st, method)
<1>1. ProofCheckBackend(st, proof)
  BY DEF ProofCheckBackend, ProveExecution
<1>2. \A k \in KeysRead(st, method) : Leaf(st, k) \subseteq proof
  BY DEF ProveExecution
<1>3. "code" \in KeysRead(st, method)
  BY DEF KeysRead
<1>4. Leaf(st, "code") \subseteq proof
  BY <1>2, <1>3
<1> HIDE DEF proof
<1>5. ExecutionProofCheck(st, proof, method) = Execute(st, method)
  BY <1>1, <1>2, <1>4 DEF ExecutionProofCheck
<1>6. Execute(st, method) \in Nat
  BY DEF Execute, Gone
<1> QED
  BY <1>5, <1>6 DEF Error, proof

(* The full node's API runs the same call. *)
LEMMA FullApiIsExecution ==
  ASSUME NEW what \in Remote, NEW h
  PROVE  FullApi(h, what) = Execute(State[h], Method(what))
  BY DEF Remote, FullApi, Method, WithRuntime, LocalCall

(* An answer that passes the check is the full node's. *)
LEMMA AnsweredTrue ==
  ASSUME NEW s, NEW what \in Remote, NEW at, NEW proof,
         BlockchainHeader(s, at) = at,
         CheckExecutionProof(s, at, Method(what), proof) \notin {Error, Panic}
  PROVE  CheckExecutionProof(s, at, Method(what), proof) = FullApi(at, what)
<1> DEFINE result == CheckExecutionProof(s, at, Method(what), proof)
<1>1. at # Absent
  BY DEF CheckExecutionProof, LocalStateRoot
<1>2. LocalStateRoot(s, at) = <<State[at]>>
  BY <1>1 DEF LocalStateRoot
<1>3. <<State[at]>> # <<>> /\ <<State[at]>>[1] = State[at]
  OBVIOUS
<1>4. result = ExecutionProofCheck(State[at], proof, Method(what))
  BY <1>2, <1>3 DEF CheckExecutionProof
<1>5. result = Execute(State[at], Method(what))
  BY <1>4, CheckIsExecution
<1> QED
  BY <1>5, FullApiIsExecution

(* An honest answer about a block whose header the client has passes.      *)
LEMMA HonestNotRefused ==
  ASSUME Values, Names, NEW s, NEW at \in Light!Blocks, NEW method,
         BlockchainHeader(s, at) = at
  PROVE  CheckExecutionProof(s, at, method, ProveExecution(State[at], method)) # Error
<1>1. at # Absent
  BY DEF Names
<1>2. LocalStateRoot(s, at) = <<State[at]>>
  BY <1>1 DEF LocalStateRoot
<1>3. <<State[at]>> # <<>> /\ <<State[at]>>[1] = State[at]
  OBVIOUS
<1>4. State[at] \in [code : Nat, count : Nat, item : Nat]
  BY DEF Values
<1> QED
  BY <1>2, <1>3, <1>4, ProofChecksOut DEF CheckExecutionProof

-----------------------------------------------------------------------------
(* The steps that answer nothing. *)
LEMMA QuietSteps ==
  ASSUME IInv, Shape(l'), l'.answers = l.answers, l'.refused = l.refused,
         l'.kept \in [FullNodes -> SUBSET Light!Blocks], CallShape(l'.call)
  PROVE  IInv'
  BY DEF IInv, True, FullApi, WithRuntime, LocalCall, Execute

LEMMA ServerSteps ==
  ASSUME IInv, NEW h \in Light!Blocks, NEW p \in FullNodes,
         ServerImports(p, h) \/ ServerPrunes(p, h) \/ DispatchCall(p) \/ Lost(p) \/ Connects(p)
  PROVE  IInv'
<1>0. h \in Light!Blocks /\ Shape(l) /\ CallShape(l.call) /\ l.kept \in [FullNodes -> SUBSET Light!Blocks]
  BY DEF IInv
<1>2. ASSUME NEW k \in SUBSET Light!Blocks, NEW n, l' = [l EXCEPT !.kept[p] = k, !.prunes = n]
      PROVE  IInv'
  <2> DEFINE kept == [l.kept EXCEPT ![p] = k]
  <2>1. kept \in [FullNodes -> SUBSET Light!Blocks]
    BY <1>0
  <2>2. l' = [l EXCEPT !.kept = kept, !.prunes = n]
    BY <1>2
  <2> HIDE DEF kept
  <2>3. /\ Shape(l') /\ l'.answers = l.answers /\ l'.refused = l.refused
        /\ l'.kept = kept /\ l'.call = l.call
    BY <1>0, <2>2 DEF Shape
  <2> QED
    BY <1>0, <2>1, <2>3, QuietSteps
<1>3. CASE ServerImports(p, h)
  <2>1. l.kept[p] \cup {h} \in SUBSET Light!Blocks
    BY <1>0
  <2>2. l' = [l EXCEPT !.kept[p] = l.kept[p] \cup {h}, !.prunes = l.prunes]
    BY <1>0, <1>3 DEF ServerImports, Shape
  <2> QED
    BY <1>2, <2>1, <2>2, Zenon
<1>4. CASE ServerPrunes(p, h)
  <2>1. l.kept[p] \ {h} \in SUBSET Light!Blocks
    BY <1>0
  <2>2. l' = [l EXCEPT !.kept[p] = l.kept[p] \ {h}, !.prunes = l.prunes + 1]
    BY <1>4 DEF ServerPrunes
  <2> QED
    BY <1>2, <2>1, <2>2, Zenon
<1>5. ASSUME NEW c, CallShape(c), NEW peers, l' = [l EXCEPT !.call = c, !.connected = peers]
      PROVE  IInv'
  <2>1. /\ Shape(l') /\ l'.answers = l.answers /\ l'.refused = l.refused
        /\ l'.kept = l.kept /\ l'.call = c
    BY <1>0, <1>5 DEF Shape
  <2> QED
    BY <1>0, <1>5, <2>1, QuietSteps
<1>6. \A server : l.call # Absent => CallShape([l.call EXCEPT !.server = server])
  BY <1>0 DEF CallShape
<1>7. CASE DispatchCall(p)
  <2>1. l.call # Absent /\ l' = [l EXCEPT !.call = [l.call EXCEPT !.server = p], !.connected = l.connected]
    BY <1>0, <1>7 DEF DispatchCall, Shape
  <2> QED
    BY <1>5, <1>6, <2>1, Zenon
<1>8. CASE Lost(p)
  <2>1. l.call # Absent /\ l' = [l EXCEPT !.call = [l.call EXCEPT !.server = Absent], !.connected = l.connected \ {p}]
    BY <1>8 DEF Lost
  <2> QED
    BY <1>5, <1>6, <2>1, Zenon
<1>9. CASE Connects(p)
  <2>1. l' = [l EXCEPT !.call = l.call, !.connected = l.connected \cup {p}]
    BY <1>0, <1>9 DEF Connects, Shape
  <2> QED
    BY <1>0, <1>5, <2>1, Zenon
<1> QED
  BY <1>3, <1>4, <1>7, <1>8, <1>9

(* An answer is kept. *)
LEMMA AnsweredGood ==
  ASSUME IInv, NEW made, NEW what, NEW at, NEW data,
         l' = Answered([l EXCEPT !.calls = made], what, at, data),
         True([what |-> what, at |-> at, result |-> Decoded(what, data),
               own |-> at \in Light!Blocks /\ BlockchainHeader(l.light, at) = at])
  PROVE  IInv'
<1> DEFINE a == [what |-> what, at |-> at, result |-> Decoded(what, data),
                 own |-> at \in Light!Blocks /\ BlockchainHeader(l.light, at) = at]
<1>1. Shape(l)
  BY DEF IInv
<1>2. [l EXCEPT !.calls = made].light = l.light
  BY <1>1 DEF Shape
<1>3. l' = [l EXCEPT !.calls = made, !.call = Absent, !.answers = l.answers \cup {a}]
  BY <1>1, <1>2 DEF Answered, Shape
<1>4. True(a)
  OBVIOUS
<1> HIDE DEF a
<1>5. /\ Shape(l') /\ l'.answers = l.answers \cup {a} /\ l'.refused = l.refused
      /\ l'.kept = l.kept /\ l'.call = Absent
  BY <1>1, <1>3 DEF Shape
<1>6. \A b \in l'.answers : True(b)
  BY <1>4, <1>5 DEF IInv
<1>7. CallShape(l'.call)
  BY <1>5 DEF CallShape
<1> QED
  BY <1>5, <1>6, <1>7 DEF IInv, True, FullApi, WithRuntime, LocalCall, Execute

LEMMA CallGood ==
  ASSUME Names, IInv, NEW what \in Calls, NEW id \in Light!Blocks \cup Light!Numbers, Call(what, id)
  PROVE  IInv'
<1> DEFINE h == BlockOf(l.light, id)
           n == l.calls + 1
           own == id \in Light!Blocks /\ BlockchainHeader(l.light, id) = id
<1>1. Shape(l)
  BY DEF IInv
<1>2. CASE what \in NotOnLight \cup NotRemote
  <2>1. l' = Answered([l EXCEPT !.calls = n], what, id, Error)
    BY <1>2 DEF Call
  <2>2. Decoded(what, Error) = Error
    BY <1>2 DEF Decoded, NotOnLight, NotRemote
  <2> QED
    BY <2>1, <2>2, AnsweredGood DEF True
<1>3. CASE what \notin NotOnLight \cup NotRemote /\ h = Absent
  <2>1. l' = Answered([l EXCEPT !.calls = n], what, id, Error)
    BY <1>3 DEF Call
  <2>2. id \notin Light!Blocks
    BY <1>3 DEF BlockOf, Names
  <2>3. True([what |-> what, at |-> id, result |-> Decoded(what, Error), own |-> own])
    BY <2>2, Zenon DEF True
  <2> QED
    BY <2>1, <2>3, AnsweredGood
<1>4. CASE what \notin NotOnLight \cup NotRemote /\ h # Absent
  <2> DEFINE c == [what |-> what, at |-> h, server |-> Absent]
  <2>1. l' = [l EXCEPT !.calls = n, !.call = c]
    BY <1>1, <1>4 DEF Call, Shape
  <2>2. what \in Remote
    BY <1>4 DEF Calls, NotOnLight, NotRemote, Remote
  <2>3. CallShape(c)
    BY <2>2 DEF CallShape
  <2> HIDE DEF c, n
  <2>4. /\ Shape(l') /\ l'.answers = l.answers /\ l'.refused = l.refused
        /\ l'.kept = l.kept /\ l'.call = c
    BY <1>1, <2>1 DEF Shape
  <2> QED
    BY <2>3, <2>4, QuietSteps DEF IInv
<1> QED
  BY <1>2, <1>3, <1>4

LEMMA ResponseGood ==
  ASSUME Names, Values, IInv, NEW p \in FullNodes, NEW proof, Waits(p), OnCallResponse(p, proof)
  PROVE  IInv'
<1> DEFINE c == l.call
           result == CheckExecutionProof(l.light, c.at, Method(c.what), proof)
           true == Has(p, c.at) /\ proof = ProveExecution(State[c.at], Method(c.what))
           own == BlockchainHeader(l.light, c.at) = c.at
<1>1. Shape(l) /\ c # Absent /\ CallShape(c) /\ c.what \in Remote
  BY DEF IInv, Waits, CallShape
<1>2. CASE result = Panic
  <2>1. l' = [l EXCEPT !.panicked = TRUE]
    BY <1>2 DEF OnCallResponse, Panic, Error
  <2>2. /\ Shape(l') /\ l'.answers = l.answers /\ l'.refused = l.refused
        /\ l'.kept = l.kept /\ l'.call = l.call
    BY <1>1, <2>1, Zenon DEF Shape
  <2> QED
    BY <1>1, <2>2, QuietSteps DEF IInv
<1>3. CASE result = Error
  <2> DEFINE again == [c EXCEPT !.server = Absent]
             peers == l.connected \ {p}
             refused == IF true /\ own THEN l.refused \cup {p} ELSE l.refused
  <2>1. l' = [l EXCEPT !.call = again, !.connected = peers, !.refused = refused]
    BY <1>1, <1>3 DEF OnCallResponse, Panic, Error
  <2>2. ~(true /\ own)
    <3> SUFFICES ASSUME true, own PROVE FALSE
      OBVIOUS
    <3>1. c.at \in Light!Blocks
      BY DEF Has, IInv
    <3> QED
      BY <1>3, <3>1, HonestNotRefused
  <2>3. refused = l.refused
    BY <2>2
  <2>4. CallShape(again)
    BY <1>1 DEF CallShape
  <2> HIDE DEF again, refused, peers
  <2>5. /\ Shape(l') /\ l'.answers = l.answers /\ l'.refused = refused
        /\ l'.kept = l.kept /\ l'.call = again
    BY <1>1, <2>1, Zenon DEF Shape
  <2> QED
    BY <2>3, <2>4, <2>5, QuietSteps DEF IInv
<1>4. CASE result \notin {Panic, Error}
  <2>1. l' = Answered(l, c.what, c.at, result)
    BY <1>4 DEF OnCallResponse
  <2>2. l = [l EXCEPT !.calls = l.calls]
    BY <1>1 DEF Shape
  <2>3. Decoded(c.what, result) = result
    BY <1>4 DEF Decoded
  <2>4. own => result = FullApi(c.at, c.what)
    BY <1>1, <1>4, AnsweredTrue
  <2>5. True([what |-> c.what, at |-> c.at, result |-> Decoded(c.what, result),
              own |-> c.at \in Light!Blocks /\ own])
    BY <2>3, <2>4, Zenon DEF True
  <2> QED
    BY <2>1, <2>2, <2>5, AnsweredGood
<1> QED
  BY <1>2, <1>3, <1>4

(* What a light client accepts is what a full node would tell it of the    *)
(* state whose root is in the block's header, for every chain, state and   *)
(* number of servers, and whatever nodes of whatever states false servers  *)
(* send; and nobody who has the state and sends what the call touched is   *)
(* refused (check_execution_proof, prove_execution).                       *)
THEOREM AnswersTrueHolds ==
  ASSUME Names, Values
  PROVE  LightSpec => []AnswersTrue
<1>1. LightInit => IInv
  <2> SUFFICES ASSUME LightInit PROVE IInv
    OBVIOUS
  <2>1. [p \in FullNodes |-> {GenesisHeader}] \in [FullNodes -> SUBSET Light!Blocks]
    BY DEF Light!Blocks
  <2>2. /\ Shape(l) /\ l.kept = [p \in FullNodes |-> {GenesisHeader}]
        /\ l.call = Absent /\ l.answers = {} /\ l.refused = {}
    BY DEF LightInit, Shape
  <2> QED
    BY <2>1, <2>2 DEF IInv, CallShape
<1>2. IInv /\ [LightNext]_l => IInv'
  <2> SUFFICES ASSUME IInv, [LightNext]_l PROVE IInv'
    OBVIOUS
  <2>1. CASE UNCHANGED l
    BY <2>1 DEF IInv, Shape, CallShape, True, FullApi, WithRuntime, LocalCall, Execute
  <2>2. ASSUME NEW h \in Headers, ImportLight(h) PROVE IInv'
    <3>1. PICK store : l' = [l EXCEPT !.light = store]
      BY <2>2, Zenon DEF ImportLight
    <3>2. /\ Shape(l') /\ l'.answers = l.answers /\ l'.refused = l.refused
          /\ l'.kept = l.kept /\ l'.call = l.call
      BY <3>1 DEF IInv, Shape
    <3> QED
      BY <3>2, QuietSteps DEF IInv
  <2>3. ASSUME NEW p \in FullNodes, NEW h \in Headers, ServerImports(p, h) \/ ServerPrunes(p, h) PROVE IInv'
    BY <2>3, ServerSteps DEF Light!Blocks
  <2>4. ASSUME NEW p \in FullNodes, DispatchCall(p) \/ Lost(p) \/ Connects(p) PROVE IInv'
    BY <2>4, ServerSteps DEF Light!Blocks
  <2>5. ASSUME NEW p \in FullNodes, ServerResponds(p) PROVE IInv'
    BY <2>5, ResponseGood DEF ServerResponds
  <2>6. ASSUME NEW what \in Calls, NEW id \in Light!Blocks \cup Light!Numbers, Call(what, id) PROVE IInv'
    BY <2>6, CallGood
  <2> QED
    BY <2>1, <2>2, <2>3, <2>4, <2>5, <2>6 DEF LightNext
<1>3. IInv => AnswersTrue
  BY DEF IInv, AnswersTrue, True
<1> QED
  BY <1>1, <1>2, <1>3, PTL DEF LightSpec

-----------------------------------------------------------------------------
(* OnDemand: every request and every server is in one place. *)

(* Two sequences of lengths n and m that hold every member of S once. *)
Parted(n, a, m, b, S) ==
  /\ n \in Nat /\ m \in Nat
  /\ \A i \in 1..n : a[i] \in S
  /\ \A i \in 1..m : b[i] \in S
  /\ \A i, j \in 1..n : a[i] = a[j] => i = j
  /\ \A i, j \in 1..m : b[i] = b[j] => i = j
  /\ \A i \in 1..n, j \in 1..m : a[i] # b[j]
  /\ \A x \in S : (\E i \in 1..n : a[i] = x) \/ (\E i \in 1..m : b[i] = x)

(* An element goes from its place, to the front or to the end; k of them   *)
(* go from the front, to the front or to the end.                          *)
Without(m, b, i, y) == \A j \in 1..(m - 1) : y[j] = IF j < i THEN b[j] ELSE b[j + 1]
Fronted(n, a, e, x) == x[1] = e /\ \A j \in 1..n : x[j + 1] = a[j]
Ended(n, a, e, x) == x[n + 1] = e /\ \A j \in 1..n : x[j] = a[j]
Swapped(n, a, i, x) == \A j \in 1..(n - 1) : x[j] = IF j = i THEN a[n] ELSE a[j]
Behind(m, b, k, y) == \A j \in 1..(m - k) : y[j] = b[k + j]
Firsts(b, k) == {b[j] : j \in 1..k}
Turned(n, a, b, k, x) == (\A j \in 1..k : x[j] = b[k + 1 - j]) /\ \A j \in 1..n : x[k + j] = a[j]
Joined(m, b, a, k, y) == (\A j \in 1..m : y[j] = b[j]) /\ \A j \in 1..k : y[m + j] = a[j]

(* A member of the second goes to the front of the first ... *)
LEMMA PartPush ==
  ASSUME NEW n, NEW a, NEW m, NEW b, NEW S, Parted(n, a, m, b, S), NEW i \in 1..m,
         NEW x, NEW y, Fronted(n, a, b[i], x), Without(m, b, i, y)
  PROVE  Parted(n + 1, x, m - 1, y, S)
<1> USE DEF Without, Fronted, Ended, Swapped, Behind, Turned, Joined
<1>1. \A k \in 1..(n + 1) : x[k] = IF k = 1 THEN b[i] ELSE a[k - 1]
  BY DEF Parted
<1>2. n \in Nat /\ m \in Nat /\ m > 0
  BY DEF Parted
<1>3. \A k \in 1..(n + 1) : x[k] \in S
  BY <1>1, <1>2 DEF Parted
<1>4. \A k \in 1..(m - 1) : y[k] \in S
  BY <1>2 DEF Parted
<1>5. \A j, k \in 1..(n + 1) : x[j] = x[k] => j = k
  BY <1>1, <1>2 DEF Parted
<1>6. \A j, k \in 1..(m - 1) : y[j] = y[k] => j = k
  BY <1>2 DEF Parted
<1>7. \A j \in 1..(n + 1), k \in 1..(m - 1) : x[j] # y[k]
  BY <1>1, <1>2 DEF Parted
<1>8. ASSUME NEW e \in S PROVE (\E j \in 1..(n + 1) : x[j] = e) \/ (\E j \in 1..(m - 1) : y[j] = e)
  <2>1. CASE \E j \in 1..n : a[j] = e
    <3>1. PICK j \in 1..n : a[j] = e
      BY <2>1
    <3> QED
      BY <1>2, <3>1
  <2>2. CASE \E j \in 1..m : b[j] = e
    <3>1. PICK j \in 1..m : b[j] = e
      BY <2>2
    <3>2. CASE j = i
      BY <1>2, <3>1, <3>2
    <3>3. CASE j < i
      BY <1>2, <3>1, <3>3
    <3>4. CASE j > i
      <4>1. j - 1 \in 1..(m - 1) /\ ~(j - 1 < i) /\ (j - 1) + 1 = j
        BY <1>2, <3>4
      <4>2. y[j - 1] = b[j]
        BY <4>1
      <4> QED
        BY <3>1, <4>1, <4>2
    <3> QED
      BY <3>2, <3>3, <3>4
  <2> QED
    BY <2>1, <2>2 DEF Parted
<1> QED
  BY <1>2, <1>3, <1>4, <1>5, <1>6, <1>7, <1>8 DEF Parted

(* ... or to the end of it, ... *)
LEMMA PartReturn ==
  ASSUME NEW n, NEW a, NEW m, NEW b, NEW S, Parted(n, a, m, b, S), NEW i \in 1..m,
         NEW x, NEW y, Ended(n, a, b[i], x), Without(m, b, i, y)
  PROVE  Parted(n + 1, x, m - 1, y, S)
<1> USE DEF Without, Fronted, Ended, Swapped, Behind, Turned, Joined
<1>2. n \in Nat /\ m \in Nat /\ m > 0
  BY DEF Parted
<1>3. \A k \in 1..(n + 1) : x[k] \in S
  BY <1>2 DEF Parted
<1>4. \A k \in 1..(m - 1) : y[k] \in S
  BY <1>2 DEF Parted
<1>5. \A j, k \in 1..(n + 1) : x[j] = x[k] => j = k
  BY <1>2 DEF Parted
<1>6. \A j, k \in 1..(m - 1) : y[j] = y[k] => j = k
  BY <1>2 DEF Parted
<1>7. \A j \in 1..(n + 1), k \in 1..(m - 1) : x[j] # y[k]
  BY <1>2 DEF Parted
<1>8. ASSUME NEW e \in S PROVE (\E j \in 1..(n + 1) : x[j] = e) \/ (\E j \in 1..(m - 1) : y[j] = e)
  <2>1. CASE \E j \in 1..n : a[j] = e
    BY <1>2, <2>1
  <2>2. CASE \E j \in 1..m : b[j] = e
    <3>1. PICK j \in 1..m : b[j] = e
      BY <2>2
    <3>2. CASE j = i
      BY <1>2, <3>1, <3>2
    <3>3. CASE j < i
      BY <1>2, <3>1, <3>3
    <3>4. CASE j > i
      <4>1. j - 1 \in 1..(m - 1) /\ ~(j - 1 < i) /\ (j - 1) + 1 = j
        BY <1>2, <3>4
      <4>2. y[j - 1] = b[j]
        BY <4>1
      <4> QED
        BY <3>1, <4>1, <4>2
    <3> QED
      BY <3>2, <3>3, <3>4
  <2> QED
    BY <2>1, <2>2 DEF Parted
<1> QED
  BY <1>2, <1>3, <1>4, <1>5, <1>6, <1>7, <1>8 DEF Parted

(* ... or away. *)
LEMMA PartDrop ==
  ASSUME NEW n, NEW a, NEW m, NEW b, NEW S, Parted(n, a, m, b, S), NEW i \in 1..m,
         NEW y, Without(m, b, i, y)
  PROVE  Parted(n, a, m - 1, y, S \ {b[i]})
<1> USE DEF Without, Fronted, Ended, Swapped, Behind, Turned, Joined
<1>2. n \in Nat /\ m \in Nat /\ m > 0
  BY DEF Parted
<1>3. \A k \in 1..n : a[k] \in S \ {b[i]}
  BY <1>2 DEF Parted
<1>4. \A k \in 1..(m - 1) : y[k] \in S \ {b[i]}
  BY <1>2 DEF Parted
<1>6. \A j, k \in 1..(m - 1) : y[j] = y[k] => j = k
  BY <1>2 DEF Parted
<1>7. \A j \in 1..n, k \in 1..(m - 1) : a[j] # y[k]
  BY <1>2 DEF Parted
<1>8. ASSUME NEW e \in S \ {b[i]} PROVE (\E j \in 1..n : a[j] = e) \/ (\E j \in 1..(m - 1) : y[j] = e)
  <2>1. CASE \E j \in 1..n : a[j] = e
    BY <2>1
  <2>2. CASE \E j \in 1..m : b[j] = e
    <3>1. PICK j \in 1..m : b[j] = e
      BY <2>2
    <3>3. CASE j < i
      BY <1>2, <3>1, <3>3
    <3>4. CASE j > i
      <4>1. j - 1 \in 1..(m - 1) /\ ~(j - 1 < i) /\ (j - 1) + 1 = j
        BY <1>2, <3>4
      <4>2. y[j - 1] = b[j]
        BY <4>1
      <4> QED
        BY <3>1, <4>1, <4>2
    <3> QED
      BY <1>8, <3>1, <3>3, <3>4
  <2> QED
    BY <2>1, <2>2 DEF Parted
<1> QED
  BY <1>2, <1>3, <1>4, <1>6, <1>7, <1>8 DEF Parted

(* A new one at the end of the first. *)
LEMMA PartAdd ==
  ASSUME NEW n, NEW a, NEW m, NEW b, NEW S, Parted(n, a, m, b, S), NEW e, e \notin S,
         NEW x, Ended(n, a, e, x)
  PROVE  Parted(n + 1, x, m, b, S \cup {e})
<1> USE DEF Without, Fronted, Ended, Swapped, Behind, Turned, Joined
<1>1. n \in Nat /\ m \in Nat
  BY DEF Parted
<1>2. \A k \in 1..(n + 1) : x[k] \in S \cup {e}
  BY <1>1 DEF Parted
<1>3. \A j, k \in 1..(n + 1) : x[j] = x[k] => j = k
  BY <1>1 DEF Parted
<1>4. \A j \in 1..(n + 1), k \in 1..m : x[j] # b[k]
  BY <1>1 DEF Parted
<1>5. \A z \in S \cup {e} : (\E j \in 1..(n + 1) : x[j] = z) \/ (\E j \in 1..m : b[j] = z)
  BY <1>1 DEF Parted
<1> QED
  BY <1>1, <1>2, <1>3, <1>4, <1>5 DEF Parted

(* One of the first is replaced by its last. *)
LEMMA PartSwap ==
  ASSUME NEW n, NEW a, NEW m, NEW b, NEW S, Parted(n, a, m, b, S), NEW i \in 1..n,
         NEW x, Swapped(n, a, i, x)
  PROVE  Parted(n - 1, x, m, b, S \ {a[i]})
<1> USE DEF Without, Fronted, Ended, Swapped, Behind, Turned, Joined
<1>1. n \in Nat /\ m \in Nat /\ n > 0
  BY DEF Parted
<1>2. \A k \in 1..(n - 1) : x[k] \in S \ {a[i]}
  BY <1>1 DEF Parted
<1>3. \A j, k \in 1..(n - 1) : x[j] = x[k] => j = k
  BY <1>1 DEF Parted
<1>4. \A j \in 1..(n - 1), k \in 1..m : x[j] # b[k]
  BY <1>1 DEF Parted
<1>5. \A k \in 1..m : b[k] \in S \ {a[i]}
  BY <1>1 DEF Parted
<1>6. ASSUME NEW z \in S \ {a[i]} PROVE (\E j \in 1..(n - 1) : x[j] = z) \/ (\E j \in 1..m : b[j] = z)
  <2>1. CASE \E j \in 1..m : b[j] = z
    BY <2>1
  <2>2. CASE \E j \in 1..n : a[j] = z
    <3>1. PICK j \in 1..n : a[j] = z
      BY <2>2
    <3>2. CASE j = n
      <4>1. i \in 1..(n - 1)
        BY <1>1, <1>6, <3>1, <3>2
      <4> QED
        BY <3>1, <3>2, <4>1
    <3>3. CASE j # n
      BY <1>1, <1>6, <3>1, <3>3
    <3> QED
      BY <3>2, <3>3
  <2> QED
    BY <2>1, <2>2 DEF Parted
<1> QED
  BY <1>1, <1>2, <1>3, <1>4, <1>5, <1>6 DEF Parted

(* The first k of the second go to the front of the first, ... *)
LEMMA PartTake ==
  ASSUME NEW n, NEW a, NEW m, NEW b, NEW S, Parted(n, a, m, b, S), NEW k \in 0..m, NEW x, NEW y,
         Turned(n, a, b, k, x), Behind(m, b, k, y)
  PROVE  Parted(n + k, x, m - k, y, S)
<1> USE DEF Without, Fronted, Ended, Swapped, Behind, Turned, Joined
<1>1. n \in Nat /\ m \in Nat /\ k \in Nat /\ k <= m
  BY DEF Parted
<1>2. \A j \in 1..(n + k) : x[j] = IF j <= k THEN b[k + 1 - j] ELSE a[j - k]
  <2> TAKE j \in 1..(n + k)
  <2>1. CASE j <= k
    BY <1>1, <2>1
  <2>2. CASE j > k
    <3>1. j - k \in 1..n /\ k + (j - k) = j
      BY <1>1, <2>2
    <3> QED
      BY <1>1, <2>2, <3>1
  <2> QED
    BY <1>1, <2>1, <2>2
<1>3. \A j \in 1..(n + k) : x[j] \in S
  BY <1>1, <1>2 DEF Parted
<1>4. \A j \in 1..(m - k) : y[j] \in S
  BY <1>1 DEF Parted
<1>5. \A i, j \in 1..(n + k) : x[i] = x[j] => i = j
  BY <1>1, <1>2 DEF Parted
<1>6. \A i, j \in 1..(m - k) : y[i] = y[j] => i = j
  BY <1>1 DEF Parted
<1>7. \A i \in 1..(n + k), j \in 1..(m - k) : x[i] # y[j]
  BY <1>1, <1>2 DEF Parted
<1>8. ASSUME NEW e \in S PROVE (\E j \in 1..(n + k) : x[j] = e) \/ (\E j \in 1..(m - k) : y[j] = e)
  <2>1. CASE \E j \in 1..n : a[j] = e
    <3>1. PICK j \in 1..n : a[j] = e
      BY <2>1
    <3> QED
      BY <1>1, <3>1
  <2>2. CASE \E j \in 1..m : b[j] = e
    <3>1. PICK j \in 1..m : b[j] = e
      BY <2>2
    <3>2. CASE j <= k
      <4>1. k + 1 - j \in 1..k /\ k + 1 - (k + 1 - j) = j
        BY <1>1, <3>2
      <4>2. x[k + 1 - j] = e
        BY <3>1, <4>1
      <4> QED
        BY <1>1, <4>1, <4>2
    <3>3. CASE j > k
      <4>1. j - k \in 1..(m - k) /\ k + (j - k) = j
        BY <1>1, <3>3
      <4>2. y[j - k] = e
        BY <3>1, <4>1
      <4> QED
        BY <4>1, <4>2
    <3> QED
      BY <1>1, <3>2, <3>3
  <2> QED
    BY <2>1, <2>2 DEF Parted
<1> QED
  BY <1>1, <1>3, <1>4, <1>5, <1>6, <1>7, <1>8 DEF Parted

(* ... or away. *)
LEMMA PartCut ==
  ASSUME NEW n, NEW a, NEW m, NEW b, NEW S, Parted(n, a, m, b, S), NEW k \in 0..m, NEW y, Behind(m, b, k, y)
  PROVE  Parted(n, a, m - k, y, S \ Firsts(b, k))
<1> USE DEF Without, Fronted, Ended, Swapped, Behind, Turned, Joined, Firsts
<1>1. n \in Nat /\ m \in Nat /\ k \in Nat /\ k <= m
  BY DEF Parted
<1>2. \A j \in 1..n : a[j] \in S \ Firsts(b, k)
  BY <1>1 DEF Parted
<1>3. \A j \in 1..(m - k) : y[j] \in S \ Firsts(b, k)
  BY <1>1 DEF Parted
<1>4. \A i, j \in 1..(m - k) : y[i] = y[j] => i = j
  BY <1>1 DEF Parted
<1>5. \A i \in 1..n, j \in 1..(m - k) : a[i] # y[j]
  BY <1>1 DEF Parted
<1>6. ASSUME NEW e \in S, \A j \in 1..k : b[j] # e
      PROVE  (\E j \in 1..n : a[j] = e) \/ (\E j \in 1..(m - k) : y[j] = e)
  <2>1. CASE \E j \in 1..n : a[j] = e
    BY <2>1
  <2>2. CASE \E j \in 1..m : b[j] = e
    <3>1. PICK j \in 1..m : b[j] = e
      BY <2>2
    <3>2. j > k
      BY <1>1, <1>6, <3>1
    <3>3. j - k \in 1..(m - k) /\ k + (j - k) = j
      BY <1>1, <3>2
    <3>4. y[j - k] = e
      BY <3>1, <3>3
    <3> QED
      BY <3>3, <3>4
  <2> QED
    BY <2>1, <2>2 DEF Parted
<1>7. \A e \in S \ Firsts(b, k) : (\E j \in 1..n : a[j] = e) \/ (\E j \in 1..(m - k) : y[j] = e)
  BY <1>6
<1> QED
  BY <1>1, <1>2, <1>3, <1>4, <1>5, <1>7 DEF Parted

(* The first k of the first go to the end of the second. *)
LEMMA PartGive ==
  ASSUME NEW n, NEW a, NEW m, NEW b, NEW S, Parted(n, a, m, b, S), NEW k \in 0..n, NEW x, NEW y,
         Behind(n, a, k, x), Joined(m, b, a, k, y)
  PROVE  Parted(n - k, x, m + k, y, S)
<1> USE DEF Without, Fronted, Ended, Swapped, Behind, Turned, Joined
<1>1. n \in Nat /\ m \in Nat /\ k \in Nat /\ k <= n
  BY DEF Parted
<1>2. \A j \in 1..(m + k) : y[j] = IF j <= m THEN b[j] ELSE a[j - m]
  <2> TAKE j \in 1..(m + k)
  <2>1. CASE j <= m
    BY <1>1, <2>1
  <2>2. CASE j > m
    <3>1. j - m \in 1..k /\ m + (j - m) = j
      BY <1>1, <2>2
    <3> QED
      BY <1>1, <2>2, <3>1
  <2> QED
    BY <1>1, <2>1, <2>2
<1>3. \A j \in 1..(n - k) : x[j] \in S
  BY <1>1 DEF Parted
<1>4. \A j \in 1..(m + k) : y[j] \in S
  BY <1>1, <1>2 DEF Parted
<1>5. \A i, j \in 1..(n - k) : x[i] = x[j] => i = j
  BY <1>1 DEF Parted
<1>6. \A i, j \in 1..(m + k) : y[i] = y[j] => i = j
  BY <1>1, <1>2 DEF Parted
<1>7. \A i \in 1..(n - k), j \in 1..(m + k) : x[i] # y[j]
  BY <1>1, <1>2 DEF Parted
<1>8. ASSUME NEW e \in S PROVE (\E j \in 1..(n - k) : x[j] = e) \/ (\E j \in 1..(m + k) : y[j] = e)
  <2>1. CASE \E j \in 1..m : b[j] = e
    BY <1>1, <2>1
  <2>2. CASE \E j \in 1..n : a[j] = e
    <3>1. PICK j \in 1..n : a[j] = e
      BY <2>2
    <3>2. CASE j <= k
      <4>1. m + j \in 1..(m + k) /\ y[m + j] = e
        BY <1>1, <3>1, <3>2
      <4> QED
        BY <4>1
    <3>3. CASE j > k
      <4>1. j - k \in 1..(n - k) /\ k + (j - k) = j
        BY <1>1, <3>3
      <4>2. x[j - k] = e
        BY <3>1, <4>1
      <4> QED
        BY <4>1, <4>2
    <3> QED
      BY <1>1, <3>2, <3>3
  <2> QED
    BY <2>1, <2>2 DEF Parted
<1> QED
  BY <1>1, <1>3, <1>4, <1>5, <1>6, <1>7, <1>8 DEF Parted

-----------------------------------------------------------------------------
Requests == [id : Nat, data : Callers]
Actives == [peer : Servers, id : Nat, data : Callers]
Cores == [next_request_id : Nat, pending : Seq(Requests), active : Seq(Actives), idle : Seq(Servers)]

DatasOf(s) == [i \in 1..Len(s) |-> s[i].data]
PeersOf(s) == [i \in 1..Len(s) |-> s[i].peer]

(* The calls S wait, each in one place, and the peers P have one, too. *)
Held(c, S, P) ==
  /\ c \in Cores
  /\ Parted(Len(c.pending), DatasOf(c.pending), Len(c.active), DatasOf(c.active), S)
  /\ Parted(Len(c.idle), c.idle, Len(c.active), PeersOf(c.active), P)

(* The places of a SubSeq. *)
CutAfter(s, k, n, T) ==
  /\ SubSeq(s, k + 1, k + n) \in Seq(T) /\ Len(SubSeq(s, k + 1, k + n)) = n
  /\ \A j \in 1..n : SubSeq(s, k + 1, k + n)[j] = s[k + j]

LEMMA Segment ==
  ASSUME NEW T, NEW s \in Seq(T), NEW k \in Nat, NEW n \in Nat, k + n <= Len(s)
  PROVE  CutAfter(s, k, n, T)
<1>1. Len(s) \in Nat /\ \A j \in 1..Len(s) : s[j] \in T
  BY LenProperties, ElementOfSeq
<1>2. k + 1 \in Int /\ k + n \in Int /\ \A j \in (k + 1)..(k + n) : s[j] \in T
  BY <1>1
<1>3. /\ SubSeq(s, k + 1, k + n) \in Seq(T)
      /\ Len(SubSeq(s, k + 1, k + n)) = IF k + 1 <= k + n THEN (k + n) - (k + 1) + 1 ELSE 0
      /\ \A j \in 1..((k + n) - (k + 1) + 1) : SubSeq(s, k + 1, k + n)[j] = s[(k + 1) + j - 1]
  BY <1>2, SubSeqProperties
<1>4. Len(SubSeq(s, k + 1, k + n)) = n
  BY <1>3
<1>5. ASSUME NEW j \in 1..n PROVE SubSeq(s, k + 1, k + n)[j] = s[k + j]
  <2>1. j \in 1..((k + n) - (k + 1) + 1) /\ (k + 1) + j - 1 = k + j
    OBVIOUS
  <2> QED
    BY <1>3, <2>1
<1> QED
  BY <1>3, <1>4, <1>5, Zenon DEF CutAfter

LEMMA RemovedOne ==
  ASSUME NEW T, NEW s \in Seq(T), NEW i \in 1..Len(s)
  PROVE  /\ Removed(s, i) \in Seq(T) /\ Len(Removed(s, i)) = Len(s) - 1
         /\ \A j \in 1..(Len(s) - 1) : Removed(s, i)[j] = IF j < i THEN s[j] ELSE s[j + 1]
<1>1. Len(s) \in Nat /\ Len(s) > 0 /\ s \in [1..Len(s) -> T]
  BY LenProperties
<1>2. Removed(s, i) \in [1..(Len(s) - 1) -> T]
  BY <1>1 DEF Removed
<1>3. Len(s) - 1 \in Nat
  BY <1>1
<1> QED
  BY <1>1, <1>2, <1>3 DEF Removed

LEMMA PushedOne ==
  ASSUME NEW T, NEW s \in Seq(T), NEW e \in T
  PROVE  /\ <<e>> \o s \in Seq(T) /\ Len(<<e>> \o s) = Len(s) + 1
         /\ (<<e>> \o s)[1] = e /\ \A j \in 1..Len(s) : (<<e>> \o s)[j + 1] = s[j]
<1>1. <<e>> \in Seq(T) /\ Len(<<e>>) = 1 /\ <<e>>[1] = e
  OBVIOUS
<1>2. /\ <<e>> \o s \in Seq(T)
      /\ Len(<<e>> \o s) = 1 + Len(s)
      /\ \A i \in 1..(1 + Len(s)) : (<<e>> \o s)[i] = IF i <= 1 THEN <<e>>[i] ELSE s[i - 1]
  BY <1>1, ConcatProperties
<1>3. Len(s) \in Nat
  BY LenProperties
<1> QED
  BY <1>1, <1>2, <1>3

LEMMA SwappedOne ==
  ASSUME NEW T, NEW s \in Seq(T), NEW i \in 1..Len(s)
  PROVE  /\ SwapRemoveBack(s, i) \in Seq(T) /\ Len(SwapRemoveBack(s, i)) = Len(s) - 1
         /\ Swapped(Len(s), s, i, SwapRemoveBack(s, i))
<1> DEFINE w == [s EXCEPT ![i] = s[Len(s)]]
<1>1. Len(s) \in Nat /\ Len(s) > 0 /\ s \in [1..Len(s) -> T] /\ s[Len(s)] \in T
  BY LenProperties, ElementOfSeq
<1>2. w \in Seq(T) /\ Len(w) = Len(s) /\ \A j \in 1..Len(s) : w[j] = IF j = i THEN s[Len(s)] ELSE s[j]
  BY <1>1, ExceptSeq
<1>3. SwapRemoveBack(s, i) = SubSeq(w, 1, Len(s) - 1)
  BY DEF SwapRemoveBack
<1> HIDE DEF w
<1>4. CutAfter(w, 0, Len(s) - 1, T)
  BY <1>1, <1>2, Segment
<1> QED
  BY <1>1, <1>2, <1>3, <1>4 DEF CutAfter, Swapped

LEMMA CoreTyped ==
  ASSUME NEW c \in Cores
  PROVE  /\ c.pending \in Seq(Requests) /\ c.active \in Seq(Actives) /\ c.idle \in Seq(Servers)
         /\ Len(c.pending) \in Nat /\ Len(c.active) \in Nat /\ Len(c.idle) \in Nat
         /\ \A i \in 1..Len(c.active) : c.active[i] \in Actives
         /\ \A i \in 1..Len(c.pending) : c.pending[i] \in Requests
         /\ \A i \in 1..Len(c.idle) : c.idle[i] \in Servers
         /\ c.next_request_id \in Nat
         /\ DOMAIN c.pending = 1..Len(c.pending) /\ DOMAIN c.active = 1..Len(c.active)
         /\ DOMAIN c.idle = 1..Len(c.idle)
<1>1. c.pending \in Seq(Requests) /\ c.active \in Seq(Actives) /\ c.idle \in Seq(Servers) /\ c.next_request_id \in Nat
  BY DEF Cores
<1> QED
  BY <1>1, LenProperties, ElementOfSeq

LEMMA GoneWithout ==
  ASSUME NEW c \in Cores, NEW i \in 1..Len(c.active), NEW active, Len(active) = Len(c.active) - 1,
         \A j \in 1..(Len(c.active) - 1) : active[j] = IF j < i THEN c.active[j] ELSE c.active[j + 1]
  PROVE  /\ Without(Len(c.active), DatasOf(c.active), i, DatasOf(active))
         /\ Without(Len(c.active), PeersOf(c.active), i, PeersOf(active))
         /\ DatasOf(c.active)[i] = c.active[i].data
         /\ PeersOf(c.active)[i] = c.active[i].peer
<1>1. Len(c.active) \in Nat
  BY CoreTyped
<1>2. \A j \in 1..(Len(c.active) - 1) : j \in 1..Len(c.active) /\ j + 1 \in 1..Len(c.active)
  BY <1>1
<1>3. \A j \in 1..(Len(c.active) - 1) : DatasOf(active)[j] = active[j].data /\ PeersOf(active)[j] = active[j].peer
  BY DEF DatasOf, PeersOf
<1>4. \A j \in 1..Len(c.active) : DatasOf(c.active)[j] = c.active[j].data /\ PeersOf(c.active)[j] = c.active[j].peer
  BY DEF DatasOf, PeersOf
<1>5. \A j \in 1..(Len(c.active) - 1) :
         /\ DatasOf(active)[j] = IF j < i THEN DatasOf(c.active)[j] ELSE DatasOf(c.active)[j + 1]
         /\ PeersOf(active)[j] = IF j < i THEN PeersOf(c.active)[j] ELSE PeersOf(c.active)[j + 1]
  BY <1>2, <1>3, <1>4
<1> QED
  BY <1>4, <1>5 DEF Without

(* add_peer *)
LEMMA SoundAddPeer ==
  ASSUME NEW c, NEW S, NEW P, Held(c, S, P), NEW p \in Servers, p \notin P
  PROVE  Held(AddPeer(c, p), S, P \cup {p})
<1> DEFINE idle == Append(c.idle, p)
           r == [c EXCEPT !.idle = idle]
<1>1. c \in Cores
  BY DEF Held
<1>2. /\ idle \in Seq(Servers) /\ Len(idle) = Len(c.idle) + 1 /\ Ended(Len(c.idle), c.idle, p, idle)
  BY <1>1, CoreTyped, AppendProperties DEF Ended
<1> HIDE DEF idle
<1>3. r \in Cores /\ r.pending = c.pending /\ r.active = c.active /\ r.idle = idle
  BY <1>1, <1>2, ZenonT(40) DEF Cores
<1>4. AddPeer(c, p) = r
  BY DEF AddPeer, idle
<1> HIDE DEF r
<1>5. Parted(Len(c.idle) + 1, idle, Len(c.active), PeersOf(c.active), P \cup {p})
  BY <1>2, PartAdd DEF Held
<1> QED
  BY <1>2, <1>3, <1>4, <1>5 DEF Held

(* insert *)
LEMMA SoundInsert ==
  ASSUME NEW c, NEW S, NEW P, Held(c, S, P), NEW d \in Callers, d \notin S
  PROVE  Held(Insert(c, d), S \cup {d}, P)
<1> DEFINE e == [id |-> c.next_request_id, data |-> d]
           pending == Append(c.pending, e)
           r == [c EXCEPT !.pending = pending, !.next_request_id = c.next_request_id + 1]
<1>1. c \in Cores
  BY DEF Held
<1>2. e \in Requests /\ e.data = d
  BY <1>1, CoreTyped DEF Requests
<1> HIDE DEF e
<1>3. /\ pending \in Seq(Requests) /\ Len(pending) = Len(c.pending) + 1 /\ pending[Len(c.pending) + 1] = e
      /\ \A j \in 1..Len(c.pending) : pending[j] = c.pending[j]
  BY <1>1, <1>2, CoreTyped, AppendProperties
<1>4. Insert(c, d) = r
  BY DEF Insert, e
<1> HIDE DEF pending
<1>5. r \in Cores /\ r.pending = pending /\ r.active = c.active /\ r.idle = c.idle
  <2>1. c.next_request_id + 1 \in Nat
    BY <1>1, CoreTyped
  <2> QED
    BY <1>1, <1>3, <2>1, Zenon DEF Cores
<1> HIDE DEF r
<1>6. Ended(Len(c.pending), DatasOf(c.pending), d, DatasOf(pending))
  BY <1>1, <1>2, <1>3, CoreTyped DEF DatasOf, Ended
<1>7. Parted(Len(c.pending) + 1, DatasOf(pending), Len(c.active), DatasOf(c.active), S \cup {d})
  BY <1>6, PartAdd DEF Held
<1> QED
  BY <1>3, <1>4, <1>5, <1>7 DEF Held

(* remove, of the answered request *)
LEMMA SoundRemoveRequest ==
  ASSUME NEW c, NEW S, NEW P, Held(c, S, P), NEW i \in 1..Len(c.active)
  PROVE  Held(RemoveRequest(c, i), S \ {c.active[i].data}, P)
<1> DEFINE active == Removed(c.active, i)
           idle == Append(c.idle, c.active[i].peer)
           r == [c EXCEPT !.active = active, !.idle = idle]
<1>1. c \in Cores
  BY DEF Held
<1>2. c.active[i] \in Actives /\ c.active[i].peer \in Servers
  BY <1>1, CoreTyped DEF Actives
<1>3. /\ active \in Seq(Actives) /\ Len(active) = Len(c.active) - 1
      /\ \A j \in 1..(Len(c.active) - 1) : active[j] = IF j < i THEN c.active[j] ELSE c.active[j + 1]
  BY <1>1, CoreTyped, RemovedOne
<1>4. /\ idle \in Seq(Servers) /\ Len(idle) = Len(c.idle) + 1 /\ Ended(Len(c.idle), c.idle, c.active[i].peer, idle)
  BY <1>1, <1>2, CoreTyped, AppendProperties DEF Ended
<1>5. RemoveRequest(c, i) = r
  BY DEF RemoveRequest
<1> HIDE DEF active, idle
<1>6. r \in Cores /\ r.pending = c.pending /\ r.active = active /\ r.idle = idle
  BY <1>1, <1>3, <1>4 DEF Cores
<1> HIDE DEF r
<1>8. Without(Len(c.active), DatasOf(c.active), i, DatasOf(active)) /\ DatasOf(c.active)[i] = c.active[i].data
  BY <1>1, <1>3, GoneWithout
<1>9. Without(Len(c.active), PeersOf(c.active), i, PeersOf(active)) /\ PeersOf(c.active)[i] = c.active[i].peer
  BY <1>1, <1>3, GoneWithout
<1>10. Parted(Len(c.pending), DatasOf(c.pending), Len(c.active) - 1, DatasOf(active), S \ {c.active[i].data})
  <2>1. Parted(Len(c.pending), DatasOf(c.pending), Len(c.active), DatasOf(c.active), S)
    BY DEF Held
  <2>2. Parted(Len(c.pending), DatasOf(c.pending), Len(c.active) - 1, DatasOf(active), S \ {DatasOf(c.active)[i]})
    BY <1>8, <2>1, PartDrop, Zenon
  <2> QED
    BY <1>8, <2>2
<1>11. Parted(Len(c.idle) + 1, idle, Len(c.active) - 1, PeersOf(active), P)
  <2>1. Parted(Len(c.idle), c.idle, Len(c.active), PeersOf(c.active), P)
    BY DEF Held
  <2>2. Ended(Len(c.idle), c.idle, PeersOf(c.active)[i], idle)
    BY <1>4, <1>9
  <2> QED
    BY <1>9, <2>1, <2>2, PartReturn, Zenon
<1> QED
  BY <1>3, <1>4, <1>5, <1>6, <1>10, <1>11, ZenonT(40) DEF Held

(* remove_peer *)
LEMMA SoundRemovePeer ==
  ASSUME NEW c, NEW S, NEW P, Held(c, S, P), NEW p
  PROVE  Held(RemovePeer(c, p), S, P \ {p})
<1>1. c \in Cores
  BY DEF Held
<1>2. Parted(Len(c.pending), DatasOf(c.pending), Len(c.active), DatasOf(c.active), S)
  BY DEF Held
<1>3. Parted(Len(c.idle), c.idle, Len(c.active), PeersOf(c.active), P)
  BY DEF Held
<1>4. Len(c.active) \in Nat /\ Len(c.pending) \in Nat /\ Len(c.idle) \in Nat
  BY <1>1, CoreTyped
<1>5. CASE Active(c, p) # {}
  <2> DEFINE i == CHOOSE i \in Active(c, p) : TRUE
             active == Removed(c.active, i)
             pending == <<Request(c.active[i])>> \o c.pending
             r == [c EXCEPT !.active = active, !.pending = pending]
  <2>1. RemovePeer(c, p) = r
    BY <1>5 DEF RemovePeer
  <2>2. i \in Active(c, p)
    BY <1>5
  <2> HIDE DEF i
  <2>3. i \in 1..Len(c.active) /\ c.active[i].peer = p
    BY <1>1, <2>2, CoreTyped DEF Active
  <2>4. Request(c.active[i]) \in Requests /\ Request(c.active[i]).data = c.active[i].data
    BY <1>1, <2>3, CoreTyped DEF Request, Requests, Actives
  <2>5. /\ active \in Seq(Actives) /\ Len(active) = Len(c.active) - 1
        /\ \A j \in 1..(Len(c.active) - 1) : active[j] = IF j < i THEN c.active[j] ELSE c.active[j + 1]
    BY <1>1, <2>3, CoreTyped, RemovedOne
  <2>6. /\ pending \in Seq(Requests) /\ Len(pending) = Len(c.pending) + 1
        /\ pending[1] = Request(c.active[i]) /\ \A j \in 1..Len(c.pending) : pending[j + 1] = c.pending[j]
    BY <1>1, <2>4, CoreTyped, PushedOne
  <2> HIDE DEF active, pending
  <2>7. r \in Cores /\ r.pending = pending /\ r.active = active /\ r.idle = c.idle
    BY <1>1, <2>5, <2>6 DEF Cores
  <2> HIDE DEF r
  <2>8. /\ Without(Len(c.active), DatasOf(c.active), i, DatasOf(active)) /\ DatasOf(c.active)[i] = c.active[i].data
        /\ Without(Len(c.active), PeersOf(c.active), i, PeersOf(active)) /\ PeersOf(c.active)[i] = p
    BY <1>1, <2>3, <2>5, GoneWithout
  <2>10. Fronted(Len(c.pending), DatasOf(c.pending), DatasOf(c.active)[i], DatasOf(pending))
    BY <1>4, <2>4, <2>6, <2>8 DEF DatasOf, Fronted
  <2>11. Parted(Len(c.pending) + 1, DatasOf(pending), Len(c.active) - 1, DatasOf(active), S)
    BY <1>2, <2>3, <2>8, <2>10, PartPush, Zenon
  <2>12. Parted(Len(c.idle), c.idle, Len(c.active) - 1, PeersOf(active), P \ {p})
    <3>1. Parted(Len(c.idle), c.idle, Len(c.active) - 1, PeersOf(active), P \ {PeersOf(c.active)[i]})
      BY <1>3, <2>3, <2>8, PartDrop, Zenon
    <3> QED
      BY <2>8, <3>1
  <2> QED
    BY <2>1, <2>5, <2>6, <2>7, <2>11, <2>12 DEF Held
<1>6. CASE Active(c, p) = {} /\ \E i \in DOMAIN c.idle : c.idle[i] = p
  <2> DEFINE Q(i) == c.idle[i] = p /\ \A j \in 1..(i - 1) : c.idle[j] # p
             i == CHOOSE i \in DOMAIN c.idle : Q(i)
             idle == SwapRemoveBack(c.idle, i)
             r == [c EXCEPT !.idle = idle]
  <2>1. RemovePeer(c, p) = r
    BY <1>6 DEF RemovePeer
  <2>2. \E j \in DOMAIN c.idle : Q(j)
    <3>1. PICK k \in 1..Len(c.idle) : c.idle[k] = p
      BY <1>1, <1>6, CoreTyped
    <3>2. \A j \in 1..Len(c.idle) : c.idle[j] = p => j = k
      BY <1>3, <3>1 DEF Parted
    <3>3. Q(k)
      BY <1>4, <3>1, <3>2
    <3> QED
      BY <1>1, <3>1, <3>3, CoreTyped
  <2>3. i \in DOMAIN c.idle /\ Q(i)
    BY <2>2
  <2> HIDE DEF i
  <2>4. i \in 1..Len(c.idle) /\ c.idle[i] = p
    BY <1>1, <2>3, CoreTyped
  <2>9. c.idle \in Seq(Servers)
    BY <1>1, CoreTyped
  <2>5. idle \in Seq(Servers) /\ Len(idle) = Len(c.idle) - 1 /\ Swapped(Len(c.idle), c.idle, i, idle)
    BY <2>4, <2>9, SwappedOne, Zenon
  <2> HIDE DEF idle
  <2>6. r \in Cores /\ r.pending = c.pending /\ r.active = c.active /\ r.idle = idle
    BY <1>1, <2>5 DEF Cores
  <2> HIDE DEF r
  <2>7. Parted(Len(c.idle) - 1, idle, Len(c.active), PeersOf(c.active), P \ {p})
    <3>1. Parted(Len(c.idle) - 1, idle, Len(c.active), PeersOf(c.active), P \ {c.idle[i]})
      BY <1>3, <2>4, <2>5, PartSwap, Zenon
    <3> QED
      BY <2>4, <3>1
  <2> QED
    BY <1>2, <2>1, <2>5, <2>6, <2>7 DEF Held
<1>7. CASE Active(c, p) = {} /\ ~ \E i \in DOMAIN c.idle : c.idle[i] = p
  <2>1. RemovePeer(c, p) = c
    BY <1>7 DEF RemovePeer
  <2>2. \A i \in 1..Len(c.idle) : c.idle[i] # p
    BY <1>1, <1>7, CoreTyped
  <2>3. \A i \in 1..Len(c.active) : PeersOf(c.active)[i] # p
    BY <1>1, <1>7, CoreTyped DEF Active, PeersOf
  <2>4. p \notin P
    BY <1>3, <2>2, <2>3 DEF Parted
  <2>5. P \ {p} = P
    BY <2>4
  <2> QED
    BY <2>1, <2>5
<1> QED
  BY <1>5, <1>6, <1>7

(* maintain_peers *)
LEMMA SoundTimedOut ==
  ASSUME NEW c, NEW S, NEW P, Held(c, S, P), NEW k \in 0..Len(c.active)
  PROVE  Held(TimedOut(c, k), S, P \ {c.active[i].peer : i \in 1..k})
<1> DEFINE late == [i \in 1..k |-> Request(c.active[k + 1 - i])]
           active == SubSeq(c.active, k + 1, Len(c.active))
           pending == late \o c.pending
           r == [c EXCEPT !.active = active, !.pending = pending]
           n == Len(c.active) - k
<1>1. c \in Cores
  BY DEF Held
<1>2. Parted(Len(c.pending), DatasOf(c.pending), Len(c.active), DatasOf(c.active), S)
  BY DEF Held
<1>3. Parted(Len(c.idle), c.idle, Len(c.active), PeersOf(c.active), P)
  BY DEF Held
<1>4. /\ Len(c.active) \in Nat /\ Len(c.pending) \in Nat /\ Len(c.idle) \in Nat
      /\ k \in Nat /\ n \in Nat /\ k + n = Len(c.active)
  BY <1>1, CoreTyped
<1>5. \A i \in 1..k : /\ k + 1 - i \in 1..Len(c.active)
                     /\ Request(c.active[k + 1 - i]) \in Requests
                     /\ Request(c.active[k + 1 - i]).data = c.active[k + 1 - i].data
  <2> SUFFICES ASSUME NEW i \in 1..k
               PROVE  /\ k + 1 - i \in 1..Len(c.active)
                      /\ Request(c.active[k + 1 - i]) \in Requests
                      /\ Request(c.active[k + 1 - i]).data = c.active[k + 1 - i].data
    OBVIOUS
  <2>1. k + 1 - i \in 1..Len(c.active)
    BY <1>4
  <2>2. c.active[k + 1 - i] \in Actives
    BY <1>1, <2>1, CoreTyped
  <2> QED
    BY <2>1, <2>2 DEF Request, Requests, Actives
<1>6. late \in Seq(Requests) /\ Len(late) = k
  <2>1. late \in [1..k -> Requests]
    BY <1>5
  <2> QED
    BY <1>4, <2>1
<1>7. \A j \in 1..k : late[j] = Request(c.active[k + 1 - j])
  OBVIOUS
<1> HIDE DEF late
<1>8. /\ pending \in Seq(Requests) /\ Len(pending) = k + Len(c.pending)
      /\ \A i \in 1..(k + Len(c.pending)) : pending[i] = IF i <= k THEN late[i] ELSE c.pending[i - k]
  BY <1>1, <1>6, CoreTyped, ConcatProperties
<1>9. CutAfter(c.active, k, n, Actives)
  BY <1>1, <1>4, CoreTyped, Segment
<1>10. active \in Seq(Actives) /\ Len(active) = n /\ \A j \in 1..n : active[j] = c.active[k + j]
  BY <1>4, <1>9 DEF CutAfter
<1>11. TimedOut(c, k) = r
  BY DEF TimedOut, late
<1> HIDE DEF active, pending
<1>12. r \in Cores /\ r.pending = pending /\ r.active = active /\ r.idle = c.idle
  BY <1>1, <1>8, <1>10 DEF Cores
<1> HIDE DEF r
<1>13. /\ Behind(Len(c.active), DatasOf(c.active), k, DatasOf(active))
       /\ Behind(Len(c.active), PeersOf(c.active), k, PeersOf(active))
  <2>1. \A j \in 1..n : k + j \in 1..Len(c.active)
    BY <1>4
  <2>2. \A j \in 1..n : active[j].data = c.active[k + j].data /\ active[j].peer = c.active[k + j].peer
    BY <1>10
  <2>3. \A j \in 1..n : /\ DatasOf(active)[j] = DatasOf(c.active)[k + j]
                       /\ PeersOf(active)[j] = PeersOf(c.active)[k + j]
    BY <1>10, <2>1, <2>2 DEF DatasOf, PeersOf
  <2> QED
    BY <2>3 DEF Behind
<1>14. \A j \in 1..k : DatasOf(pending)[j] = DatasOf(c.active)[k + 1 - j]
  <2> SUFFICES ASSUME NEW j \in 1..k PROVE DatasOf(pending)[j] = DatasOf(c.active)[k + 1 - j]
    OBVIOUS
  <2>1. j \in 1..(k + Len(c.pending)) /\ j <= k
    BY <1>4
  <2>2. pending[j] = Request(c.active[k + 1 - j])
    BY <1>7, <1>8, <2>1
  <2> QED
    BY <1>5, <1>8, <2>1, <2>2 DEF DatasOf
<1>15. \A j \in 1..Len(c.pending) : DatasOf(pending)[k + j] = DatasOf(c.pending)[j]
  <2> SUFFICES ASSUME NEW j \in 1..Len(c.pending) PROVE DatasOf(pending)[k + j] = DatasOf(c.pending)[j]
    OBVIOUS
  <2>1. k + j \in 1..(k + Len(c.pending)) /\ ~(k + j <= k) /\ (k + j) - k = j
    BY <1>4
  <2>2. pending[k + j] = c.pending[j]
    BY <1>8, <2>1
  <2> QED
    BY <1>8, <2>1, <2>2 DEF DatasOf
<1>20. Turned(Len(c.pending), DatasOf(c.pending), DatasOf(c.active), k, DatasOf(pending))
  BY <1>14, <1>15 DEF Turned
<1>16. Parted(Len(c.pending) + k, DatasOf(pending), Len(c.active) - k, DatasOf(active), S)
  BY <1>2, <1>13, <1>20, PartTake, Zenon
<1>17. Parted(Len(c.idle), c.idle, Len(c.active) - k, PeersOf(active), P \ Firsts(PeersOf(c.active), k))
  BY <1>3, <1>13, PartCut, Zenon
<1>18. Firsts(PeersOf(c.active), k) = {c.active[i].peer : i \in 1..k}
  <2>1. \A i \in 1..k : PeersOf(c.active)[i] = c.active[i].peer
    BY <1>4 DEF PeersOf
  <2> QED
    BY <2>1 DEF Firsts
<1>19. Len(pending) = Len(c.pending) + k
  BY <1>4, <1>8
<1> QED
  BY <1>10, <1>11, <1>12, <1>16, <1>17, <1>18, <1>19 DEF Held

(* dispatch *)
LEMMA SoundDispatch ==
  ASSUME NEW c, NEW S, NEW P, Held(c, S, P), NEW w, Dispatch(c, w)
  PROVE  Held(core', S, P)
<1> DEFINE k == IF Len(c.pending) < Len(c.idle) THEN Len(c.pending) ELSE Len(c.idle)
           new == Dispatched(c)
           pending == SubSeq(c.pending, Len(new) + 1, Len(c.pending))
           idle == SubSeq(c.idle, Len(new) + 1, Len(c.idle))
           active == c.active \o new
           r == [c EXCEPT !.pending = pending, !.idle = idle, !.active = active]
<1>1. c \in Cores
  BY DEF Held
<1>2. Parted(Len(c.pending), DatasOf(c.pending), Len(c.active), DatasOf(c.active), S)
  BY DEF Held
<1>3. Parted(Len(c.idle), c.idle, Len(c.active), PeersOf(c.active), P)
  BY DEF Held
<1>4. Len(c.active) \in Nat /\ Len(c.pending) \in Nat /\ Len(c.idle) \in Nat
  BY <1>1, CoreTyped
<1>5. k \in 0..Len(c.pending) /\ k \in 0..Len(c.idle) /\ k \in Nat
  BY <1>4
<1>6. new = [i \in 1..k |-> [peer |-> c.idle[i], id |-> c.pending[i].id, data |-> c.pending[i].data]]
  BY DEF Dispatched
<1> HIDE DEF k
<1>7. \A i \in 1..k : [peer |-> c.idle[i], id |-> c.pending[i].id, data |-> c.pending[i].data] \in Actives
  <2> SUFFICES ASSUME NEW i \in 1..k
               PROVE  [peer |-> c.idle[i], id |-> c.pending[i].id, data |-> c.pending[i].data] \in Actives
    OBVIOUS
  <2>1. i \in 1..Len(c.pending) /\ i \in 1..Len(c.idle)
    BY <1>4, <1>5
  <2>2. c.idle[i] \in Servers /\ c.pending[i] \in Requests
    BY <1>1, <2>1, CoreTyped
  <2> QED
    BY <2>2 DEF Requests, Actives
<1>8. new \in Seq(Actives) /\ Len(new) = k
  <2>1. new \in [1..k -> Actives]
    BY <1>6, <1>7
  <2> QED
    BY <1>5, <2>1
<1>9. \A i \in 1..k : new[i].peer = c.idle[i] /\ new[i].data = c.pending[i].data
  BY <1>6
<1>10. core' = r
  BY DEF Dispatch
<1> HIDE DEF new
<1>11. /\ active \in Seq(Actives) /\ Len(active) = Len(c.active) + k
       /\ \A i \in 1..(Len(c.active) + k) :
            active[i] = IF i <= Len(c.active) THEN c.active[i] ELSE new[i - Len(c.active)]
  BY <1>1, <1>8, CoreTyped, ConcatProperties, ZenonT(40)
<1>12. /\ pending \in Seq(Requests) /\ Len(pending) = Len(c.pending) - k
       /\ \A j \in 1..(Len(c.pending) - k) : pending[j] = c.pending[k + j]
  <2>1. Len(c.pending) - k \in Nat /\ k + (Len(c.pending) - k) = Len(c.pending)
    BY <1>4, <1>5
  <2>2. CutAfter(c.pending, k, Len(c.pending) - k, Requests)
    BY <1>1, <1>4, <1>5, <2>1, CoreTyped, Segment
  <2> QED
    BY <1>8, <2>1, <2>2 DEF CutAfter
<1>13. /\ idle \in Seq(Servers) /\ Len(idle) = Len(c.idle) - k
       /\ Behind(Len(c.idle), c.idle, k, idle)
  <2>1. Len(c.idle) - k \in Nat /\ k + (Len(c.idle) - k) = Len(c.idle)
    BY <1>4, <1>5
  <2>2. CutAfter(c.idle, k, Len(c.idle) - k, Servers)
    BY <1>1, <1>4, <1>5, <2>1, CoreTyped, Segment
  <2> QED
    BY <1>8, <2>1, <2>2 DEF CutAfter, Behind
<1> HIDE DEF active, pending, idle
<1>14. r \in Cores /\ r.pending = pending /\ r.active = active /\ r.idle = idle
  BY <1>1, <1>11, <1>12, <1>13 DEF Cores
<1> HIDE DEF r
<1>15. \A j \in 1..Len(c.active) : /\ DatasOf(active)[j] = DatasOf(c.active)[j]
                                  /\ PeersOf(active)[j] = PeersOf(c.active)[j]
  <2>1. \A j \in 1..Len(c.active) : j \in 1..(Len(c.active) + k) /\ j <= Len(c.active)
    BY <1>4, <1>5
  <2> QED
    BY <1>11, <2>1 DEF DatasOf, PeersOf
<1>16. \A j \in 1..k : /\ DatasOf(active)[Len(c.active) + j] = DatasOf(c.pending)[j]
                      /\ PeersOf(active)[Len(c.active) + j] = c.idle[j]
  <2> SUFFICES ASSUME NEW j \in 1..k
               PROVE  /\ DatasOf(active)[Len(c.active) + j] = DatasOf(c.pending)[j]
                      /\ PeersOf(active)[Len(c.active) + j] = c.idle[j]
    OBVIOUS
  <2>1. /\ Len(c.active) + j \in 1..(Len(c.active) + k) /\ ~(Len(c.active) + j <= Len(c.active))
        /\ (Len(c.active) + j) - Len(c.active) = j /\ j \in 1..Len(c.pending)
    BY <1>4, <1>5
  <2>2. active[Len(c.active) + j] = new[j]
    BY <1>11, <2>1
  <2> QED
    BY <1>9, <1>11, <2>1, <2>2 DEF DatasOf, PeersOf
<1>17. \A j \in 1..(Len(c.pending) - k) : DatasOf(pending)[j] = DatasOf(c.pending)[k + j]
  <2>1. \A j \in 1..(Len(c.pending) - k) : k + j \in 1..Len(c.pending)
    BY <1>4, <1>5
  <2> QED
    BY <1>12, <2>1 DEF DatasOf
<1>20. Behind(Len(c.pending), DatasOf(c.pending), k, DatasOf(pending))
  BY <1>17 DEF Behind
<1>21. /\ Joined(Len(c.active), DatasOf(c.active), DatasOf(c.pending), k, DatasOf(active))
       /\ Joined(Len(c.active), PeersOf(c.active), c.idle, k, PeersOf(active))
  BY <1>15, <1>16 DEF Joined
<1>18. Parted(Len(c.pending) - k, DatasOf(pending), Len(c.active) + k, DatasOf(active), S)
  BY <1>2, <1>5, <1>20, <1>21, PartGive, Zenon
<1>19. Parted(Len(c.idle) - k, idle, Len(c.active) + k, PeersOf(active), P)
  BY <1>3, <1>5, <1>13, <1>21, PartGive, Zenon
<1> QED
  BY <1>10, <1>11, <1>12, <1>13, <1>14, <1>18, <1>19 DEF Held

-----------------------------------------------------------------------------
Open == {r \in called : answered[r] = 0}
Up == {p \in Servers : link[p] = "up"}

CallsInv ==
  /\ called \subseteq Callers
  /\ answered \in [Callers -> {0, 1}]
  /\ \A r \in Callers \ called : answered[r] = 0
  /\ link \in [Servers -> {"down", "up", "closing"}]
  /\ Held(core, Open, Up)

LEMMA Counted ==
  ASSUME NEW n, NEW a, NEW m, NEW b, NEW S, Parted(n, a, m, b, S), NEW x
  PROVE  Cardinality({i \in 1..n : a[i] = x}) + Cardinality({i \in 1..m : b[i] = x}) = IF x \in S THEN 1 ELSE 0
<1> DEFINE A == {i \in 1..n : a[i] = x}
           B == {i \in 1..m : b[i] = x}
<1>1. CASE x \notin S
  <2>1. A = {} /\ B = {}
    BY <1>1 DEF Parted
  <2> QED
    <3>1. Cardinality({}) = 0
      BY FS_EmptySet
    <3> HIDE DEF A, B
    <3>2. Cardinality(A) + Cardinality(B) = IF x \in S THEN 1 ELSE 0
      BY <1>1, <2>1, <3>1
    <3> QED
      BY <3>2 DEF A, B
<1>2. CASE x \in S
  <2>1. CASE \E i \in 1..n : a[i] = x
    <3>1. PICK i \in 1..n : a[i] = x
      BY <2>1
    <3>2. A = {i} /\ B = {}
      BY <3>1 DEF Parted
    <3>3. Cardinality({}) = 0 /\ Cardinality({i}) = 1
      BY FS_EmptySet, FS_Singleton, Zenon
    <3> HIDE DEF A, B
    <3>4. Cardinality(A) + Cardinality(B) = IF x \in S THEN 1 ELSE 0
      BY <1>2, <3>2, <3>3
    <3> QED
      BY <3>4 DEF A, B
  <2>2. CASE \E i \in 1..m : b[i] = x
    <3>1. PICK i \in 1..m : b[i] = x
      BY <2>2
    <3>2. B = {i} /\ A = {}
      BY <3>1 DEF Parted
    <3>3. Cardinality({}) = 0 /\ Cardinality({i}) = 1
      BY FS_EmptySet, FS_Singleton
    <3> HIDE DEF A, B
    <3>4. Cardinality(A) + Cardinality(B) = IF x \in S THEN 1 ELSE 0
      BY <1>2, <3>2, <3>3
    <3> QED
      BY <3>4 DEF A, B
  <2> QED
    BY <1>2, <2>1, <2>2 DEF Parted
<1> QED
  BY <1>1, <1>2

LEMMA KeptFollows == CallsInv => CallsKept
<1> SUFFICES ASSUME CallsInv PROVE CallsKept
  OBVIOUS
<1>1. core \in Cores /\ Held(core, Open, Up)
  BY DEF CallsInv, Held
<1>2. /\ DOMAIN core.pending = 1..Len(core.pending) /\ DOMAIN core.active = 1..Len(core.active)
      /\ DOMAIN core.idle = 1..Len(core.idle)
  BY <1>1, CoreTyped
<1>3. ASSUME NEW r \in called
      PROVE  Cardinality({i \in DOMAIN core.pending : core.pending[i].data = r})
               + Cardinality({i \in DOMAIN core.active : core.active[i].data = r}) + answered[r] = 1
  <2> DEFINE A == {i \in DOMAIN core.pending : core.pending[i].data = r}
             B == {i \in DOMAIN core.active : core.active[i].data = r}
  <2>1. Parted(Len(core.pending), DatasOf(core.pending), Len(core.active), DatasOf(core.active), Open)
    BY <1>1 DEF Held
  <2>2. A = {i \in 1..Len(core.pending) : DatasOf(core.pending)[i] = r}
    BY <1>2 DEF DatasOf
  <2>3. B = {i \in 1..Len(core.active) : DatasOf(core.active)[i] = r}
    BY <1>2 DEF DatasOf
  <2> HIDE DEF A, B
  <2>4. Cardinality(A) + Cardinality(B) = IF r \in Open THEN 1 ELSE 0
    BY <2>1, <2>2, <2>3, Counted
  <2>5. answered[r] \in {0, 1} /\ (r \in Open <=> answered[r] = 0)
    BY DEF CallsInv, Open
  <2>6. Cardinality(A) + Cardinality(B) + answered[r] = 1
    BY <2>4, <2>5
  <2> QED
    BY <2>6 DEF A, B
<1>4. ASSUME NEW p \in Servers
      PROVE  Cardinality({i \in DOMAIN core.idle : core.idle[i] = p})
               + Cardinality({i \in DOMAIN core.active : core.active[i].peer = p})
                 = IF link[p] = "up" THEN 1 ELSE 0
  <2> DEFINE B == {i \in DOMAIN core.active : core.active[i].peer = p}
  <2>1. Parted(Len(core.idle), core.idle, Len(core.active), PeersOf(core.active), Up)
    BY <1>1 DEF Held
  <2>2. B = {i \in 1..Len(core.active) : PeersOf(core.active)[i] = p}
    BY <1>2 DEF PeersOf
  <2> HIDE DEF B
  <2>3. Cardinality({i \in 1..Len(core.idle) : core.idle[i] = p}) + Cardinality(B) = IF p \in Up THEN 1 ELSE 0
    BY <2>1, <2>2, Counted
  <2>4. p \in Up <=> link[p] = "up"
    BY DEF Up
  <2> QED
    BY <1>2, <2>3, <2>4 DEF B
<1> QED
  BY <1>3, <1>4, ZenonT(40) DEF CallsKept

LEMMA CallsBegin == CallsInit => CallsInv
<1> SUFFICES ASSUME CallsInit PROVE CallsInv
  OBVIOUS
<1>1. /\ core = [next_request_id |-> 0, pending |-> <<>>, active |-> <<>>, idle |-> <<>>]
      /\ Open = {} /\ Up = {} /\ called = {} /\ answered = [r \in Callers |-> 0]
      /\ link = [p \in Servers |-> "down"]
  BY DEF CallsInit, Open, Up
<1>2. <<>> \in Seq(Requests) /\ <<>> \in Seq(Actives) /\ <<>> \in Seq(Servers) /\ Len(<<>>) = 0
  OBVIOUS
<1>3. core \in Cores /\ Len(core.pending) = 0 /\ Len(core.active) = 0 /\ Len(core.idle) = 0
  BY <1>1, <1>2 DEF Cores
<1>4. \A a, b : Parted(0, a, 0, b, {})
  BY DEF Parted
<1>5. Held(core, {}, {})
  BY <1>3, <1>4 DEF Held
<1> QED
  BY <1>1, <1>5 DEF CallsInv

LEMMA RemoteCallKeeps ==
  ASSUME CallsInv, NEW r \in Callers, RemoteCall(r)
  PROVE  CallsInv'
<1>1. r \notin Open
  BY DEF RemoteCall, Open
<1>2. Held(Insert(core, r), Open \cup {r}, Up)
  BY <1>1, SoundInsert DEF CallsInv
<1>3. Held(core', Open \cup {r}, Up)
  BY <1>2, SoundDispatch DEF RemoteCall
<1>4. Open' = Open \cup {r} /\ Up' = Up
  BY DEF RemoteCall, Open, Up, CallsInv
<1> QED
  BY <1>3, <1>4 DEF CallsInv, RemoteCall

LEMMA OnConnectKeeps ==
  ASSUME CallsInv, NEW p \in Servers, OnConnect(p)
  PROVE  CallsInv'
<1>1. p \notin Up
  BY DEF OnConnect, Up
<1>2. Held(AddPeer(core, p), Open, Up \cup {p})
  BY <1>1, SoundAddPeer DEF CallsInv
<1>3. Held(core', Open, Up \cup {p})
  BY <1>2, SoundDispatch DEF OnConnect
<1>4. Open' = Open /\ Up' = Up \cup {p}
  BY DEF OnConnect, Open, Up, CallsInv
<1> QED
  BY <1>3, <1>4 DEF CallsInv, OnConnect

LEMMA OnDisconnectKeeps ==
  ASSUME CallsInv, NEW p \in Servers, OnDisconnect(p)
  PROVE  CallsInv'
<1>1. Held(RemovePeer(core, p), Open, Up \ {p})
  BY SoundRemovePeer DEF CallsInv
<1>2. Held(core', Open, Up \ {p})
  BY <1>1, SoundDispatch DEF OnDisconnect
<1>3. Open' = Open /\ Up' = Up \ {p}
  BY DEF OnDisconnect, Open, Up, CallsInv
<1> QED
  BY <1>2, <1>3 DEF CallsInv, OnDisconnect

LEMMA MaintainPeersKeeps ==
  ASSUME CallsInv, NEW k, MaintainPeers(k)
  PROVE  CallsInv'
<1> DEFINE late == {core.active[i].peer : i \in 1..k}
<1>1. /\ k \in 0..Len(core.active)
      /\ link' = [p \in Servers |-> IF p \in late THEN "closing" ELSE link[p]]
      /\ Dispatch(TimedOut(core, k), lines)
      /\ UNCHANGED <<answered, called>>
  BY DEF MaintainPeers
<1>2. Held(TimedOut(core, k), Open, Up \ late)
  BY <1>1, SoundTimedOut DEF CallsInv
<1> HIDE DEF late
<1>3. Held(core', Open, Up \ late)
  BY <1>1, <1>2, SoundDispatch
<1>4. Open' = Open /\ Up' = Up \ late
  BY <1>1 DEF Open, Up, CallsInv
<1> QED
  BY <1>1, <1>3, <1>4 DEF CallsInv

LEMMA OnResponseKeeps ==
  ASSUME CallsInv, NEW p \in Servers, NEW id, OnRemoteCallResponse(p, id)
  PROVE  CallsInv'
<1> DEFINE mine == {i \in Active(core, p) : core.active[i].id = id}
           w == [lines EXCEPT ![p] = @ \ {id}]
           closed == [link EXCEPT ![p] = "closing"]
<1>1. core \in Cores /\ Held(core, Open, Up)
  BY DEF CallsInv, Held
<1>2. \A i \in mine : i \in 1..Len(core.active) /\ core.active[i].peer = p /\ core.active[i] \in Actives
  BY <1>1, CoreTyped DEF Active
<1>3. \A i \in mine : core.active[i].data \in Open
  <2> SUFFICES ASSUME NEW i \in mine PROVE core.active[i].data \in Open
    OBVIOUS
  <2>1. DatasOf(core.active)[i] \in Open
    BY <1>1, <1>2, ZenonT(40) DEF Held, Parted
  <2> QED
    BY <1>2, <2>1 DEF DatasOf
<1>4. called' = called
  BY DEF OnRemoteCallResponse
<1>5. CASE link' = closed /\ core' = RemovePeer(core, p) /\ UNCHANGED answered
  <2>1. Held(core', Open, Up \ {p})
    BY <1>1, <1>5, SoundRemovePeer
  <2>2. Open' = Open /\ Up' = Up \ {p}
    BY <1>4, <1>5 DEF Open, Up, CallsInv
  <2> QED
    BY <1>4, <1>5, <2>1, <2>2 DEF CallsInv
<1>6. ASSUME NEW i \in mine, answered' = [answered EXCEPT ![core.active[i].data] = @ + 1],
             Dispatch(RemoveRequest(core, i), w), UNCHANGED link
      PROVE  CallsInv'
  <2> DEFINE d == core.active[i].data
  <2>1. Held(RemoveRequest(core, i), Open \ {d}, Up)
    BY <1>1, <1>2, SoundRemoveRequest
  <2>2. d \in Open
    BY <1>3
  <2> HIDE DEF d
  <2>3. Held(core', Open \ {d}, Up)
    BY <1>6, <2>1, SoundDispatch
  <2>4. answered' = [answered EXCEPT ![d] = @ + 1]
    BY <1>6 DEF d
  <2>7. d \in called /\ d \in Callers /\ answered[d] = 0
    BY <2>2 DEF Open, CallsInv
  <2>5. d \in called /\ d \in Callers /\ answered' = [answered EXCEPT ![d] = 1]
    BY <2>4, <2>7
  <2>6. Open' = Open \ {d} /\ Up' = Up
    BY <1>4, <1>6, <2>5 DEF Open, Up, CallsInv
  <2> QED
    BY <1>4, <1>6, <2>3, <2>5, <2>6 DEF CallsInv
<1>7. ASSUME NEW i \in mine, link' = closed,
             Dispatch(Insert(RemovePeer(RemoveRequest(core, i), p), core.active[i].data), w), UNCHANGED answered
      PROVE  CallsInv'
  <2> DEFINE d == core.active[i].data
             one == RemoveRequest(core, i)
             two == RemovePeer(one, p)
  <2>1. Held(one, Open \ {d}, Up)
    BY <1>1, <1>2, SoundRemoveRequest
  <2>2. d \in Open /\ d \in Callers
    BY <1>2, <1>3 DEF Actives
  <2>3. Dispatch(Insert(two, d), w)
    BY <1>7
  <2> HIDE DEF d, one
  <2>4. Held(two, Open \ {d}, Up \ {p})
    BY <2>1, SoundRemovePeer
  <2> HIDE DEF two
  <2>5. Held(Insert(two, d), (Open \ {d}) \cup {d}, Up \ {p})
    BY <2>2, <2>4, SoundInsert
  <2>6. (Open \ {d}) \cup {d} = Open
    BY <2>2
  <2>7. Held(core', Open, Up \ {p})
    BY <2>3, <2>5, <2>6, SoundDispatch
  <2>8. Open' = Open /\ Up' = Up \ {p}
    BY <1>4, <1>7 DEF Open, Up, CallsInv
  <2> QED
    BY <1>4, <1>7, <2>7, <2>8 DEF CallsInv
<1> QED
  BY <1>5, <1>6, <1>7, Zenon DEF OnRemoteCallResponse

(* Every call waits in exactly one place or has been answered exactly      *)
(* once, and every connected peer is idle or has exactly one request, for  *)
(* any servers, honest, false or silent, any callers and any number of     *)
(* mishaps (OnDemandCore).                                                 *)
THEOREM CallsKeptHolds == CallsSpec => []CallsKept
<1>1. CallsInv /\ [CallsNext]_calls => CallsInv'
  <2> SUFFICES ASSUME CallsInv, [CallsNext]_calls PROVE CallsInv'
    OBVIOUS
  <2>1. CASE UNCHANGED calls
    BY <2>1 DEF CallsInv, calls, Open, Up
  <2>2. CASE CallsNext
    BY <2>2, RemoteCallKeeps, OnConnectKeeps, OnDisconnectKeeps, MaintainPeersKeeps, OnResponseKeeps
       DEF CallsNext
  <2> QED
    BY <2>1, <2>2
<1> QED
  BY <1>1, CallsBegin, KeptFollows, PTL DEF CallsSpec
=============================================================================
