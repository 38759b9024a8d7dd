----------------------------- MODULE Contracts ------------------------------
(***************************************************************************)
(* Transfers, and the contracts they run (substrate/runtime/staking/src:   *)
(* lib.rs, account_db.rs; substrate/runtime/contract/src/lib.rs).          *)
(*                                                                         *)
(* A transfer to an account with code runs the code on an overlay over the *)
(* storage.  The code may transfer and create in turn, each time on one    *)
(* more overlay, which is merged into the one below if all went well.      *)
(*                                                                         *)
(* A contract is the memory it asks for and the list of its calls to the   *)
(* environment, the gas it is charged before each included.                *)
(***************************************************************************)
EXTENDS Balances, SequencesExt

CONSTANTS Code, Contract(_),       \* the contract that some code is
          Address(_, _),           \* DetermineContractAddress
          ContractFee, CreationFee, TransferFee,
          GasLimit, MaxMemoryPages,
          BlockNumber,
          Zero,                    \* the value of 32 zero bytes
          NoChange,                \* None, in an entry of an overlay
          Order,                   \* the accounts in the order of their ids
          Genesis, Balance,        \* the accounts at genesis and their balances
          Amounts,                 \* the values of transfers, reserves, slashes
          MaxSteps                 \* bound: the calls from genesis on

VARIABLES acct,                    \* the storage of the module
          drained,                 \* history: the accounts that fees left with nothing
          steps

(* ChangeEntry::default, and an overlay that changes nothing. *)
NoEntry == [balance |-> NoChange, code |-> NoChange, storage |-> [k \in Keys |-> NoChange]]
EmptyOverlay == [a \in Accounts |-> NoEntry]

(* What the topmost of the overlays with a change says, or the storage. *)
Resolve(changes, base) ==
  LET changed == {i \in DOMAIN changes : changes[i] # NoChange}
  IN  IF changed = {} THEN base ELSE changes[CHOOSE i \in changed : \A j \in changed : j <= i]

GetBalance(s, layers, a) == Resolve([i \in DOMAIN layers |-> layers[i][a].balance], s.free[a])
GetCode(s, layers, a) == Resolve([i \in DOMAIN layers |-> layers[i][a].code], s.code[a])
GetStorage(s, layers, a, k) ==
  Resolve([i \in DOMAIN layers |-> layers[i][a].storage[k]], s.storage[a][k])

SetTop(layers, top) == [layers EXCEPT ![Len(layers)] = top]
SetBalance(top, a, balance) == [top EXCEPT ![a].balance = balance]
SetStorage(top, a, k, value) == [top EXCEPT ![a].storage[k] = value]

Newer(new, old) == IF new = NoChange THEN old ELSE new

(* Mutant: an entry that is already there is replaced as a whole. *)
MergeReplaces(top, commit) ==
  [a \in Accounts |-> IF commit[a] = NoEntry THEN top[a] ELSE commit[a]]

(* OverlayAccountDb::merge *)
Merge(top, commit) ==
  [a \in Accounts |->
     [balance |-> Newer(commit[a].balance, top[a].balance),
      code |-> Newer(commit[a].code, top[a].code),
      storage |-> [k \in Keys |-> Newer(commit[a].storage[k], top[a].storage[k])]]]

(* DirectAccountDb::merge, for one account: a reaped one keeps nothing. *)
MergeAccount(s, a, entry) ==
  LET s1 == IF entry.balance = NoChange THEN s ELSE MergeBalance(s, a, entry.balance)
  IN  IF entry.balance # NoChange /\ entry.balance < ExistentialDeposit THEN s1
      ELSE [s1 EXCEPT !.code[a] = Newer(entry.code, @),
                      !.storage[a] = [k \in Keys |-> Newer(entry.storage[k], @[k])]]

(* DirectAccountDb::merge, in the order of the accounts. *)
DirectMerge(s, order, commit) ==
  FoldLeft(LAMBDA acc, a : MergeAccount(acc, a, commit[a]), s, order)

-----------------------------------------------------------------------------
(* effect_create: the overlay to commit, as a set of at most one. *)
EffectCreate(s, layers, who, code, value) ==
  LET from == GetBalance(s, layers, who)
      liability == Plus(value, ContractFee)
      dest == Address(code, who)
  IN  IF /\ from >= liability /\ value >= ExistentialDeposit
         /\ s.bondage[who] <= BlockNumber /\ dest # who
      THEN {[EmptyOverlay EXCEPT
               ![dest] = [NoEntry EXCEPT !.balance = value, !.code = code],
               ![who] = [NoEntry EXCEPT !.balance = from - liability]]}
      ELSE {}

(* ContractModule: code that does not parse or that has a memory of its    *)
(* own is refused before gas and stack metering are put in.                *)
Instrumented(c) == ~c.declares_memory /\ c.valid

(* prepare_contract: the contract imports memory with a maximum, if any. *)
Prepared(c) ==
  /\ Instrumented(c)
  /\ \A m \in c.memory : m.initial <= m.maximum /\ m.maximum <= MaxMemoryPages

(* Runtime::charge_gas: whether the contract may go on. *)
ChargeGas(used, amount) == used + amount <= GasLimit

(* The conditions and the balances of effect_transfer. *)
CanTransfer(s, from, to, who, value) ==
  LET fee == IF from = 0 THEN CreationFee ELSE TransferFee
  IN  /\ from >= Plus(value, fee)
      /\ from = 0 => value >= ExistentialDeposit
      /\ s.bondage[who] <= BlockNumber
      /\ Plus(to, value) > to

AfterTransfer(from, value) ==
  Minus(from, Plus(value, IF from = 0 THEN CreationFee ELSE TransferFee))

(* StakingExt: what a contract's own transfer or creation leaves behind;   *)
(* one that fails does nothing.                                            *)
ExtCommit(top, effects) == IF effects = {} THEN top ELSE Merge(top, CHOOSE e \in effects : TRUE)

RECURSIVE EffectTransfer(_, _, _, _, _), Run(_, _, _, _, _)

(* contract::execute from one call on: whether it returned, and the overlay. *)
Run(s, layers, account, body, used) ==
  LET top == Last(layers)
      step == Head(body)
      Go(new) == Run(s, SetTop(layers, new), account, Tail(body), used + step.gas)
      Read == LET v == GetStorage(s, layers, account, step.from) IN IF v = Empty THEN Zero ELSE v
  IN  IF body = <<>> THEN [ok |-> TRUE, top |-> top]
      ELSE IF ~ChargeGas(used, step.gas) \/ step.op = "trap" THEN [ok |-> FALSE, top |-> top]
      ELSE CASE step.op = "set" -> Go(SetStorage(top, account, step.key, step.value))
             [] step.op = "copy" -> Go(SetStorage(top, account, step.key, Read))
             [] step.op = "transfer" ->
                  Go(ExtCommit(top, EffectTransfer(s, layers, account, step.to, step.value)))
             [] step.op = "create" ->
                  Go(ExtCommit(top, EffectCreate(s, layers, account, step.code, step.value)))

(* effect_transfer: the overlay to commit, as a set of at most one. *)
EffectTransfer(s, layers, who, dest, value) ==
  LET from == GetBalance(s, layers, who)
      to == GetBalance(s, layers, dest)
      moved == SetBalance(SetBalance(EmptyOverlay, who, AfterTransfer(from, value)),
                          dest, Plus(to, value))
      overlay == IF who = dest THEN EmptyOverlay ELSE moved
      code == GetCode(s, Append(layers, overlay), dest)
      run == IF ~Prepared(Contract(code)) THEN [ok |-> FALSE, top |-> overlay]
             ELSE Run(s, Append(layers, overlay), dest, Contract(code).body, 0)
  IN  IF ~CanTransfer(s, from, to, who, value) THEN {}
      ELSE IF code = Empty THEN {overlay}
      ELSE IF run.ok THEN {run.top} ELSE {}

-----------------------------------------------------------------------------
(* The same with one copy of the accounts that each call works on and gives *)
(* back changed, or as it was: what the overlays are there to achieve.     *)

RECURSIVE PlainTransfer(_, _, _, _, _), PlainRun(_, _, _, _, _)

PlainRun(s, f, account, body, used) ==
  LET step == Head(body)
      Go(g) == PlainRun(s, g, account, Tail(body), used + step.gas)
      value == IF f.storage[account][step.from] = Empty THEN Zero ELSE f.storage[account][step.from]
      dest == Address(step.code, account)
  IN  IF body = <<>> THEN {f}
      ELSE IF ~ChargeGas(used, step.gas) \/ step.op = "trap" THEN {}
      ELSE CASE step.op = "set" -> Go([f EXCEPT !.storage[account][step.key] = step.value])
             [] step.op = "copy" -> Go([f EXCEPT !.storage[account][step.key] = value])
             [] step.op = "transfer" -> Go(PlainTransfer(s, f, account, step.to, step.value))
             [] step.op = "create" ->
                  IF EffectCreate([s EXCEPT !.free = f.free], <<>>, account, step.code, step.value) = {}
                  THEN Go(f)
                  ELSE Go([f EXCEPT !.free[dest] = step.value, !.code[dest] = step.code,
                                    !.free[account] = @ - Plus(step.value, ContractFee)])

PlainTransfer(s, f, who, dest, value) ==
  LET g == IF who = dest THEN f
           ELSE [f EXCEPT !.free[who] = AfterTransfer(@, value), !.free[dest] = Plus(@, value)]
      after == IF ~Prepared(Contract(g.code[dest])) THEN {}
               ELSE PlainRun(s, g, dest, Contract(g.code[dest]).body, 0)
  IN  IF ~CanTransfer(s, f.free[who], f.free[dest], who, value) THEN f
      ELSE IF g.code[dest] = Empty THEN g
      ELSE IF after = {} THEN f ELSE CHOOSE h \in after : TRUE

-----------------------------------------------------------------------------
vars == <<acct, drained, steps>>

Users == {Genesis[i] : i \in DOMAIN Genesis}

(* Some accounts may be bonded. *)
Init ==
  /\ \E bonded \in SUBSET Users :
       acct = [GenesisStorage(Genesis, Balance) EXCEPT
                 !.bondage = [a \in Accounts |-> IF a \in bonded THEN MAX_BLOCK ELSE 0]]
  /\ drained = {}
  /\ steps = 0

(* Executive::apply_extrinsic up to the call: the fee and the nonce. *)
Signed(s, who) == [MakePayment(s, who) EXCEPT !.nonce[who] = @ + 1]

(* The storage after the effects of a transfer or a creation. *)
Committed(s, effects) ==
  IF effects = {} THEN s ELSE DirectMerge(s, Order, CHOOSE e \in effects : TRUE)

(* An extrinsic that calls transfer. *)
Transfer(who, dest, value) ==
  LET s == Signed(acct, who)
  IN  /\ CanPay(acct, who)
      /\ acct' = Committed(s, EffectTransfer(s, <<>>, who, dest, value))
      /\ drained' = drained \cup (IF VotingBalance(s, who) = 0 THEN {who} ELSE {})

(* The same with an index for the destination. *)
TransferToIndex(who, index, value) ==
  \E dest \in LookupIndex(acct, index) : Transfer(who, dest, value)

(* Module::create *)
Create(who, code, value) ==
  /\ acct' = Committed(acct, EffectCreate(acct, <<>>, who, code, value))
  /\ UNCHANGED drained

(* What the other modules of the runtime do to an account. *)
OtherModules(who, value) ==
  /\ \/ CanReserve(acct, who, value, BlockNumber) /\ acct' = Reserve(acct, who, value)
     \/ acct' = Unreserve(acct, who, value)
     \/ acct' = Slash(acct, who, value).storage
     \/ \E other \in Users : acct' = TransferReserved(acct, who, other, value)
  /\ UNCHANGED drained

Next ==
  /\ steps < MaxSteps /\ steps' = steps + 1
  /\ \E who \in Users, value \in Amounts :
       \/ \E dest \in Accounts : Transfer(who, dest, value)
       \/ \E index \in 0 .. 3 : TransferToIndex(who, index, value)
       \/ \E code \in Code : Create(who, code, value)
       \/ OtherModules(who, value)

Spec == Init /\ [][Next]_vars

-----------------------------------------------------------------------------
(* Whatever contracts call and create, a transfer changes what it would if *)
(* each call worked on a copy of the accounts and a failed call gave back  *)
(* what it got (OverlayAccountDb, effect_transfer, contract::execute).     *)
OverlaysAreCopies ==
  \A who \in Accounts, dest \in Accounts, value \in Amounts :
    LET f == [free |-> acct.free, code |-> acct.code, storage |-> acct.storage]
        effects == EffectTransfer(acct, <<>>, who, dest, value)
        layers == IF effects = {} THEN <<>> ELSE <<CHOOSE e \in effects : TRUE>>
    IN  PlainTransfer(acct, f, who, dest, value) =
          [free |-> [a \in Accounts |-> GetBalance(acct, layers, a)],
           code |-> [a \in Accounts |-> GetCode(acct, layers, a)],
           storage |-> [a \in Accounts |-> [k \in Keys |-> GetStorage(acct, layers, a, k)]]]

(* An account with funds has an index (new_account, can_reclaim), unless a *)
(* fee had taken all it had: make_payment leaves an entry of zero, whose   *)
(* index may be reclaimed and which is not registered again.               *)
FundedHaveIndex ==
  \A a \in Accounts \ drained : VotingBalance(acct, a) # 0 => Indexed(acct, a)

(* An account's nonce is forgotten only with the last of its funds (reserve, *)
(* unreserve and slash each change the two balances one after the other).  *)
NonceKept == \A a \in Accounts : acct'.nonce[a] < acct.nonce[a] => VotingBalance(acct', a) = 0

(* No call makes money but for the rebate of a reclaimed index, as long as *)
(* the sum of a value and its fee fits the width of a balance.             *)
NoMoneyMade == TotalIssuance(acct') <= TotalIssuance(acct) + ReclaimRebate

(* Through any calls of the module, contracts that call and create others  *)
(* included: no money is made, no nonce comes back, and whoever has funds  *)
(* has an index.                                                           *)
LedgerSound == [][acct' # acct => NoMoneyMade /\ NonceKept /\ FundedHaveIndex']_vars
=============================================================================
