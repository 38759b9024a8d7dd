------------------------------ MODULE Balances ------------------------------
(***************************************************************************)
(* The accounts of the staking module (substrate/runtime/staking): free    *)
(* and reserved balances, what is deleted with an account, the enumeration *)
(* sets that give accounts an index, and the calls other modules make.     *)
(*                                                                         *)
(* The storage of the module is one record s.  Each function of the code   *)
(* is an operator from the storage before to the storage after, so that    *)
(* one can call another.  Balances are unsigned: sums wrap at Modulus.     *)
(* The code's 64, 256, 256 and 0x69 are constants.                         *)
(***************************************************************************)
EXTENDS Integers, Sequences, FiniteSets, FiniteSetsExt

CONSTANTS Accounts,
          Modulus,                \* 2^w, for w-bit balances
          ExistentialDeposit, TransactionFee, ReclaimRebate,
          ENUM_SET_SIZE,          \* accounts per enumeration set
          RECLAIM_INDEX_MODULUS, RECLAIM_INDEX_MAGIC, Quantization,
          Keys,                   \* the locations of a contract's storage
          Empty                   \* no code, nothing stored

MAX_BLOCK == 99                   \* T::BlockNumber::max_value()

Plus(x, y) == (x + y) % Modulus
Minus(x, y) == (x - y) % Modulus
Least(x, y) == IF x < y THEN x ELSE y

(* The storage at genesis, with balances for the accounts of the sequence  *)
(* ids.  exists holds the accounts that have an entry in FreeBalance.      *)
GenesisStorage(ids, balance) ==
  [free     |-> [a \in Accounts |-> IF \E i \in DOMAIN ids : ids[i] = a THEN balance[a] ELSE 0],
   exists   |-> {ids[i] : i \in DOMAIN ids},
   reserved |-> [a \in Accounts |-> 0],
   bondage  |-> [a \in Accounts |-> 0],
   code     |-> [a \in Accounts |-> Empty],
   storage  |-> [a \in Accounts |-> [k \in Keys |-> Empty]],
   nonce    |-> [a \in Accounts |-> 0],
   enum_set |-> [n \in 0 .. (Len(ids) \div ENUM_SET_SIZE) |->
                   SubSeq(ids, n * ENUM_SET_SIZE + 1, Least((n + 1) * ENUM_SET_SIZE, Len(ids)))],
   next_enum_set |-> Len(ids) \div ENUM_SET_SIZE]

VotingBalance(s, who) == Plus(s.free[who], s.reserved[who])

-----------------------------------------------------------------------------
(* Deleting an account *)

OnFreeTooLow(s, who) ==
  [s EXCEPT !.free[who] = 0, !.exists = @ \ {who}, !.bondage[who] = 0,
            !.code[who] = Empty, !.storage[who] = [k \in Keys |-> Empty],
            !.nonce[who] = IF s.reserved[who] = 0 THEN 0 ELSE @]

(* Mutant: the nonce goes with either portion. *)
OnReservedTooLowAll(s, who) ==
  [s EXCEPT !.reserved[who] = 0, !.nonce[who] = 0]

OnReservedTooLow(s, who) ==
  [s EXCEPT !.reserved[who] = 0,
            !.nonce[who] = IF s.free[who] = 0 THEN 0 ELSE @]

SetReservedBalance(s, who, balance) ==
  IF balance < ExistentialDeposit THEN OnReservedTooLow(s, who)
  ELSE [s EXCEPT !.reserved[who] = balance]

SetFreeBalance(s, who, balance) ==
  IF balance < ExistentialDeposit THEN OnFreeTooLow(s, who)
  ELSE [s EXCEPT !.free[who] = balance, !.exists = @ \cup {who}]

-----------------------------------------------------------------------------
(* The calls of other modules.  Those that may do less than they were asked *)
(* return the storage and what is left to do.                              *)

SlashReserved(s, who, value) ==
  LET slash == Least(s.reserved[who], value)
  IN  [storage |-> SetReservedBalance(s, who, s.reserved[who] - slash),
       remaining |-> value - slash]

Slash(s, who, value) ==
  LET slash == Least(s.free[who], value)
      s1 == SetFreeBalance(s, who, s.free[who] - slash)
  IN  IF slash < value THEN SlashReserved(s1, who, value - slash)
      ELSE [storage |-> s1, remaining |-> 0]

Reward(s, who, value) ==
  IF VotingBalance(s, who) = 0 THEN s
  ELSE SetFreeBalance(s, who, Plus(s.free[who], value))

(* LockStatus::Liquid *)
IsLiquid(s, who, block_number) == s.bondage[who] # MAX_BLOCK /\ s.bondage[who] <= block_number

CanReserve(s, who, value, block_number) ==
  IsLiquid(s, who, block_number) /\ s.free[who] >= value

Reserve(s, who, value) ==
  LET s1 == SetReservedBalance(s, who, Plus(s.reserved[who], value))
  IN  SetFreeBalance(s1, who, s.free[who] - value)

Unreserve(s, who, value) ==
  LET actual == Least(s.reserved[who], value)
      s1 == SetFreeBalance(s, who, Plus(s.free[who], actual))
  IN  SetReservedBalance(s1, who, s.reserved[who] - actual)

(* Mutant: what goes to the beneficiary stays reserved as well. *)
TransferReservedKeeps(s, slashed, beneficiary, value) ==
  IF VotingBalance(s, beneficiary) = 0 THEN s
  ELSE SetFreeBalance(s, beneficiary,
         Plus(s.free[beneficiary], Least(s.reserved[slashed], value)))

TransferReserved(s, slashed, beneficiary, value) ==
  LET slash == Least(s.reserved[slashed], value)
      s1 == SetFreeBalance(s, beneficiary, Plus(s.free[beneficiary], slash))
  IN  IF VotingBalance(s, beneficiary) = 0 THEN s
      ELSE SetReservedBalance(s1, slashed, s.reserved[slashed] - slash)

(* MakePayment: the entry stays, however little is left in it. *)
CanPay(s, who) == s.free[who] >= TransactionFee
MakePayment(s, who) ==
  [s EXCEPT !.free[who] = @ - TransactionFee, !.exists = @ \cup {who}]

-----------------------------------------------------------------------------
(* Indexes *)

EnumSet(s, n) == IF n \in DOMAIN s.enum_set THEN s.enum_set[n] ELSE <<>>
PutEnumSet(s, n, set) ==
  [s EXCEPT !.enum_set = [m \in DOMAIN @ \cup {n} |-> IF m = n THEN set ELSE @[m]]]

(* lookup_index: the account with an index, as a set of at most one. *)
LookupIndex(s, index) ==
  LET set == EnumSet(s, index \div ENUM_SET_SIZE)
      i == (index % ENUM_SET_SIZE) + 1
  IN  IF i \in DOMAIN set THEN {set[i]} ELSE {}

CanReclaim(s, index) == \E a \in LookupIndex(s, index) : VotingBalance(s, a) = 0

(* The index that the balance of a new account hints at, as a set. *)
Hint(s, balance) ==
  LET quantized == (((s.next_enum_set * ENUM_SET_SIZE) \div Quantization) + 1) * Quantization
      maybe == balance % (quantized * RECLAIM_INDEX_MODULUS)
  IN  IF maybe % RECLAIM_INDEX_MODULUS = RECLAIM_INDEX_MAGIC
      THEN {maybe \div RECLAIM_INDEX_MODULUS} ELSE {}

GoodHint(s, balance) == \E n \in Hint(s, balance) : CanReclaim(s, n)

(* The first set from n on that has room. *)
FirstOpenSet(s, n) ==
  CHOOSE m \in n .. n + Cardinality(DOMAIN s.enum_set) :
    /\ Len(EnumSet(s, m)) < ENUM_SET_SIZE
    /\ \A l \in n .. m - 1 : Len(EnumSet(s, l)) >= ENUM_SET_SIZE

(* Mutant: a hinted index is taken whoever has it. *)
NewAccountSteals(s, who, balance) ==
  LET n == CHOOSE n \in Hint(s, balance) : TRUE
      set == FirstOpenSet(s, s.next_enum_set)
      added == Append(EnumSet(s, set), who)
      s1 == IF Len(added) = ENUM_SET_SIZE THEN [s EXCEPT !.next_enum_set = set + 1] ELSE s
  IN  IF \E m \in Hint(s, balance) : LookupIndex(s, m) # {}
      THEN PutEnumSet(s, n \div ENUM_SET_SIZE,
             [EnumSet(s, n \div ENUM_SET_SIZE) EXCEPT ![(n % ENUM_SET_SIZE) + 1] = who])
      ELSE PutEnumSet(s1, set, added)

(* new_account *)
NewAccount(s, who, balance) ==
  LET n == CHOOSE n \in Hint(s, balance) : TRUE
      set == FirstOpenSet(s, s.next_enum_set)
      added == Append(EnumSet(s, set), who)
      s1 == IF Len(added) = ENUM_SET_SIZE THEN [s EXCEPT !.next_enum_set = set + 1] ELSE s
  IN  IF GoodHint(s, balance)
      THEN PutEnumSet(s, n \div ENUM_SET_SIZE,
             [EnumSet(s, n \div ENUM_SET_SIZE) EXCEPT ![(n % ENUM_SET_SIZE) + 1] = who])
      ELSE PutEnumSet(s1, set, added)

(* DirectAccountDb::merge, for the balance of one account. *)
MergeBalance(s, who, balance) ==
  IF balance < ExistentialDeposit THEN OnFreeTooLow(s, who)
  ELSE IF who \in s.exists THEN [s EXCEPT !.free[who] = balance]
  ELSE [NewAccount(s, who, balance) EXCEPT
          !.free[who] = IF GoodHint(s, balance) THEN Plus(balance, ReclaimRebate) ELSE balance,
          !.exists = @ \cup {who}]

-----------------------------------------------------------------------------
(* What the properties of the modules on top of this one say of the storage. *)

TotalIssuance(s) == MapThenSumSet(LAMBDA a : s.free[a] + s.reserved[a], Accounts)
Indexed(s, who) == \E n \in DOMAIN s.enum_set : \E i \in DOMAIN s.enum_set[n] : s.enum_set[n][i] = who
=============================================================================
