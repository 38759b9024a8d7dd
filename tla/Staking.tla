------------------------------ MODULE Staking -------------------------------
(***************************************************************************)
(* Sessions and eras (substrate/runtime/session, substrate/runtime/staking): *)
(* who wants to validate, who nominates whom, and how the authorities of   *)
(* the consensus change with them.                                         *)
(*                                                                         *)
(* The storage is one record: the accounts of Balances, and the items of   *)
(* the modules staking, session, consensus (authorities), system (number)  *)
(* and timestamp (now).  The modules call one another in the middle of     *)
(* their own changes, so their functions are operators on the record; new  *)
(* eras sort by balance in no fixed order among equals, so the functions   *)
(* that may start one give the set of the possible outcomes.               *)
(***************************************************************************)
EXTENDS Balances, SequencesExt

CONSTANTS GenesisBalances,      \* a balance per account
          GenesisIntentions,    \* a sequence of accounts
          BondingDuration, SessionReward, EarlyEraSlash,
          BlockPeriod, BrokenPercentLate,
          Lengths, Counts,      \* the values of the setters
          Delays,               \* the times between blocks
          MaxBlocks, MaxChanges, \* bounds: the chain, and the calls in it
          None

VARIABLES s,                    \* the storage
          changes

vars == <<s, changes>>

(* ConvertAccountIdToSessionKey, and the keys a validator may choose. *)
Key(a, n) == [owner |-> a, n |-> n]

(* The keys of the first validators, from the genesis of the consensus     *)
(* module.                                                                 *)
ConsensusGenesis(validators) == [i \in DOMAIN validators |-> Key(validators[i], 0)]

Genesis(ids) ==
  LET accounts == GenesisStorage(ids, GenesisBalances)
      modules ==
        [intentions |-> GenesisIntentions,
         nominating |-> [a \in Accounts |-> None],
         nominators_for |-> [a \in Accounts |-> <<>>],
         current_nominators_for |-> [a \in Accounts |-> <<>>],
         era |-> 0, sessions_per_era |-> 1, next_sessions_per_era |-> None,
         last_era_length_change |-> 0, validator_count |-> 1, stake_threshold |-> 0,
         validators |-> GenesisIntentions,
         authorities |-> ConsensusGenesis(GenesisIntentions),
         length |-> 2, index |-> 0, start |-> 0, last_length_change |-> 0,
         next_key |-> [a \in Accounts |-> None], next_length |-> None,
         number |-> 1, now |-> BlockPeriod]
  IN  accounts @@ modules

-----------------------------------------------------------------------------
(* The rotation of sessions *)

IdealSessionDuration(r) == r.length * BlockPeriod

BlocksRemaining(r) ==
  (r.length - 1) - ((r.number - r.last_length_change + (r.length - 1)) % r.length)

BrokenValidation(r) ==
  r.now + BlocksRemaining(r) * BlockPeriod
    > r.start + (IdealSessionDuration(r) * (100 + BrokenPercentLate)) \div 100

IsFinalBlock(r) == (r.number - r.last_length_change) % r.length = 0

VotingBalances(r, accounts) ==
  FoldLeft(LAMBDA sum, a : sum + VotingBalance(r, a), 0, accounts)

(* Mutant: the share is of the nominators' total, without the validator's. *)
RewardValidatorMore(r, v, reward) ==
  LET noms == r.current_nominators_for[v]
      total == VotingBalances(r, noms)
      Share(t, a) == Reward(t, a, (VotingBalance(t, a) * reward) \div total)
  IN  IF total = 0 THEN r ELSE Share(FoldLeft(Share, r, noms), v)

(* The part of new_session for one validator, at a normal rotation. *)
RewardValidator(r, v, reward) ==
  LET noms == r.current_nominators_for[v]
      total == VotingBalances(r, <<v>> \o noms)
      Share(t, a) == Reward(t, a, (VotingBalance(t, a) * reward) \div total)
  IN  IF total = 0 THEN r ELSE Share(FoldLeft(Share, r, noms), v)

(* The same at another: what the validator cannot pay its nominators do. *)
SlashValidator(r, v) ==
  LET slashed == Slash(r, v, EarlyEraSlash)
      noms == r.current_nominators_for[v]
      total == VotingBalances(slashed.storage, noms)
      Share(t, a) == Slash(t, a, (VotingBalance(t, a) * slashed.remaining) \div total).storage
  IN  IF slashed.remaining = 0 \/ total = 0 THEN slashed.storage
      ELSE FoldLeft(Share, slashed.storage, noms)

(* The orders that sorting the intentions by weight may give. *)
Weight(r, v) == VotingBalance(r, v) + VotingBalances(r, r.nominators_for[v])
Sorted(r) ==
  {order \in [DOMAIN r.intentions -> ToSet(r.intentions)] :
     /\ ToSet(order) = ToSet(r.intentions)
     /\ \A i, j \in DOMAIN order : i < j => Weight(r, order[i]) >= Weight(r, order[j])}

(* Mutant: the authorities wait for the next rotation. *)
SetValidatorsOnly(r, new) == [r EXCEPT !.validators = new]

(* Session::set_validators *)
SetValidators(r, new) ==
  [r EXCEPT !.validators = new, !.authorities = [i \in DOMAIN new |-> Key(new[i], 0)]]

(* new_era, with the order that the sort gave. *)
EnactEra(r, order) ==
  LET changed == r.next_sessions_per_era # None /\ r.next_sessions_per_era # r.sessions_per_era
      vals == SubSeq(order, 1, Least(r.validator_count, Len(order)))
      enacted == [r EXCEPT
         !.era = @ + 1,
         !.sessions_per_era = IF changed THEN r.next_sessions_per_era ELSE @,
         !.last_era_length_change = IF changed THEN r.index ELSE @,
         !.stake_threshold = IF order = <<>> THEN 0
                             ELSE Weight(r, order[Least(r.validator_count, Len(order) - 1) + 1]),
         !.current_nominators_for =
            [a \in Accounts |-> IF a \in ToSet(vals) THEN r.nominators_for[a]
                                ELSE IF a \in ToSet(r.validators) THEN <<>> ELSE @[a]]]
  IN  SetValidators(enacted, vals)

NewEra(r) == {EnactEra(r, order) : order \in Sorted(r)}

(* Staking::new_session *)
NewSession(r, normal, elapsed) ==
  LET ideal == IdealSessionDuration(r)
      reward == (SessionReward * ((65536 * ideal) \div (IF elapsed > ideal THEN elapsed ELSE ideal)))
                  \div 65536
      paid == FoldLeft(LAMBDA t, v : RewardValidator(t, v, reward), r, r.validators)
      fined == FoldLeft(SlashValidator, r, r.validators)
      after == IF normal THEN paid ELSE fined
  IN  IF (r.index - r.last_era_length_change) % r.sessions_per_era = 0 \/ ~normal
      THEN NewEra(after) ELSE {after}

(* The end of rotate_session: the keys that validators set for it. *)
UpdateKeys(r) ==
  LET Taken(i) == r.next_key[r.validators[i]] # None
  IN  [r EXCEPT
         !.authorities = [i \in DOMAIN @ |-> IF Taken(i) THEN r.next_key[r.validators[i]] ELSE @[i]],
         !.next_key = [a \in Accounts |-> IF a \in ToSet(r.validators) THEN None ELSE @[a]]]

RotateSession(r, normal) ==
  LET begun == [r EXCEPT !.index = @ + 1, !.start = r.now,
                         !.length = IF r.next_length = None THEN @ ELSE r.next_length,
                         !.last_length_change = IF r.next_length = None THEN @ ELSE r.number,
                         !.next_length = None]
  IN  {UpdateKeys(t) : t \in NewSession(begun, normal, r.now - r.start)}

CheckRotateSession(r) ==
  IF IsFinalBlock(r) \/ BrokenValidation(r) THEN RotateSession(r, ~BrokenValidation(r)) ELSE {r}

-----------------------------------------------------------------------------
Init == /\ s = Genesis(SetToSeq({a \in Accounts : GenesisBalances[a] > 0}))
        /\ changes = 0

(* The end of a block, and the start of the next with its timestamp. *)
EndBlock ==
  /\ s.number < MaxBlocks
  /\ \E t \in CheckRotateSession(s), delay \in Delays :
       s' = [t EXCEPT !.number = @ + 1, !.now = @ + delay]
  /\ UNCHANGED changes

Nominates(a) == s.nominating[a] # None
Intends(a) == a \in ToSet(s.intentions)

Stake(a) ==
  /\ ~Nominates(a) /\ ~Intends(a)
  /\ s' = [s EXCEPT !.intentions = Append(@, a), !.bondage[a] = MAX_BLOCK]

(* Vec::swap_remove *)
SwapRemove(seq, i) ==
  [j \in 1 .. Len(seq) - 1 |-> IF j = i THEN seq[Len(seq)] ELSE seq[j]]

Unstake(a, position) ==
  /\ position \in DOMAIN s.intentions /\ s.intentions[position] = a
  /\ s' = [s EXCEPT !.intentions = SwapRemove(@, position),
                    !.bondage[a] = s.era + BondingDuration]

(* Mutant: a validator to be may nominate. *)
NominateAnyhow(a, target) ==
  /\ ~Nominates(a)
  /\ s' = [s EXCEPT !.nominators_for[target] = Append(@, a),
                    !.nominating[a] = target, !.bondage[a] = MAX_BLOCK]

Nominate(a, target) ==
  /\ ~Nominates(a) /\ ~Intends(a)
  /\ s' = [s EXCEPT !.nominators_for[target] = Append(@, a),
                    !.nominating[a] = target, !.bondage[a] = MAX_BLOCK]

Unnominate(a, i) ==
  LET noms == s.nominators_for[s.nominating[a]]
  IN  /\ Nominates(a) /\ i \in DOMAIN noms /\ noms[i] = a
      /\ s' = [s EXCEPT !.nominators_for[s.nominating[a]] = SwapRemove(@, i),
                        !.nominating[a] = None,
                        !.bondage[a] = s.era + BondingDuration]

SetKey(a) == s' = [s EXCEPT !.next_key[a] = Key(a, 1)]

(* The privileged calls; a length or a count of zero is not asked for. *)
SetLength(n) == s' = [s EXCEPT !.next_length = n]
SetSessionsPerEra(n) == s' = [s EXCEPT !.next_sessions_per_era = n]
SetValidatorCount(n) == s' = [s EXCEPT !.validator_count = n]
ForceNewSession(normal) == s' \in RotateSession(s, normal)
ForceNewEra == s' \in RotateSession(s, FALSE)

Call ==
  /\ changes < MaxChanges /\ changes' = changes + 1
  /\ \/ \E a \in Accounts :
          \/ Stake(a) \/ SetKey(a)
          \/ \E i \in 1 .. Cardinality(Accounts) : Unstake(a, i) \/ Unnominate(a, i)
          \/ \E target \in Accounts : Nominate(a, target)
     \/ \E n \in Lengths : SetLength(n) \/ SetSessionsPerEra(n)
     \/ \E n \in Counts : SetValidatorCount(n)
     \/ \E normal \in BOOLEAN : ForceNewSession(normal)
     \/ ForceNewEra

Next == EndBlock \/ Call

Spec == Init /\ [][Next]_vars

-----------------------------------------------------------------------------
(* Nominating and NominatorsFor are each other's inverse, and no one both  *)
(* nominates and wants to validate (stake, nominate, unnominate).          *)
NominationsMatch ==
  /\ \A i, j \in DOMAIN s.intentions : s.intentions[i] = s.intentions[j] => i = j
  /\ \A a \in Accounts : Nominates(a) => ~Intends(a)
  /\ \A a, target \in Accounts :
       Cardinality({i \in DOMAIN s.nominators_for[target] : s.nominators_for[target][i] = a})
         = IF s.nominating[a] = target THEN 1 ELSE 0

(* Whatever is rotated, elected and set in between, the authorities are    *)
(* the session keys of the validators, in their order (set_validators,     *)
(* rotate_session, set_authority).                                         *)
AuthoritiesMatch ==
  /\ Len(s.authorities) = Len(s.validators)
  /\ \A i \in DOMAIN s.validators : s.authorities[i].owner = s.validators[i]

(* A step pays out at most the session reward for each validator, however  *)
(* its nominators changed since the era began, and a rotation that is not  *)
(* normal takes at most the slash and what too little remains of (new_session). *)
RewardsWithinBudget ==
  /\ TotalIssuance(s') - TotalIssuance(s) <= Len(s.validators) * SessionReward
  /\ \A a \in Accounts : s'.free[a] < s.free[a] =>
       \/ a \in ToSet(s.validators)
       \/ \E v \in ToSet(s.validators) : a \in ToSet(s.current_nominators_for[v])

(* Through all sessions and eras, on time, late and forced, the rewards    *)
(* stay within their budget and the three modules agree on who nominates,  *)
(* validates and signs.                                                    *)
StakingSound == [][s' # s => RewardsWithinBudget /\ NominationsMatch' /\ AuthoritiesMatch']_vars
=============================================================================
