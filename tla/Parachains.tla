----------------------------- MODULE Parachains -----------------------------
(***************************************************************************)
(* The parachains of the runtime (polkadot/runtime/src/parachains.rs)      *)
(* across blocks, the evaluation of the candidates in a proposal against   *)
(* the state of its parent (evaluate_initial in                            *)
(* polkadot/consensus/src/evaluation.rs), and the duties of the            *)
(* authorities on top of a block: the roster that the runtime shuffles     *)
(* (calculate_duty_roster) and the groups an authority makes of it         *)
(* (make_group_info in polkadot/consensus/src/lib.rs).                     *)
(*                                                                         *)
(* A block that the authorities accepted is executed on the state it was   *)
(* evaluated against: the heads are set at their fixed position, then      *)
(* other extrinsics run, which may repeat the call and (de)register        *)
(* parachains, and the block ends with the check of the module.  Candidate *)
(* head data is abstracted to the number of the block that set it.  The    *)
(* bytes of the random seed of the roster are any numbers; its indices are *)
(* from 0.                                                                 *)
(***************************************************************************)
EXTENDS Integers, Sequences, FiniteSets, Functions

CONSTANTS Ids, MaxBlocks, MaxOthers,
          ValidatorCounts,
          Relay   \* Chain::Relay; a parachain stands for its own Chain

VARIABLES parachains,   \* Parachains: a vector of ids
          code, heads,  \* Code, the ids with code; Heads, a map
          did_update,
          phase,        \* "parent", "set_heads", "others", "panicked"
          candidates,   \* the candidates of the block being executed
          others,       \* the number of other extrinsics in the block
          number        \* the number of the block

registry == <<parachains, code, heads, did_update, phase, candidates, others, number>>

VARIABLES active_parachains,
          validator_count,
          shuffled,       \* the rounds of the shuffle that are done
          roles_val, roles_gua,
          groups,         \* what make_group_info returned
          local           \* the validation duty of each authority

roster == <<active_parachains, validator_count, shuffled, roles_val, roles_gua, groups, local>>

-----------------------------------------------------------------------------
(* Where iter.any (and iter.find) stop: the first match behind a place. *)
FirstBehind(ids, from, id, i) ==
  i > from /\ ids[i] = id /\ \A j \in (from + 1)..(i - 1) : ids[j] # id

(* One iterator finds all of hs, each behind the one before. *)
Walk(ids, hs) ==
  \E at \in [1..Len(hs) -> 1..Len(ids)] :
    \A k \in 1..Len(hs) : FirstBehind(ids, IF k = 1 THEN 0 ELSE at[k - 1], hs[k], at[k])

(* evaluate_initial: the candidates of a proposal. *)
EvaluateHeads(ids, hs) ==
  /\ Len(hs) <= Len(ids)
  /\ \A k \in 2..Len(hs) : hs[k - 1] < hs[k]
  /\ Walk(ids, hs)

(* The check of set_heads before it writes. *)
HeadsValid(ids, hs) == Walk(ids, hs)

(* Mutant: a new parachain is put at the end. *)
RegisterAtEnd(ids, id) == Append(ids, id)

Ascending(ids) == \A i, j \in 1..Len(ids) : i < j => ids[i] < ids[j]

(* binary_search in sorted ids: the number of smaller ones, which is the   *)
(* index of the id or where it belongs.                                    *)
BinarySearch(ids, id) ==
  CHOOSE n \in 0..Len(ids) : /\ \A i \in 1..n : ids[i] < id
                            /\ \A i \in (n + 1)..Len(ids) : id <= ids[i]

InsertSorted(ids, id) ==
  LET n == BinarySearch(ids, id)
  IN  SubSeq(ids, 1, n) \o <<id>> \o SubSeq(ids, n + 1, Len(ids))

RemoveSorted(ids, id) ==
  LET n == BinarySearch(ids, id)
  IN  SubSeq(ids, 1, n) \o SubSeq(ids, n + 2, Len(ids))

(* The lists of ids that a proposal or a configuration may have. *)
Proposals == UNION {[1..n -> Ids] : n \in 0..Cardinality(Ids)}

-----------------------------------------------------------------------------
(* The genesis configuration: sorted, without duplicates or heads. *)
HeadsInit ==
  /\ parachains \in {ids \in Proposals : Ascending(ids)}
  /\ code = Range(parachains)
  /\ heads = <<>>
  /\ did_update = FALSE
  /\ phase = "parent" /\ candidates = <<>> /\ others = 0 /\ number = 0

(* Mutant: the candidates are not evaluated. *)
AcceptAnything(hs) ==
  /\ phase = "parent" /\ number < MaxBlocks
  /\ candidates' = hs
  /\ number' = number + 1 /\ others' = 0
  /\ phase' = "set_heads"
  /\ UNCHANGED <<parachains, code, heads, did_update>>

(* The authorities accept a proposal on the current state. *)
Accept(hs) ==
  /\ phase = "parent" /\ number < MaxBlocks
  /\ EvaluateHeads(parachains, hs)
  /\ candidates' = hs
  /\ number' = number + 1 /\ others' = 0
  /\ phase' = "set_heads"
  /\ UNCHANGED <<parachains, code, heads, did_update>>

(* set_heads at SET_POSITION: an error leaves everything as it is. *)
SetHeads ==
  /\ phase = "set_heads"
  /\ phase' = "others"
  /\ IF ~did_update /\ HeadsValid(parachains, candidates)
     THEN /\ heads' = [id \in DOMAIN heads \cup Range(candidates) |->
                         IF id \in Range(candidates) THEN number ELSE heads[id]]
          /\ did_update' = TRUE
     ELSE UNCHANGED <<heads, did_update>>
  /\ UNCHANGED <<parachains, code, candidates, others, number>>

Other ==
  /\ phase = "others" /\ others < MaxOthers
  /\ others' = others + 1
  /\ UNCHANGED <<phase, candidates, number, did_update>>

(* register_parachain; for an id in use it panics and there is no block. *)
RegisterParachain(id) ==
  /\ Other
  /\ id \notin Range(parachains)
  /\ parachains' = InsertSorted(parachains, id)
  /\ code' = code \cup {id}
  /\ heads' = [i \in DOMAIN heads \cup {id} |-> IF i = id THEN number ELSE heads[i]]

(* deregister_parachain; for an unknown id nothing is removed. *)
DeregisterParachain(id) ==
  /\ Other
  /\ parachains' = IF id \in Range(parachains) THEN RemoveSorted(parachains, id) ELSE parachains
  /\ code' = code \ {id}
  /\ heads' = [i \in DOMAIN heads \ {id} |-> heads[i]]

(* Module::execute at the end of the block. *)
Execute ==
  /\ phase = "others"
  /\ phase' = IF did_update THEN "parent" ELSE "panicked"
  /\ did_update' = FALSE
  /\ UNCHANGED <<parachains, code, heads, candidates, others, number>>

HeadsNext ==
  \/ \E hs \in Proposals : Accept(hs)
  \/ SetHeads
  \/ \E id \in Ids : RegisterParachain(id) \/ DeregisterParachain(id)
  \/ Execute

HeadsSpec == HeadsInit /\ [][HeadsNext]_registry

-----------------------------------------------------------------------------
(* The duty roster. *)

Chains == Ids \cup {Relay}

(* A vector of n roles. *)
Indices(n) == 0..(n - 1)

ValidatorsPerParachain(n, count) == IF count # 0 THEN (n - 1) \div count ELSE 0

(* The roles in order, before they are shuffled. *)
OrderedRoles(n, ids) ==
  LET per == ValidatorsPerParachain(n, Len(ids))
  IN [k \in Indices(n) |-> IF k < Len(ids) * per THEN ids[(k \div per) + 1] ELSE Relay]

Swap(roles, a, b) == [roles EXCEPT ![a] = roles[b], ![b] = roles[a]]

RosterInit ==
  /\ validator_count \in ValidatorCounts
  /\ active_parachains \in {ids \in Proposals : IsInjective(ids)}
  /\ shuffled = 0
  /\ roles_val = OrderedRoles(validator_count, active_parachains)
  /\ roles_gua = roles_val
  /\ groups = <<>> /\ local = <<>>

(* One round: a random one of the remaining roles goes to the end of them, *)
(* for each of the rosters.                                                *)
Shuffle ==
  /\ shuffled < validator_count - 1
  /\ LET remaining == validator_count - shuffled
     IN \E val_index, gua_index \in Indices(remaining) :
          /\ roles_val' = Swap(roles_val, remaining - 1, val_index)
          /\ roles_gua' = Swap(roles_gua, remaining - 1, gua_index)
  /\ shuffled' = shuffled + 1
  /\ UNCHANGED <<active_parachains, validator_count, groups, local>>

Holders(roles, id) == {k \in DOMAIN roles : roles[k] = id}

(* Mutant: less than one half, for groups of an odd size. *)
NeededDown(n) == n \div 2

Needed(n) == (n \div 2) + (n % 2)

Group(id) ==
  [validity_guarantors |-> Holders(roles_val, id),
   availability_guarantors |-> Holders(roles_gua, id),
   needed_validity |-> Needed(Cardinality(Holders(roles_val, id))),
   needed_availability |-> Needed(Cardinality(Holders(roles_gua, id)))]

(* make_group_info, by the authorities of the same number. *)
MakeGroupInfo ==
  /\ shuffled = validator_count - 1
  /\ groups' = [id \in (Range(roles_val) \cup Range(roles_gua)) \ {Relay} |-> Group(id)]
  /\ local' = roles_val
  /\ shuffled' = validator_count
  /\ UNCHANGED <<active_parachains, validator_count, roles_val, roles_gua>>

RosterNext == Shuffle \/ MakeGroupInfo

RosterSpec == RosterInit /\ [][RosterNext]_roster

-----------------------------------------------------------------------------
(* The walks of the evaluation and of the runtime along the registered     *)
(* parachains accept the same lists, and exactly the ascending lists of    *)
(* registered parachains: the iterators rely on the ids being sorted,      *)
(* whatever was registered and deregistered.                               *)
WalksAgree ==
  \A hs \in Proposals :
    LET wanted == /\ Range(hs) \subseteq Range(parachains)
                  /\ Ascending(hs)
    IN (EvaluateHeads(parachains, hs) <=> wanted) /\ (HeadsValid(parachains, hs) <=> wanted)

(* A block that the authorities accepted does not run into the assertion   *)
(* that the heads were updated.                                            *)
AcceptedExecutes == phase # "panicked"

(* Evaluation and runtime agree on the heads of a block (evaluate_proposal,*)
(* set_heads, on_finalise).                                                *)
HeadsAgreed == WalksAgree /\ AcceptedExecutes

Done == shuffled = validator_count

(* The groups an authority makes are those of active parachains, and every *)
(* group can decide: it has members for both duties, enough to reach what  *)
(* is needed, and what is needed is at least one half of them.             *)
GroupsCanDecide ==
  Done => \A id \in DOMAIN groups :
            /\ id \in Range(active_parachains)
            /\ LET g == groups[id]
                   v == Cardinality(g.validity_guarantors)
                   a == Cardinality(g.availability_guarantors)
               IN /\ v > 0 /\ a > 0
                  /\ g.needed_validity \in 1..v /\ 2 * g.needed_validity >= v
                  /\ g.needed_availability \in 1..a /\ 2 * g.needed_availability >= a
=============================================================================
