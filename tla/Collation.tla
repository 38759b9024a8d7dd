----------------------------- MODULE Collation ------------------------------
(***************************************************************************)
(* How a parachain's candidate comes about and gets signed: the collator   *)
(* that gathers the ingress of its parachain and produces a candidate      *)
(* (polkadot/collator/src/lib.rs), the validator that fetches collations   *)
(* until one is valid (polkadot/consensus/src/collation.rs) and signs it   *)
(* in each proposal it makes (CreateProposal in                            *)
(* polkadot/consensus/src/lib.rs), and the validation of a candidate in    *)
(* Wasm (polkadot/parachain/src).                                          *)
(*                                                                         *)
(* A message, and what stands for the length of an encoded vector, is a    *)
(* byte; a page has PAGE bytes.  The validity function is a parachain's    *)
(* own: here it adds up the bytes and refuses a block with a 0.            *)
(***************************************************************************)
EXTENDS Integers, Sequences, FiniteSets, SequencesExt

CONSTANTS Local,       \* the parachain of the collator and of the validator's duty
          Queues,      \* the unrouted egress of each parachain, the oldest first
          Modules,     \* the validation code: pages at first and at most, and what it returns
          PAGE, MAX_MEM,  \* bytes of a page; the pages that code may ask for
          WasmPages,   \* the pages that no memory exceeds
          MaxProposals, MaxFetches,  \* bounds
          None

(* k: queues; module: of the local parachain, or None if it is not active; *)
(* head: of the parachain at the relay parent; waiting: the egress fetches *)
(* to come; map: the ordered map; candidate: of the collator; para, live,  *)
(* got: the CollationFetch, how its live fetch stands and what that got;   *)
(* polling: its poll is under way; noted: bad collators; signed: the       *)
(* candidates signed in the table; panicked; proposals and fetches count.  *)
VARIABLE k

Failed == <<>>

Init ==
  \E q \in Queues, m \in Modules \cup {None} :
    k = [queues |-> q, module |-> m, head |-> <<1>>, waiting |-> DOMAIN q, map |-> <<>>,
         candidate |-> None, para |-> None, live |-> "none", got |-> None, polling |-> FALSE,
         noted |-> {}, signed |-> <<>>, panicked |-> FALSE, proposals |-> 0, fetches |-> 0]

-----------------------------------------------------------------------------
(* Mutant: the depth is counted from the oldest. *)
DepthOldest(egress, i) == i

(* collate_ingress: how far an entry of a queue is behind the newest,      *)
(* negated.                                                                *)
Depth(egress, i) == -(Len(egress) - i)

(* The entries of a parachain's queue, with their keys in the map. *)
Keyed(id, egress) == {[depth |-> Depth(egress, i), id |-> id, msgs |-> egress[i]] : i \in DOMAIN egress}

(* The order of the map's keys. *)
Before(a, b) == a.depth < b.depth \/ (a.depth = b.depth /\ a.id < b.id)

(* BTreeMap::insert of each entry *)
Inserted(map, entries) == SetToSortSeq(Range(map) \cup entries, Before)

(* The messages of all entries in order, as produce_candidate gets them. *)
Flat(map) == FlattenSeq([i \in DOMAIN map |-> map[i].msgs])

(* The egress queues of a parachain arrive; which is first is open. *)
EgressFetched(id) ==
  /\ id \in k.waiting
  /\ k' = [k EXCEPT !.waiting = @ \ {id}, !.map = Inserted(@, Keyed(id, k.queues[id]))]

-----------------------------------------------------------------------------
(* ValidationParams::encode and decode *)
EncodeParams(p) == <<Len(p.data)>> \o p.data \o <<Len(p.head)>> \o p.head

DecodeParams(s) ==
  [data |-> SubSeq(s, 2, s[1] + 1), head |-> SubSeq(s, s[1] + 3, s[1] + 2 + s[s[1] + 2])]

(* ValidationResult::encode and decode, of the new head *)
EncodeResult(head) == <<Len(head)>> \o head
DecodeResult(s) == IF s = <<>> \/ Len(s) < s[1] + 1 THEN Failed ELSE <<SubSeq(s, 2, s[1] + 1)>>

(* The validity function of a parachain. *)
Sum(s) == FoldLeft(LAMBDA a, b : a + b, 0, s)
Validity(p) == IF \E i \in DOMAIN p.data : p.data[i] = 0 THEN Failed ELSE <<<<(Sum(p.head) + Sum(p.data)) % 8>>>>

Zeros(n) == [i \in 1..n |-> 0]
Pages(n) == (n + PAGE - 1) \div PAGE

(* memory.grow, by pages: Failed, or the memory. *)
Grow(mem, module, pages) ==
  IF (Len(mem) \div PAGE) + pages > (IF module.max = None THEN WasmPages ELSE module.max) THEN Failed
  ELSE <<mem \o Zeros(pages * PAGE)>>

(* memory.set at an offset that has the room. *)
Written(mem, at, bytes) == SubSeq(mem, 1, at) \o bytes \o SubSeq(mem, at + Len(bytes) + 1, Len(mem))

(* Resolver::resolve_memory *)
ResolveMemory(module) ==
  IF module.initial > MAX_MEM \/ (module.max # None /\ module.max > MAX_MEM) THEN Failed
  ELSE <<Zeros(module.initial * PAGE)>>

(* Mutant: the pages that the call data fills. *)
CallDataPagesWhole(len) == len \div PAGE

(* The pages that are made sure of for the call data. *)
CallDataPages(len) == (len \div PAGE) + (len % PAGE)

(* The memory with the call data, Failed, or None for a panic. *)
Allocated(mem, module, bytes) ==
  LET pages == CallDataPages(Len(bytes))
      grown == IF Len(mem) < pages * PAGE THEN Grow(mem, module, pages - (Len(mem) \div PAGE)) ELSE <<mem>>
  IN  IF grown = Failed THEN Failed
      ELSE IF Len(grown[1]) < Len(bytes) THEN <<None>>
      ELSE <<Written(grown[1], 0, bytes)>>

(* load_params, the validity function and write_result: the memory with    *)
(* the result and the pointer to its length, for which the module may      *)
(* have to grow its memory; an odd module points elsewhere.                *)
Invoked(mem, module, len) ==
  LET result == Validity(DecodeParams(SubSeq(mem, 1, len)))
      bytes == IF result = Failed THEN <<>> ELSE EncodeResult(result[1])
      more == Grow(mem, module, Pages(Len(bytes) + 1))
  IN  IF result = Failed \/ more = Failed THEN Failed
      ELSE <<[mem |-> Written(more[1], Len(mem), Append(bytes, Len(bytes))),
              ptr |-> IF module.odd THEN 0 ELSE Len(mem) + Len(bytes)]>>

(* What is read back from the pointer. *)
Returned(out) ==
  LET len == out.mem[out.ptr + 1]
  IN  IF len > out.ptr THEN Failed ELSE DecodeResult(SubSeq(out.mem, out.ptr - len + 1, out.ptr))

(* validate_candidate: the new head in a sequence, Failed, or None for a   *)
(* panic.                                                                  *)
ValidateCandidate(module, params) ==
  LET mem == ResolveMemory(module)
      bytes == EncodeParams(params)
      set == IF mem = Failed THEN Failed ELSE Allocated(mem[1], module, bytes)
      out == IF set = Failed \/ set = <<None>> THEN Failed ELSE Invoked(set[1], module, Len(bytes))
  IN  IF set = <<None>> THEN <<None>> ELSE IF out = Failed THEN Failed ELSE Returned(out[1])

-----------------------------------------------------------------------------
(* What a collation should be. *)
Right(c) ==
  /\ c.para = Local /\ k.module # None
  /\ Validity([data |-> c.data, head |-> k.head]) = <<c.head>>

(* collate, when all egress is there: the candidate.  What a collation     *)
(* says of its head is the collator's.                                     *)
Collate ==
  /\ k.waiting = {} /\ k.candidate = None
  /\ LET data == Flat(k.map)
         head == Validity([data |-> data, head |-> k.head])
     IN  k' = [k EXCEPT !.candidate = [para |-> Local, data |-> data,
                                       head |-> IF head = Failed THEN k.head ELSE head[1], by |-> "honest"]]

(* The collations that collators offer: the honest one's, and others with  *)
(* a wrong head, a wrong block, or for a parachain that is not there.      *)
Offers ==
  {[para |-> Local, data |-> <<>>, head |-> <<0>>, by |-> "hasty"],
   [para |-> Local, data |-> <<0>>, head |-> k.head, by |-> "false"],
   [para |-> Local + 1, data |-> <<>>, head |-> k.head, by |-> "lost"]}
  \cup (IF k.candidate = None THEN {} ELSE {k.candidate})

(* validate_collation: "ok", "bad", or "panic". *)
ValidateCollation(c) ==
  IF c.para # Local \/ k.module = None THEN "bad"
  ELSE LET result == ValidateCandidate(k.module, [data |-> c.data, head |-> k.head])
       IN  IF result = <<None>> THEN "panic" ELSE IF result = <<c.head>> THEN "ok" ELSE "bad"

(* Proposer::propose: a CreateProposal with its CollationFetch *)
Propose ==
  /\ ~k.polling /\ ~k.panicked /\ k.proposals < MaxProposals
  /\ k' = [k EXCEPT !.proposals = @ + 1, !.para = Local, !.live = "none", !.got = None]

(* CreateProposal::poll polls the collation, if it is not done. *)
Poll ==
  /\ k.para # None /\ ~k.polling /\ ~k.panicked
  /\ k' = [k EXCEPT !.polling = TRUE]

(* A collation is asked for if there is no live fetch. *)
Fetch ==
  /\ k.polling /\ ~k.panicked /\ k.live = "none" /\ k.fetches < MaxFetches
  /\ k' = [k EXCEPT !.live = "pending", !.fetches = @ + 1]

(* ... and comes, or fails, at once or between two polls. *)
Offered(c) == k.live = "pending" /\ k' = [k EXCEPT !.live = "ready", !.got = c]
FetchFails == k.live = "pending" /\ k' = [k EXCEPT !.live = "failed"]

NotReady == k.polling /\ k.live = "pending" /\ k' = [k EXCEPT !.polling = FALSE]

(* The error is ignored, and the future is done. *)
PollError ==
  /\ k.polling /\ k.live = "failed"
  /\ k' = [k EXCEPT !.polling = FALSE, !.para = None]

Arrived == k.polling /\ k.live = "ready"

(* Mutant: signed as it came. *)
PollReadyUnchecked ==
  /\ Arrived
  /\ k' = [k EXCEPT !.para = None, !.polling = FALSE, !.signed = Append(@, k.got)]

(* It is valid: sign_and_import in the table. *)
PollReady ==
  /\ Arrived /\ ValidateCollation(k.got) = "ok"
  /\ k' = [k EXCEPT !.para = None, !.polling = FALSE, !.signed = Append(@, k.got)]

(* It is not: note_bad_collator, and the next one. *)
PollBad ==
  /\ Arrived /\ ValidateCollation(k.got) # "ok"
  /\ k' = [k EXCEPT !.live = "none", !.got = None, !.noted = @ \cup {k.got},
                    !.panicked = (ValidateCollation(k.got) = "panic")]

Next ==
  \/ \E id \in k.waiting : EgressFetched(id)
  \/ \E c \in Offers : Offered(c)
  \/ Collate \/ Propose \/ Poll \/ Fetch \/ FetchFails \/ NotReady
  \/ PollError \/ PollReady \/ PollBad

Spec == Init /\ [][Next]_k

-----------------------------------------------------------------------------
(* The ingress of a candidate is the same in whatever order the queues     *)
(* arrive: every message once, those of a parachain from the oldest to the *)
(* newest, and those that are as old by the number of the parachain        *)
(* (collate_ingress).                                                      *)
IngressInOrder ==
  LET all == {[id |-> id, age |-> Len(k.queues[id]) - i, msgs |-> k.queues[id][i]] :
                <<id, i>> \in UNION {{id} \X (1..Len(k.queues[id])) : id \in DOMAIN k.queues}}
      older(a, b) == a.age > b.age \/ (a.age = b.age /\ a.id < b.id)
  IN  k.waiting = {} =>
        [i \in DOMAIN k.map |-> <<k.map[i].id, k.map[i].msgs>>]
          = [i \in 1..Cardinality(all) |->
               LET e == CHOOSE e \in all : Cardinality({o \in all : older(o, e)}) = i - 1
               IN  <<e.id, e.msgs>>]

(* A validator signs a candidate only if the parachain's own function      *)
(* takes the parachain's head to the head that the candidate claims, and   *)
(* notes a collator as bad only if it does not or if the code has not the  *)
(* memory for it; nothing it is offered makes it panic ("enough memory     *)
(* allocated just before this"; CollationFetch::poll, validate_candidate). *)
CandidatesJudged ==
  /\ ~k.panicked
  /\ \A i \in DOMAIN k.signed : Right(k.signed[i])
  /\ \A c \in k.noted : Right(c) => ValidateCandidate(k.module, [data |-> c.data, head |-> k.head]) = Failed

(* What a collator is given is in order, and what it makes of it is judged *)
(* by the parachain's function.                                            *)
CollationSound == IngressInOrder /\ CandidatesJudged
=============================================================================
