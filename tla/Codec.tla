------------------------------- MODULE Codec -------------------------------
(***************************************************************************)
(* The binary format of everything that is stored, hashed, signed or sent: *)
(* the Slicable implementations (substrate/codec/src/slicable.rs and the   *)
(* types that implement the trait).  A value is encoded by one node, other *)
(* bytes follow it, and another node decodes it.  Separately, arbitrary    *)
(* bytes are decoded.                                                      *)
(*                                                                         *)
(* A type is a record that says how its values are written and, on its     *)
(* own, how they are read: the order of the fields in encode and in        *)
(* decode, the byte that encode pushes for a variant and the variant that  *)
(* decode makes of a byte.                                                 *)
(*                                                                         *)
(* Widths are scaled: a byte has Base values, u16, u32, u64 and u128 have  *)
(* two to five bytes, a hash two and a signature three.                    *)
(***************************************************************************)
EXTENDS Integers, Sequences, SequencesExt, TLC

CONSTANTS Follows,    \* the bytes that may come after a value
          RawBytes,   \* the bytes an arbitrary input is made of
          MaxRaw      \* bound: the length of an arbitrary input

VARIABLE c

Base == 32
U8 == 1
U16 == 2
U32 == 3
U64 == 4
U128 == 5

Ok(v, rest) == [ok |-> TRUE, v |-> v, rest |-> rest]
Fail == [ok |-> FALSE, v |-> <<>>, rest |-> <<>>]

(* Input::read into a slice of n bytes, and the callers' check that it was *)
(* filled.                                                                 *)
Read(n, input) ==
  IF Len(input) < n THEN Fail ELSE Ok(SubSeq(input, 1, n), SubSeq(input, n + 1, Len(input)))

-----------------------------------------------------------------------------
(* Integers are little-endian (impl_endians). *)
EncodeUint(w, n) == [i \in 1..w |-> (n \div Base^(i - 1)) % Base]

DecodeUint(w, input) ==
  LET r == Read(w, input)
  IN  IF r.ok
      THEN Ok(FoldRight(LAMBDA b, n : b + Base * n, r.v, 0), r.rest)
      ELSE Fail

(* encode_slice, and Vec<u8>::decode. *)
EncodeSlice(bytes) == EncodeUint(U32, Len(bytes)) \o bytes

DecodeBytes(input) ==
  LET len == DecodeUint(U32, input)
  IN  IF len.ok THEN Read(len.v, len.rest) ELSE Fail

(* Address: a small index is its own first byte, a larger one follows a    *)
(* byte that gives its width, and so does an account.                      *)
FirstCode == Base - 16   \* 0xf0
TwoBytes == Base - 4     \* 0xfc
FourBytes == Base - 3    \* 0xfd
EightBytes == Base - 2   \* 0xfe
WholeId == Base - 1      \* 0xff
MaxU16 == Base^U16 - 1
MaxU32 == Base^U32 - 1

(* Mutant: 0xf0 is taken for an index that fits into one byte. *)
EncodeAddressShort(a) ==
  CASE a.tag = "Id" -> <<WholeId>> \o a.of
    [] a.tag = "Index" /\ a.of > MaxU32 -> <<EightBytes>> \o EncodeUint(U64, a.of)
    [] a.tag = "Index" /\ a.of > MaxU16 /\ a.of <= MaxU32 -> <<FourBytes>> \o EncodeUint(U32, a.of)
    [] a.tag = "Index" /\ a.of > FirstCode /\ a.of <= MaxU16 -> <<TwoBytes>> \o EncodeUint(U16, a.of)
    [] a.tag = "Index" /\ a.of <= FirstCode -> <<a.of>>

EncodeAddress(a) ==
  CASE a.tag = "Id" -> <<WholeId>> \o a.of
    [] a.tag = "Index" /\ a.of > MaxU32 -> <<EightBytes>> \o EncodeUint(U64, a.of)
    [] a.tag = "Index" /\ a.of > MaxU16 /\ a.of <= MaxU32 -> <<FourBytes>> \o EncodeUint(U32, a.of)
    [] a.tag = "Index" /\ a.of >= FirstCode /\ a.of <= MaxU16 -> <<TwoBytes>> \o EncodeUint(U16, a.of)
    [] a.tag = "Index" /\ a.of < FirstCode -> <<a.of>>

(* Mutant: the bound itself is let through. *)
NeedMoreOrEqual(a, r) == r.ok /\ a <= r.v

(* need_more_than(a, b): b is above what a shorter form holds. *)
NeedMoreThan(a, r) == r.ok /\ a < r.v

DecodeAddress(input) ==
  LET byte == Read(1, input)
      x == byte.v[1]
      Wide(w, more) ==
        LET r == DecodeUint(w, byte.rest)
        IN  IF NeedMoreThan(more, r) THEN Ok([tag |-> "Index", of |-> r.v], r.rest) ELSE Fail
      id == Read(2, byte.rest)
  IN  CASE ~byte.ok -> Fail
        [] byte.ok /\ x < FirstCode -> Ok([tag |-> "Index", of |-> x], byte.rest)
        [] byte.ok /\ x = TwoBytes -> Wide(U16, FirstCode - 1)
        [] byte.ok /\ x = FourBytes -> Wide(U32, MaxU16)
        [] byte.ok /\ x = EightBytes -> Wide(U64, MaxU32)
        [] byte.ok /\ x = WholeId ->
             IF id.ok THEN Ok([tag |-> "Id", of |-> id.v], id.rest) ELSE Fail
        [] byte.ok /\ x \in FirstCode..(TwoBytes - 1) -> Fail

-----------------------------------------------------------------------------
(* How a type is put together. *)
Uint(w) == [k |-> "uint", w |-> w]
Bytes == [k |-> "bytes"]
ByteArray(n) == [k |-> "array", n |-> n]
VecOf(t) == [k |-> "vec", of |-> t]
Tuple(ts) == [k |-> "tuple", of |-> ts]
Unit == Tuple(<<>>)
Address == [k |-> "address"]

(* Fields with their types, in the order of encode, and their order in     *)
(* decode.                                                                 *)
Struct(encode, decode) == [k |-> "struct", enc |-> encode, dec |-> decode]

(* A variant's payload, the byte encode pushes, and decode's match.        *)
Enum(of, encode, decode) == [k |-> "enum", of |-> of, enc |-> encode, dec |-> decode]

(* Encode and decode of an enum both use `Kind as u8`. *)
Coded(of, codes) ==
  Enum(of, codes,
       [b \in {codes[x] : x \in DOMAIN codes} |-> CHOOSE x \in DOMAIN codes : codes[x] = b])

(* decl_module and impl_outer_dispatch: variants with a number each, in    *)
(* the order in which they are declared.  The match of decode takes the    *)
(* first that fits.                                                        *)
Table(rows) ==
  LET heads == {rows[i][1] : i \in DOMAIN rows}
      Row(x) == rows[CHOOSE i \in DOMAIN rows : rows[i][1] = x]
  IN  Enum([x \in heads |-> Row(x)[3]],
           [x \in heads |-> Row(x)[2]],
           [b \in {rows[i][2] : i \in DOMAIN rows} |->
              rows[CHOOSE i \in DOMAIN rows :
                     rows[i][2] = b /\ \A j \in 1..(i - 1) : rows[j][2] # b][1]])

Option(t) == Enum([None |-> Unit, Some |-> t], [None |-> 0, Some |-> 1],
                  (0 :> "None" @@ 1 :> "Some"))
Result(t, e) == Enum([Ok |-> t, Err |-> e], [Ok |-> 0, Err |-> 1], (0 :> "Ok" @@ 1 :> "Err"))
Box(t) == t

(* A byte other than 0 and 1 would make an invalid bool; inputs with such  *)
(* a byte are not among those of this module.                              *)
Bool == Enum([False |-> Unit, True |-> Unit], [False |-> 0, True |-> 1],
             (0 :> "False" @@ 1 :> "True"))

OptionBool == Enum([None |-> Unit, True |-> Unit, False |-> Unit],
                   [None |-> 0, True |-> 1, False |-> 2],
                   (0 :> "None" @@ 1 :> "True" @@ 2 :> "False"))

(* Mutant: the length of UncheckedExtrinsic counts its own bytes too. *)
LengthOfAll(body) == EncodeUint(U32, Len(body) + U32)

(* The length that UncheckedExtrinsic::encode writes in front. *)
Length(body) == EncodeUint(U32, Len(body))

(* UncheckedExtrinsic: decode reads the length and does not use it. *)
Unchecked(extrinsic, signature) ==
  [k |-> "unchecked", of |-> <<extrinsic, signature>>]

RECURSIVE Encode(_, _)
Encode(t, v) ==
  CASE t.k = "uint" -> EncodeUint(t.w, v)
    [] t.k = "bytes" -> EncodeSlice(v)
    [] t.k = "array" -> v
    [] t.k = "address" -> EncodeAddress(v)
    [] t.k = "vec" ->
         EncodeUint(U32, Len(v)) \o FlattenSeq([i \in DOMAIN v |-> Encode(t.of, v[i])])
    [] t.k = "tuple" -> FlattenSeq([i \in DOMAIN t.of |-> Encode(t.of[i], v[i])])
    [] t.k = "struct" ->
         FlattenSeq([i \in DOMAIN t.enc |-> Encode(t.enc[i][2], v[t.enc[i][1]])])
    [] t.k = "enum" -> <<t.enc[v.tag]>> \o Encode(t.of[v.tag], v.of)
    [] t.k = "unchecked" ->
         LET body == Encode(t.of[1], v[1]) \o Encode(t.of[2], v[2])
         IN  Length(body) \o body

RECURSIVE Decode(_, _)
RECURSIVE DecodeAll(_, _)
Decode(t, input) ==
  CASE t.k = "uint" -> DecodeUint(t.w, input)
    [] t.k = "bytes" -> DecodeBytes(input)
    [] t.k = "array" -> Read(t.n, input)
    [] t.k = "address" -> DecodeAddress(input)
    [] t.k = "vec" ->
         LET len == DecodeUint(U32, input)
         IN  IF ~len.ok THEN Fail
             ELSE IF len.v > Len(len.rest) THEN Fail   \* no element is empty
             ELSE DecodeAll([i \in 1..len.v |-> t.of], len.rest)
    [] t.k = "tuple" -> DecodeAll(t.of, input)
    [] t.k = "struct" ->
         LET Type(f) == t.enc[CHOOSE i \in DOMAIN t.enc : t.enc[i][1] = f][2]
             r == DecodeAll([i \in DOMAIN t.dec |-> Type(t.dec[i])], input)
         IN  IF r.ok
             THEN Ok([f \in {t.dec[i] : i \in DOMAIN t.dec} |->
                        r.v[CHOOSE i \in DOMAIN t.dec : t.dec[i] = f]], r.rest)
             ELSE Fail
    [] t.k = "enum" ->
         LET byte == Read(1, input)
         IN  IF ~byte.ok THEN Fail
             ELSE IF byte.v[1] \notin DOMAIN t.dec THEN Fail
             ELSE LET tag == t.dec[byte.v[1]]
                      r == Decode(t.of[tag], byte.rest)
                  IN  IF r.ok THEN Ok([tag |-> tag, of |-> r.v], r.rest) ELSE Fail
    [] t.k = "unchecked" ->
         LET length == DecodeUint(U32, input)
         IN  IF length.ok THEN DecodeAll(t.of, length.rest) ELSE Fail

DecodeAll(ts, input) ==
  IF ts = <<>> THEN Ok(<<>>, input)
  ELSE LET first == Decode(Head(ts), input)
       IN  IF ~first.ok THEN Fail
           ELSE LET others == DecodeAll(Tail(ts), first.rest)
                IN  IF others.ok THEN Ok(<<first.v>> \o others.v, others.rest) ELSE Fail

-----------------------------------------------------------------------------
(* The types that implement Slicable. *)
Hash == ByteArray(2)            \* also AccountId
AuthorityId == ByteArray(2)
H512 == ByteArray(3)            \* signatures
BlockNumber == Uint(U64)
Balance == Uint(U128)
Fn(name, code, params) == <<name, code, Tuple(params)>>

Extrinsic(address, call) ==
  Struct(<<<<"signed", address>>, <<"index", Uint(U32)>>, <<"function", call>>>>,
         <<"signed", "index", "function">>)

Digest(item) == Struct(<<<<"logs", VecOf(item)>>>>, <<"logs">>)

Header(item) ==
  Struct(<<<<"parent_hash", Hash>>, <<"number", BlockNumber>>, <<"state_root", Hash>>,
           <<"extrinsics_root", Hash>>, <<"digest", Digest(item)>>>>,
         <<"parent_hash", "number", "state_root", "extrinsics_root", "digest">>)

Block(header, extrinsic) ==
  Struct(<<<<"header", header>>, <<"extrinsics", VecOf(extrinsic)>>>>,
         <<"header", "extrinsics">>)

Justification ==
  Struct(<<<<"round_number", Uint(U32)>>, <<"hash", Hash>>,
           <<"signatures", VecOf(Tuple(<<AuthorityId, H512>>))>>>>,
         <<"round_number", "hash", "signatures">>)

SignedBlock(block) ==
  Struct(<<<<"block", block>>, <<"justification", Justification>>>>,
         <<"block", "justification">>)

Action(block) ==
  Coded([Propose |-> Tuple(<<Uint(U32), block>>), ProposeHeader |-> Tuple(<<Uint(U32), Hash>>),
         Prepare |-> Tuple(<<Uint(U32), Hash>>), Commit |-> Tuple(<<Uint(U32), Hash>>),
         AdvanceRound |-> Uint(U32)],
        [Propose |-> 1, ProposeHeader |-> 2, Prepare |-> 3, Commit |-> 4, AdvanceRound |-> 5])

Message(block) ==
  Struct(<<<<"parent", Hash>>, <<"action", Action(block)>>>>, <<"parent", "action">>)

MisbehaviorKind ==
  LET pair == Tuple(<<Hash, H512>>)
  IN  Enum([BftDoublePrepare |-> Tuple(<<Uint(U32), pair, pair>>),
            BftDoubleCommit |-> Tuple(<<Uint(U32), pair, pair>>)],
           [BftDoublePrepare |-> 17, BftDoubleCommit |-> 18],
           (17 :> "BftDoublePrepare" @@ 18 :> "BftDoubleCommit"))

MisbehaviorReport ==
  Struct(<<<<"parent_hash", Hash>>, <<"parent_number", BlockNumber>>,
           <<"target", AuthorityId>>, <<"misbehavior", MisbehaviorKind>>>>,
         <<"parent_hash", "parent_number", "target", "misbehavior">>)

ApplyOutcome == Coded([Success |-> Unit, Fail |-> Unit], [Success |-> 0, Fail |-> 1])

ApplyError ==
  Coded([BadSignature |-> Unit, Stale |-> Unit, Future |-> Unit, CantPay |-> Unit],
        [BadSignature |-> 0, Stale |-> 1, Future |-> 2, CantPay |-> 3])

(* MaybeUnsigned<Ed25519Signature>. *)
Ed25519Signature == H512
MaybeUnsigned(t) == t

(* Polkadot's own. *)
Id == Uint(U32)
Log == Bytes
Activity == Bytes

Chain == Enum([Relay |-> Unit, Parachain |-> Id], [Relay |-> 0, Parachain |-> 1],
              (0 :> "Relay" @@ 1 :> "Parachain"))

DutyRoster ==
  Struct(<<<<"validator_duty", VecOf(Chain)>>, <<"guarantor_duty", VecOf(Chain)>>>>,
         <<"validator_duty", "guarantor_duty">>)

CandidateReceipt ==
  Struct(<<<<"parachain_index", Id>>, <<"collator", Hash>>, <<"head_data", Bytes>>,
           <<"balance_uploads", VecOf(Tuple(<<Hash, Uint(U64)>>))>>,
           <<"egress_queue_roots", VecOf(Tuple(<<Id, Hash>>))>>, <<"fees", Uint(U64)>>>>,
         <<"parachain_index", "collator", "head_data", "balance_uploads",
           "egress_queue_roots", "fees">>)

Statement ==
  Coded([Candidate |-> CandidateReceipt, Valid |-> Hash, Invalid |-> Hash, Available |-> Hash],
        [Candidate |-> 1, Valid |-> 2, Invalid |-> 3, Available |-> 4])

ValidationParams ==
  Struct(<<<<"block_data", Bytes>>, <<"parent_head", Bytes>>>>, <<"block_data", "parent_head">>)

ValidationResult == Struct(<<<<"head_data", Bytes>>>>, <<"head_data">>)

RuntimeVersion ==
  Struct(<<<<"spec_name", Bytes>>, <<"impl_name", Bytes>>, <<"authoring_version", Uint(U32)>>,
           <<"spec_version", Uint(U32)>>, <<"impl_version", Uint(U32)>>>>,
         <<"spec_name", "impl_name", "authoring_version", "spec_version", "impl_version">>)

(* The journals of substrate/state-db. *)
PruningJournal ==
  Struct(<<<<"hash", Hash>>, <<"inserted", VecOf(Hash)>>, <<"deleted", VecOf(Hash)>>>>,
         <<"hash", "inserted", "deleted">>)

UnfinalizedJournal ==
  Struct(<<<<"hash", Hash>>, <<"parent_hash", Hash>>,
           <<"inserted", VecOf(Tuple(<<Hash, Bytes>>))>>, <<"deleted", VecOf(Hash)>>>>,
         <<"hash", "parent_hash", "inserted", "deleted">>)

VoteThreshold ==
  Enum([SuperMajorityApprove |-> Unit, SuperMajorityAgainst |-> Unit, SimpleMajority |-> Unit],
       [SuperMajorityApprove |-> 0, SuperMajorityAgainst |-> 1, SimpleMajority |-> 2],
       (0 :> "SuperMajorityApprove" @@ 1 :> "SuperMajorityAgainst" @@ 2 :> "SimpleMajority"))

(* What passes between the runtime and its sandbox. *)
HostError == Unit

TypedValue ==
  Coded([I32 |-> Uint(U32), I64 |-> Uint(U64), F32 |-> Uint(U32), F64 |-> Uint(U64)],
        [I32 |-> 1, I64 |-> 2, F32 |-> 3, F64 |-> 4])

ReturnValue ==
  Enum([Unit |-> Unit, Value |-> TypedValue], [Unit |-> 0, Value |-> 1],
       (0 :> "Unit" @@ 1 :> "Value"))

ExternEntity ==
  Coded([Function |-> Uint(U32), Memory |-> Uint(U32)], [Function |-> 1, Memory |-> 2])

Entry ==
  Struct(<<<<"module_name", Bytes>>, <<"field_name", Bytes>>, <<"entity", ExternEntity>>>>,
         <<"module_name", "field_name", "entity">>)

EnvironmentDefinition == Struct(<<<<"entries", VecOf(Entry)>>>>, <<"entries">>)

-----------------------------------------------------------------------------
(* The calls of the runtime's modules (decl_module), first the ones that   *)
(* only a referendum or the council makes.                                 *)
ConsensusPrivCall ==
  Table(<<Fn("set_code", 0, <<Bytes>>),
          Fn("set_storage", 1, <<VecOf(Tuple(<<Bytes, Bytes>>))>>)>>)

SessionPrivCall ==
  Table(<<Fn("set_length", 0, <<BlockNumber>>), Fn("force_new_session", 1, <<Bool>>)>>)

StakingPrivCall ==
  Table(<<Fn("set_sessions_per_era", 0, <<BlockNumber>>),
          Fn("set_bonding_duration", 1, <<BlockNumber>>),
          Fn("set_validator_count", 2, <<Uint(U32)>>), Fn("force_new_era", 3, <<>>)>>)

(* Its proposal is itself one of these calls. *)
DemocracyPrivCall(proposal) ==
  Table(<<Fn("start_referendum", 0, <<Box(proposal), VoteThreshold>>),
          Fn("cancel_referendum", 1, <<Uint(U32)>>)>>)

CouncilPrivCall ==
  Table(<<Fn("set_desired_seats", 0, <<Uint(U32)>>), Fn("remove_member", 1, <<Address>>),
          Fn("set_presentation_duration", 2, <<BlockNumber>>),
          Fn("set_term_duration", 3, <<BlockNumber>>)>>)

CouncilVotingPrivCall ==
  Table(<<Fn("set_cooloff_period", 0, <<BlockNumber>>),
          Fn("set_voting_period", 1, <<BlockNumber>>)>>)

(* The outer PrivCall, whose proposals nest to the given depth.  At the    *)
(* bottom a proposal is one of staking's.                                  *)
RECURSIVE PrivCall(_)
PrivCall(depth) ==
  LET proposal == IF depth = 0 THEN Table(<<<<"Staking", 2, StakingPrivCall>>>>)
                               ELSE PrivCall(depth - 1)
  IN  Table(<<<<"Consensus", 0, ConsensusPrivCall>>, <<"Session", 1, SessionPrivCall>>,
              <<"Staking", 2, StakingPrivCall>>, <<"Democracy", 5, DemocracyPrivCall(proposal)>>,
              <<"Council", 6, CouncilPrivCall>>, <<"CouncilVoting", 7, CouncilVotingPrivCall>>>>)

ConsensusCall == Table(<<Fn("report_misbehavior", 0, <<MisbehaviorReport>>)>>)

SessionCall == Table(<<Fn("set_key", 0, <<AuthorityId>>)>>)

StakingCall ==
  Table(<<Fn("transfer", 0, <<Address, Balance>>), Fn("stake", 1, <<>>),
          Fn("unstake", 2, <<Uint(U32)>>), Fn("nominate", 3, <<Address>>),
          Fn("unnominate", 4, <<Uint(U32)>>)>>)

TimestampCall == Table(<<Fn("set", 0, <<Uint(U64)>>)>>)

DemocracyCall ==
  Table(<<Fn("propose", 0, <<Box(PrivCall(0)), Balance>>), Fn("second", 1, <<Uint(U32)>>),
          Fn("vote", 2, <<Uint(U32), Bool>>)>>)

CouncilCall ==
  Table(<<Fn("set_approvals", 0, <<VecOf(Bool), Uint(U32)>>),
          Fn("reap_inactive_voter", 1, <<Uint(U32), Address, Uint(U32), Uint(U32)>>),
          Fn("retract_voter", 2, <<Uint(U32)>>), Fn("submit_candidacy", 3, <<Uint(U32)>>),
          Fn("present_winner", 4, <<Address, Balance, Uint(U32)>>)>>)

CouncilVotingCall ==
  Table(<<Fn("propose", 0, <<Box(PrivCall(0))>>), Fn("vote", 1, <<Hash, Bool>>),
          Fn("veto", 2, <<Hash>>)>>)

ParachainsCall == Table(<<Fn("set_heads", 0, <<VecOf(CandidateReceipt)>>)>>)

Call ==
  Table(<<<<"Consensus", 0, ConsensusCall>>, <<"Session", 1, SessionCall>>,
          <<"Staking", 2, StakingCall>>, <<"Timestamp", 3, TimestampCall>>,
          <<"Democracy", 5, DemocracyCall>>, <<"Council", 6, CouncilCall>>,
          <<"CouncilVoting", 7, CouncilVotingCall>>, <<"Parachains", 8, ParachainsCall>>>>)

(* A block as the runtime reads it, and as the rest of the node does, for  *)
(* which an extrinsic is a Vec<u8>.                                        *)
RuntimeExtrinsic == Unchecked(Extrinsic(Address, Call), MaybeUnsigned(Ed25519Signature))
RuntimeBlock == Block(Header(Log), RuntimeExtrinsic)
PrimitiveBlock == Block(Header(Log), Bytes)

Types ==
  [Address |-> Address, OptionBool |-> OptionBool, Option |-> Option(Bytes),
   BareExtrinsic |-> Extrinsic(Hash, Call), RuntimeBlock |-> RuntimeBlock,
   SignedBlock |-> SignedBlock(PrimitiveBlock), Message |-> Message(PrimitiveBlock),
   ApplyResult |-> Result(ApplyOutcome, ApplyError), Activity |-> Activity,
   DutyRoster |-> DutyRoster, Statement |-> Statement, Nested |-> PrivCall(1),
   ValidationParams |-> ValidationParams, ValidationResult |-> ValidationResult,
   RuntimeVersion |-> RuntimeVersion, PruningJournal |-> PruningJournal,
   UnfinalizedJournal |-> UnfinalizedJournal,
   HostResult |-> Result(ReturnValue, HostError), TypedValues |-> VecOf(TypedValue),
   EnvironmentDefinition |-> EnvironmentDefinition]

(* The types whose decode uses all it reads, and reads no bool. *)
Exact == {"Address", "OptionBool", "Option", "ApplyResult", "DutyRoster", "Statement",
          "HostResult", "TypedValues", "ValidationParams"}

-----------------------------------------------------------------------------
(* Values of each type, as a sequence: both ends of every integer, the     *)
(* ends of every form of an address, every variant of an enum, every field *)
(* with the others at their first value, vectors of up to two elements.    *)
Indices == <<0, FirstCode - 1, FirstCode, MaxU16, MaxU16 + 1, MaxU32, MaxU32 + 1,
             Base^U64 - 1>>

RECURSIVE Samples(_)
Samples(t) ==
  LET Vary(ts) ==
        LET all == <<>> \o [i \in DOMAIN ts |-> Samples(ts[i])]
            first == <<>> \o [i \in DOMAIN ts |-> all[i][1]]
        IN  <<first>> \o FlattenSeq([i \in DOMAIN ts |->
              [j \in 1..(Len(all[i]) - 1) |->
                 SubSeq(first, 1, i - 1) \o <<all[i][j + 1]>> \o SubSeq(first, i + 1, Len(ts))]])
      Fields(vs) == [f \in {t.enc[i][1] : i \in DOMAIN t.enc} |->
                       vs[CHOOSE i \in DOMAIN t.enc : t.enc[i][1] = f]]
  IN  CASE t.k = "uint" -> <<0, 1, Base^t.w - 1>>
        [] t.k = "bytes" -> <<<<>>, <<1, 2>>>>
        [] t.k = "array" -> <<[i \in 1..t.n |-> 0], [i \in 1..t.n |-> i]>>
        [] t.k = "address" ->
             <<[tag |-> "Id", of |-> <<1, 2>>]>> \o
             [i \in DOMAIN Indices |-> [tag |-> "Index", of |-> Indices[i]]]
        [] t.k = "vec" ->
             LET xs == Samples(t.of)
             IN  <<<<>>>> \o [i \in DOMAIN xs |-> <<xs[i]>>]
                          \o [i \in DOMAIN xs |-> <<xs[i], xs[Len(xs)]>>]
        [] t.k \in {"tuple", "unchecked"} -> Vary(t.of)
        [] t.k = "struct" ->
             LET vs == Vary([i \in DOMAIN t.enc |-> t.enc[i][2]])
             IN  <<>> \o [i \in DOMAIN vs |-> Fields(vs[i])]
        [] t.k = "enum" ->
             FoldSet(LAMBDA tag, acc :
                       LET xs == Samples(t.of[tag])
                       IN  acc \o [i \in DOMAIN xs |-> [tag |-> tag, of |-> xs[i]]],
                     <<>>, DOMAIN t.of)

Fresh == [name |-> "raw", v |-> <<>>, wire |-> <<>>, more |-> <<>>]

Init == c = Fresh

(* A value is encoded. *)
Sent(name) ==
  /\ c.name = "raw" /\ c.wire = <<>>
  /\ LET t == Types[name]
         values == Samples(t)
     IN  \E i \in DOMAIN values :
           c' = [name |-> name, v |-> values[i], wire |-> Encode(t, values[i]),
                 more |-> <<>>]

(* What else is in the same buffer. *)
Followed(b) ==
  /\ c.name # "raw" /\ c.more = <<>>
  /\ c' = [c EXCEPT !.wire = Append(@, b), !.more = <<b>>]

(* Bytes that come from elsewhere. *)
Raw(b) ==
  /\ c.name = "raw" /\ Len(c.wire) < MaxRaw
  /\ c' = [c EXCEPT !.wire = Append(@, b)]

Again == (c.name # "raw" \/ c.wire # <<>>) /\ c' = Fresh

Next ==
  \/ \E name \in DOMAIN Types : Sent(name)
  \/ \E b \in Follows : Followed(b)
  \/ \E b \in RawBytes : Raw(b)
  \/ Again

Spec == Init /\ [][Next]_c

-----------------------------------------------------------------------------
(* A value is read back from its encoding whatever follows it, exactly its *)
(* own bytes are consumed, and no part of it passes for a whole value:     *)
(* encode and decode of every Slicable type, the calls of the runtime with *)
(* their numbers included.                                                 *)
SelfDelimiting ==
  c.name # "raw" =>
    LET t == Types[c.name]
    IN  /\ Decode(t, c.wire) = Ok(c.v, c.more)
        /\ c.more = <<>> => \A n \in 0..(Len(c.wire) - 1) : ~Decode(t, SubSeq(c.wire, 1, n)).ok

(* The node, which takes extrinsics for byte vectors, reads every block of *)
(* the runtime, cuts it into the same extrinsics, and writes back the same *)
(* bytes (the length prefix of UncheckedExtrinsic).                        *)
OpaqueExtrinsics ==
  c.name = "RuntimeBlock" =>
    LET r == Decode(PrimitiveBlock, c.wire)
    IN  /\ r.ok /\ r.rest = c.more
        /\ Len(r.v.extrinsics) = Len(c.v.extrinsics)
        /\ Encode(PrimitiveBlock, r.v) \o c.more = c.wire

(* Whatever bytes are decoded, encoding the result gives the same bytes:   *)
(* a value has one encoding, and so one hash and one storage key (the      *)
(* ranges of need_more_than, the tags of the enums).                       *)
OneEncoding ==
  c.name = "raw" =>
    LET types == Types
    IN  \A name \in Exact :
          LET r == Decode(types[name], c.wire)
          IN  r.ok => Encode(types[name], r.v) \o r.rest = c.wire

(* What is written is read back, nothing else is, and both the node and    *)
(* the runtime read the same.                                              *)
CodecSound == SelfDelimiting /\ OpaqueExtrinsics /\ OneEncoding
=============================================================================
