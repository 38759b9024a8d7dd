------------------------- MODULE SharedTableProofs -------------------------
(***************************************************************************)
(* Proofs about SharedTable, for any number of authorities, candidates,    *)
(* statements and trackers.                                                *)
(***************************************************************************)
EXTENDS SharedTable, FiniteSetTheorems, WellFoundedInduction, TLAPS

Traces == {Trace(s) : s \in Statements}

Tables ==
  [proposal : [Authorities -> Candidates \cup {None}],
   known : [Authorities -> SUBSET Traces],
   misbehavior : [Authorities -> Misbehavior \cup {None}],
   votes : [Candidates -> CandidateData \cup {None}],
   includable : [Groups -> Nat]]

Trackers ==
  [tracking : UNION {[S -> BOOLEAN] : S \in SUBSET Candidates},
   count : Nat, live : BOOLEAN]

(* Whether a statement is among the votes on its candidate. *)
Holds(data, s) ==
  /\ data # None
  /\ IF s.kind = "Available" THEN s.sender \in data.availability
     ELSE /\ s.sender \in DOMAIN data.validity
          /\ data.validity[s.sender] = IF s.kind = "Candidate" THEN "Issued" ELSE s.kind

Held(tb, s) == Holds(tb.votes[s.digest], s)

-----------------------------------------------------------------------------
(* The inductive invariant. *)

Types ==
  /\ table \in Tables
  /\ trackers \in Seq(Trackers)
  /\ heard \subseteq Statements /\ timely \subseteq heard
  /\ sent \in [Authorities -> SUBSET Statements]
  /\ started \in [Candidates -> [validity : Nat, availability : Nat]]
  /\ checked_validity \subseteq Candidates /\ checked_availability \subseteq Candidates

(* The candidates of a group that can be included. *)
Includable(tb, g) == {d \in Candidates : GroupOf[d] = g /\ CandidateIncludable(tb, d)}

Counts(tb) == \A g \in Groups : tb.includable[g] = Cardinality(Includable(tb, g))

(* What a tracker that waits keeps of its candidates. *)
Waits(tr, tb) ==
  /\ \A d \in DOMAIN tr.tracking : tr.tracking[d] = CandidateIncludable(tb, d)
  /\ tr.count = Cardinality({d \in DOMAIN tr.tracking : tr.tracking[d]})
  /\ tr.count # Cardinality(DOMAIN tr.tracking)

TrackersInv == \A i \in DOMAIN trackers : trackers[i].live => Waits(trackers[i], table)

(* Every candidate that is known was issued by somebody. *)
Issued(tb) ==
  \A d \in Candidates : tb.votes[d] # None =>
    \E a \in Authorities : Held(tb, Statement("Candidate", d, a))

Proposed(tb) ==
  \A a \in Authorities : tb.proposal[a] # None => tb.votes[tb.proposal[a]] # None

(* The table holds the statements that were heard. *)
Truthful(tb, H, T) ==
  /\ \A a \in Authorities : tb.proposal[a] # None =>
       Statement("Candidate", tb.proposal[a], a) \in H
  /\ \A s \in Statements : Held(tb, s) => s \in T /\ Authorized(s)
  /\ \A s \in T : Authorized(s) /\ tb.misbehavior[s.sender] = None => Held(tb, s)

(* A report of an authority holds. *)
Proves(m, a, H) ==
  /\ m.proof \subseteq H
  /\ \A s \in m.proof : s.sender = a
  /\ Cardinality(m.proof) = 2 \/ \A s \in m.proof : ~Authorized(s)

Reported(tb, H) ==
  \A a \in Authorities : tb.misbehavior[a] # None => Proves(tb.misbehavior[a], a, H)

ChecksInv ==
  \A d \in Candidates :
    /\ started[d].validity = IF d \in checked_validity THEN 1 ELSE 0
    /\ started[d].availability = IF d \in checked_availability THEN 1 ELSE 0
    /\ d \in checked_validity => IsMember(d)
    /\ d \in checked_availability => IsGuarantor(d)

Inv ==
  /\ Types /\ Counts(table) /\ TrackersInv
  /\ Issued(table) /\ Proposed(table) /\ Truthful(table, heard, timely) /\ Reported(table, heard)
  /\ CandidateBeforeVotes /\ ChecksInv

-----------------------------------------------------------------------------
(* What the import of a statement does to a table. *)

VoteOf(s) == IF s.kind = "Candidate" THEN "Issued" ELSE s.kind

Still(tb, t2) == t2.votes = tb.votes /\ t2.includable = tb.includable

(* The vote is counted, and the candidate with it. *)
Takes(tb, t2, s) ==
  /\ \A e \in Candidates \ {s.digest} : t2.votes[e] = tb.votes[e]
  /\ t2.votes[s.digest] # None
  /\ tb.votes[s.digest] = None => s.kind = "Candidate"
  /\ \A x \in Statements : x.digest = s.digest => (Held(t2, x) <=> Held(tb, x) \/ x = s)
  /\ t2.includable = [tb.includable EXCEPT ![GroupOf[s.digest]] =
       UpdateIncludableCount(@, CandidateIncludable(tb, s.digest), CandidateIncludable(t2, s.digest))]

(* The misbehavior is without authority, or a contradiction to a vote or a *)
(* proposal before.                                                        *)
Accuses(m, tb, s) ==
  \/ m.proof = {s} /\ ~Authorized(s)
  \/ \E x \in Statements :
       /\ m.proof = {x, s} /\ x # s /\ x.sender = s.sender
       /\ \/ Held(tb, x) /\ x.digest = s.digest
          \/ x = Statement("Candidate", tb.proposal[s.sender], s.sender)

Effect(tb, s, r) ==
  /\ r.tb \in Tables /\ r.tb.known = tb.known /\ r.tb.misbehavior = tb.misbehavior
  /\ \/ r.tb.proposal = tb.proposal
     \/ /\ s.kind = "Candidate" /\ r.tb.votes[s.digest] # None
        /\ r.tb.proposal = [tb.proposal EXCEPT ![s.sender] = s.digest]
  /\ \/ /\ r.summary = None /\ r.misbehavior = None /\ Still(tb, r.tb)
        /\ Held(tb, s) \/ (s.kind # "Candidate" /\ tb.votes[s.digest] = None)
     \/ /\ r.summary = None /\ r.misbehavior \in Misbehavior /\ Still(tb, r.tb)
        /\ Accuses(r.misbehavior, tb, s)
     \/ /\ r.summary = s.digest /\ r.misbehavior = None
        /\ Authorized(s) /\ Takes(tb, r.tb, s)

(* Storing the data of a candidate changes its votes and its count. *)
LEMMA Stores ==
  ASSUME NEW tb \in Tables, NEW d \in Candidates, NEW data \in CandidateData,
         tb.votes[d] # None
  PROVE  LET t2 == Store(tb, d, data)
         IN  /\ t2 \in Tables
             /\ t2.proposal = tb.proposal /\ t2.known = tb.known
             /\ t2.misbehavior = tb.misbehavior
             /\ t2.votes = [tb.votes EXCEPT ![d] = data]
             /\ t2.includable = [tb.includable EXCEPT ![GroupOf[d]] =
                  UpdateIncludableCount(@, CandidateIncludable(tb, d), CandidateIncludable(t2, d))]
<1> DEFINE g == GroupOf[d]
           n == UpdateIncludableCount(tb.includable[g], CanBeIncluded(tb.votes[d], g), CanBeIncluded(data, g))
           t2 == Store(tb, d, data)
<1>1. t2 = [tb EXCEPT !.votes = [tb.votes EXCEPT ![d] = data],
                      !.includable = [tb.includable EXCEPT ![g] = n]]
  BY DEF Store, Tables
<1>2. g \in Groups /\ tb.includable[g] \in Nat
  BY CandidatesAssumption DEF Tables
<1>3. n \in Nat
  BY <1>2 DEF UpdateIncludableCount
<1> HIDE DEF t2, n, g
<1>4. /\ t2.proposal = tb.proposal /\ t2.known = tb.known /\ t2.misbehavior = tb.misbehavior
      /\ t2.votes = [tb.votes EXCEPT ![d] = data]
      /\ t2.includable = [tb.includable EXCEPT ![g] = n]
  BY <1>1 DEF Tables
<1>5. /\ t2.votes \in [Candidates -> CandidateData \cup {None}]
      /\ t2.includable \in [Groups -> Nat]
  BY <1>2, <1>3, <1>4 DEF Tables
<1>6. t2 \in Tables
  BY <1>1, <1>4, <1>5, Zenon DEF Tables
<1>7. t2.votes[d] = data /\ data # None
  BY <1>4, OptionAssumption DEF Tables
<1>8. n = UpdateIncludableCount(tb.includable[g], CandidateIncludable(tb, d), CandidateIncludable(t2, d))
  <2>1. CandidateIncludable(tb, d) = CanBeIncluded(tb.votes[d], g)
    BY Zenon DEF g, CandidateIncludable, CanBeIncluded
  <2>2. CandidateIncludable(t2, d) = CanBeIncluded(data, g)
    BY <1>7 DEF g, CandidateIncludable, CanBeIncluded
  <2> QED
    BY <2>1, <2>2 DEF n
<1> QED
  BY <1>4, <1>6, <1>8 DEF t2, g

(* A vote on validity is counted, repeats one or contradicts one. *)
LEMMA ValidityVoteEffect ==
  ASSUME NEW tb \in Tables, NEW s \in Statements, s.kind # "Available",
         s.kind = "Candidate" => tb.votes[s.digest] # None /\ Authorized(s)
  PROVE  Effect(tb, s, ValidityVote(tb, s.sender, s.digest, VoteOf(s)))
<1> DEFINE d == s.digest
           a == s.sender
           vote == VoteOf(s)
           data == tb.votes[d]
           r == ValidityVote(tb, a, d, vote)
           cast == [b \in DOMAIN data.validity \cup {a} |->
                      IF b = a THEN vote ELSE data.validity[b]]
           new == [data EXCEPT !.validity = cast,
                               !.bad = IF vote = "Invalid" THEN @ \cup {a} ELSE @]
<1>1. /\ d \in Candidates /\ a \in Authorities /\ s.kind \in Kinds
      /\ vote \in {"Issued", "Valid", "Invalid"}
      /\ data \in CandidateData \cup {None}
      /\ s = Statement(s.kind, d, a)
  BY DEF Statements, Tables, VoteOf, Kinds, Statement
<1>2. Authorized(s) <=> a \in Members[GroupOf[d]]
  BY DEF Authorized
<1>3. CASE data = None
  <2>1. r = Result(tb, None, None)
    BY <1>3 DEF ValidityVote
  <2> QED
    BY <1>3, <2>1 DEF Effect, Result, Still
<1>4. CASE data # None /\ a \notin Members[GroupOf[d]]
  <2>1. r = Result(tb, None, Unauthorized(Statement(vote, d, a)))
    BY <1>4 DEF ValidityVote
  <2>2. Statement(vote, d, a) = s
    BY <1>1, <1>2, <1>4 DEF VoteOf
  <2>3. Unauthorized(s) \in Misbehavior /\ Unauthorized(s).proof = {s}
    BY DEF Unauthorized, Misbehavior
  <2> QED
    BY <1>2, <1>4, <2>1, <2>2, <2>3 DEF Effect, Result, Still, Accuses
<1>5. CASE data # None /\ a \in Members[GroupOf[d]] /\ a \in DOMAIN data.validity
  <2>1. CASE data.validity[a] = vote
    <3>1. r = Result(tb, None, None)
      BY <1>5, <2>1 DEF ValidityVote
    <3>2. Held(tb, s)
      BY <1>5, <2>1 DEF Held, Holds, VoteOf
    <3> QED
      BY <3>1, <3>2 DEF Effect, Result, Still
  <2>2. CASE data.validity[a] # vote
    <3> DEFINE old == data.validity[a]
               x == Statement(IF old = "Issued" THEN "Candidate" ELSE old, d, a)
               m == DoubleVote(a, d, old, vote)
    <3>1. r = Result(tb, None, m)
      BY <1>5, <2>2 DEF ValidityVote
    <3>2. old \in {"Issued", "Valid", "Invalid"}
      BY <1>1, <1>5 DEF CandidateData
    <3>3. x \in Statements /\ x.digest = d /\ x.sender = a
      BY <1>1, <3>2 DEF Statements, Statement, Kinds
    <3>4. s = Statement(IF vote = "Issued" THEN "Candidate" ELSE vote, d, a)
      BY <1>1 DEF VoteOf, Kinds
    <3>5. x # s
      BY <1>1, <2>2, <3>2, <3>4 DEF Statement
    <3>6. m.proof = {x, s} /\ m \in Misbehavior
      BY <3>3, <3>4, ZenonT(40) DEF DoubleVote, Misbehavior
    <3>7. Held(tb, x)
      BY <1>5, <3>2, <3>3 DEF Held, Holds, Statement
    <3> HIDE DEF x, m
    <3>8. Accuses(m, tb, s)
      BY <3>3, <3>5, <3>6, <3>7 DEF Accuses
    <3>9. r.tb = tb /\ r.summary = None /\ r.misbehavior = m
      BY <3>1 DEF Result
    <3> QED
      BY <3>6, <3>8, <3>9 DEF Effect, Still
  <2> QED
    BY <2>1, <2>2
<1>6. CASE data # None /\ a \in Members[GroupOf[d]] /\ a \notin DOMAIN data.validity
  <2>1. r = Result(Store(tb, d, new), d, None)
    BY <1>6 DEF ValidityVote
  <2>2. /\ data \in CandidateData /\ DOMAIN data.validity \in SUBSET Authorities
        /\ data.validity \in [DOMAIN data.validity -> {"Issued", "Valid", "Invalid"}]
    BY <1>1, <1>6 DEF CandidateData
  <2>3. cast \in [DOMAIN data.validity \cup {a} -> {"Issued", "Valid", "Invalid"}]
    BY <1>1, <2>2
  <2>4. /\ new \in CandidateData /\ new.validity = cast /\ new.availability = data.availability
    <3>1. cast \in UNION {[S -> {"Issued", "Valid", "Invalid"}] : S \in SUBSET Authorities}
      BY <1>1, <2>2, <2>3
    <3> HIDE DEF cast
    <3> QED
      BY <1>1, <2>2, <3>1 DEF CandidateData
  <2> HIDE DEF new
  <2>5. ASSUME NEW x \in Statements, x.digest = d
        PROVE  Holds(new, x) <=> Holds(data, x) \/ x = s
    <3>1. x = Statement(x.kind, d, x.sender) /\ x.kind \in Kinds
      BY <2>5 DEF Statements, Statement
    <3>2. CASE x.kind = "Available"
      BY <3>2, <2>4, <1>6, <2>2, OptionAssumption DEF Holds
    <3>3. CASE x.kind # "Available" /\ x.sender # a
      BY <3>3, <2>4, <1>6, <2>2, OptionAssumption DEF Holds
    <3>4. CASE x.kind # "Available" /\ x.sender = a
      <4>1. Holds(new, x) <=> VoteOf(x) = vote
        BY <3>4, <2>4, OptionAssumption DEF Holds, VoteOf
      <4>2. VoteOf(x) = vote <=> x.kind = s.kind
        BY <1>1, <3>1, <3>4 DEF VoteOf, Kinds
      <4>3. x.kind = s.kind <=> x = s
        BY <1>1, <3>1, <3>4
      <4>4. ~Holds(data, x)
        BY <1>6, <3>4 DEF Holds
      <4> QED
        BY <4>1, <4>2, <4>3, <4>4
    <3> QED
      BY <3>2, <3>3, <3>4
  <2> DEFINE t2 == Store(tb, d, new)
  <2>6. /\ t2 \in Tables
        /\ t2.proposal = tb.proposal /\ t2.known = tb.known
        /\ t2.misbehavior = tb.misbehavior
        /\ t2.votes = [tb.votes EXCEPT ![d] = new]
        /\ t2.includable = [tb.includable EXCEPT ![GroupOf[d]] =
             UpdateIncludableCount(@, CandidateIncludable(tb, d), CandidateIncludable(t2, d))]
    BY <1>1, <1>6, <2>4, Stores
  <2> HIDE DEF t2
  <2>7. t2.votes[d] = new /\ new # None /\ \A e \in Candidates \ {d} : t2.votes[e] = tb.votes[e]
    BY <1>1, <2>4, <2>6, OptionAssumption DEF Tables
  <2>8. Takes(tb, t2, s)
    BY <1>6, <2>5, <2>6, <2>7 DEF Takes, Held
  <2>9. r.tb = t2 /\ r.summary = d /\ r.misbehavior = None
    BY <2>1 DEF Result, t2
  <2> QED
    BY <1>2, <1>6, <2>6, <2>8, <2>9 DEF Effect
<1> QED
  BY <1>3, <1>4, <1>5, <1>6

(* A vote on availability is counted, if its sender may cast it. *)
LEMMA AvailabilityVoteEffect ==
  ASSUME NEW tb \in Tables, NEW s \in Statements, s.kind = "Available"
  PROVE  Effect(tb, s, AvailabilityVote(tb, s.sender, s.digest))
<1> DEFINE d == s.digest
           a == s.sender
           data == tb.votes[d]
           r == AvailabilityVote(tb, a, d)
           new == [data EXCEPT !.availability = @ \cup {a}]
<1>1. /\ d \in Candidates /\ a \in Authorities
      /\ data \in CandidateData \cup {None}
      /\ s = Statement("Available", d, a)
  BY DEF Statements, Tables, Statement
<1>2. Authorized(s) <=> a \in Guarantors[GroupOf[d]]
  BY DEF Authorized
<1>3. CASE data = None
  <2>1. r = Result(tb, None, None)
    BY <1>3 DEF AvailabilityVote
  <2> QED
    BY <1>3, <2>1 DEF Effect, Result, Still
<1>4. CASE data # None /\ a \notin Guarantors[GroupOf[d]]
  <2>1. r = Result(tb, None, Unauthorized(s))
    BY <1>1, <1>4 DEF AvailabilityVote
  <2>2. Unauthorized(s) \in Misbehavior /\ Unauthorized(s).proof = {s}
    BY DEF Unauthorized, Misbehavior
  <2> QED
    BY <1>2, <1>4, <2>1, <2>2 DEF Effect, Result, Still, Accuses
<1>5. CASE data # None /\ a \in Guarantors[GroupOf[d]]
  <2>1. r = Result(Store(tb, d, new), d, None)
    BY <1>5 DEF AvailabilityVote
  <2>2. /\ data \in CandidateData /\ new \in CandidateData
        /\ new.validity = data.validity /\ new.availability = data.availability \cup {a}
    BY <1>1, <1>5 DEF CandidateData
  <2> HIDE DEF new
  <2>3. ASSUME NEW x \in Statements, x.digest = d
        PROVE  Holds(new, x) <=> Holds(data, x) \/ x = s
    <3>1. x = Statement(x.kind, d, x.sender)
      BY <2>3 DEF Statements, Statement
    <3>2. CASE x.kind = "Available"
      <4>1. x = s <=> x.sender = a
        BY <1>1, <3>1, <3>2
      <4> QED
        BY <3>2, <4>1, <1>5, <2>2, OptionAssumption DEF Holds
    <3>3. CASE x.kind # "Available"
      <4>1. x # s
        BY <3>3
      <4> QED
        BY <3>3, <4>1, <1>5, <2>2, OptionAssumption DEF Holds
    <3> QED
      BY <3>2, <3>3
  <2> DEFINE t2 == Store(tb, d, new)
  <2>4. /\ t2 \in Tables
        /\ t2.proposal = tb.proposal /\ t2.known = tb.known
        /\ t2.misbehavior = tb.misbehavior
        /\ t2.votes = [tb.votes EXCEPT ![d] = new]
        /\ t2.includable = [tb.includable EXCEPT ![GroupOf[d]] =
             UpdateIncludableCount(@, CandidateIncludable(tb, d), CandidateIncludable(t2, d))]
    BY <1>1, <1>5, <2>2, Stores
  <2> HIDE DEF t2
  <2>5. t2.votes[d] = new /\ new # None /\ \A e \in Candidates \ {d} : t2.votes[e] = tb.votes[e]
    BY <1>1, <2>2, <2>4, OptionAssumption DEF Tables
  <2>6. Takes(tb, t2, s)
    BY <1>5, <2>3, <2>4, <2>5 DEF Takes, Held
  <2>7. r.tb = t2 /\ r.summary = d /\ r.misbehavior = None
    BY <2>1 DEF Result, t2
  <2> QED
    BY <1>2, <1>5, <2>4, <2>6, <2>7 DEF Effect
<1> QED
  BY <1>3, <1>4, <1>5

(* A candidate that nobody voted on cannot be included. *)
LEMMA NotYetIncludable ==
  ASSUME NEW d \in Candidates, NEW a \in Members[GroupOf[d]]
  PROVE  ~CanBeIncluded(NewCandidateData, GroupOf[d]) /\ NewCandidateData \in CandidateData
<1>1. DOMAIN NewCandidateData.validity = {}
  BY DEF NewCandidateData
<1>2. NeededValidity[GroupOf[d]] \in Nat \ {0}
  BY CandidatesAssumption, NeededAssumption
<1>3. Cardinality({}) = 0
  BY FS_EmptySet
<1>4. ~CanBeIncluded(NewCandidateData, GroupOf[d])
  BY <1>1, <1>2, <1>3 DEF CanBeIncluded
<1>5. <<>> \in [{} -> {"Issued", "Valid", "Invalid"}]
  OBVIOUS
<1>6. <<>> \in UNION {[S -> {"Issued", "Valid", "Invalid"}] : S \in SUBSET Authorities}
  BY <1>5
<1>7. NewCandidateData \in CandidateData
  BY <1>6, ZenonT(40) DEF NewCandidateData, CandidateData
<1> QED
  BY <1>4, <1>7

(* The first candidate of a member is taken, any other held against it. *)
LEMMA ImportCandidateEffect ==
  ASSUME NEW tb \in Tables, Proposed(tb), NEW s \in Statements, s.kind = "Candidate"
  PROVE  Effect(tb, s, ImportCandidate(tb, s.sender, s.digest))
<1> DEFINE d == s.digest
           a == s.sender
           r == ImportCandidate(tb, a, d)
           old == tb.votes[d]
           votes == [tb.votes EXCEPT ![d] = IF old = None THEN NewCandidateData ELSE old]
           proposal == [tb.proposal EXCEPT ![a] = d]
           t1 == [tb EXCEPT !.proposal = proposal, !.votes = votes]
<1>1. /\ d \in Candidates /\ a \in Authorities
      /\ old \in CandidateData \cup {None}
      /\ s = Statement("Candidate", d, a)
  BY DEF Statements, Tables, Statement
<1>2. Authorized(s) <=> a \in Members[GroupOf[d]]
  BY DEF Authorized
<1>3. CASE a \notin Members[GroupOf[d]]
  <2>1. r = Result(tb, None, Unauthorized(s))
    BY <1>1, <1>3 DEF ImportCandidate
  <2>2. Unauthorized(s) \in Misbehavior /\ Unauthorized(s).proof = {s}
    BY ZenonT(40) DEF Unauthorized, Misbehavior
  <2> QED
    BY <1>2, <1>3, <2>1, <2>2 DEF Effect, Result, Still, Accuses
<1>4. CASE a \in Members[GroupOf[d]] /\ tb.proposal[a] # None /\ tb.proposal[a] # d
  <2> DEFINE x == Statement("Candidate", tb.proposal[a], a)
             m == MultipleCandidates(a, tb.proposal[a], d)
  <2>1. r = Result(tb, None, m)
    BY <1>4 DEF ImportCandidate
  <2>2. x \in Statements /\ x.sender = a /\ x.digest # s.digest
    BY <1>1, <1>4 DEF Statements, Statement, Kinds, Tables
  <2>3. m.proof = {x, s} /\ m \in Misbehavior
    BY <1>1, <2>2 DEF MultipleCandidates, Misbehavior
  <2>4. Accuses(m, tb, s)
    BY <2>2, <2>3 DEF Accuses
  <2> HIDE DEF x, m
  <2> QED
    BY <2>1, <2>3, <2>4 DEF Effect, Result, Still
<1>5. CASE a \in Members[GroupOf[d]] /\ tb.proposal[a] = d
  <2>1. r = ValidityVote(tb, a, d, VoteOf(s))
    BY <1>1, <1>5, CandidatesAssumption DEF ImportCandidate, VoteOf
  <2>2. old # None
    BY <1>1, <1>5, CandidatesAssumption DEF Proposed
  <2> QED
    BY <1>2, <1>5, <2>1, <2>2, ValidityVoteEffect
<1>6. CASE a \in Members[GroupOf[d]] /\ tb.proposal[a] = None
  <2>1. r = ValidityVote(t1, a, d, VoteOf(s))
    <3>1. tb.proposal[a] # d
      BY <1>1, <1>6, CandidatesAssumption
    <3>2. t1 = [tb EXCEPT !.proposal[a] = d,
                          !.votes[d] = IF @ = None THEN NewCandidateData ELSE @]
      BY DEF Tables
    <3> HIDE DEF t1
    <3> QED
      BY <1>6, <3>1, <3>2 DEF ImportCandidate, VoteOf
  <2>2. NewCandidateData \in CandidateData /\ ~CanBeIncluded(NewCandidateData, GroupOf[d])
    BY <1>1, <1>6, NotYetIncludable
  <2>3. /\ proposal \in [Authorities -> Candidates \cup {None}]
        /\ votes \in [Candidates -> CandidateData \cup {None}]
    BY <1>1, <2>2 DEF Tables
  <2> HIDE DEF proposal, votes
  <2>4. /\ t1 \in Tables /\ t1.proposal = proposal /\ t1.votes = votes
        /\ t1.known = tb.known /\ t1.misbehavior = tb.misbehavior /\ t1.includable = tb.includable
    BY <2>3 DEF Tables
  <2> HIDE DEF t1
  <2>5. /\ old # None => votes = tb.votes
        /\ old = None => votes[d] = NewCandidateData
        /\ \A e \in Candidates \ {d} : votes[e] = tb.votes[e]
        /\ votes[d] # None
    BY <1>1, <2>2, OptionAssumption DEF votes, Tables
  <2>6. Effect(t1, s, r)
    BY <1>2, <1>6, <2>1, <2>4, <2>5, ValidityVoteEffect
  <2>7. \A x \in Statements : Held(t1, x) <=> Held(tb, x)
    <3> SUFFICES ASSUME NEW x \in Statements PROVE Held(t1, x) <=> Held(tb, x)
      OBVIOUS
    <3>1. x.digest \in Candidates
      BY DEF Statements
    <3>2. ~Holds(NewCandidateData, x)
      BY DEF Holds, NewCandidateData
    <3>3. ~Holds(None, x)
      BY DEF Holds
    <3> QED
      BY <2>4, <2>5, <3>1, <3>2, <3>3 DEF Held
  <2>8. CandidateIncludable(t1, d) = CandidateIncludable(tb, d)
    BY <2>2, <2>4, <2>5 DEF CandidateIncludable
  <2>9. proposal = [proposal EXCEPT ![a] = d]
    BY <1>1 DEF proposal, Tables
  <2>10. r.tb.proposal = proposal
    BY <2>4, <2>6, <2>9 DEF Effect
  <2>11. /\ r.tb \in Tables /\ r.tb.known = tb.known /\ r.tb.misbehavior = tb.misbehavior
         /\ r.tb.votes[d] # None
    BY <2>4, <2>5, <2>6, ZenonT(40) DEF Effect, Still, Takes
  <2>12. CASE /\ r.summary = None /\ r.misbehavior = None /\ Still(t1, r.tb)
              /\ Held(t1, s) \/ (s.kind # "Candidate" /\ t1.votes[s.digest] = None)
    <3>1. Held(tb, s)
      BY <2>7, <2>12
    <3>2. old # None
      BY <3>1 DEF Held, Holds
    <3>3. Still(tb, r.tb)
      BY <2>4, <2>5, <2>12, <3>2 DEF Still
    <3> QED
      BY <2>10, <2>11, <2>12, <3>1, <3>3 DEF Effect, proposal
  <2>13. CASE /\ r.summary = None /\ r.misbehavior \in Misbehavior /\ Still(t1, r.tb)
              /\ Accuses(r.misbehavior, t1, s)
    <3>1. PICK x \in Statements : /\ r.misbehavior.proof = {x, s} /\ x # s /\ x.sender = s.sender
                                  /\ \/ Held(t1, x) /\ x.digest = s.digest
                                     \/ x = Statement("Candidate", t1.proposal[s.sender], s.sender)
      BY <1>2, <1>6, <2>13 DEF Accuses
    <3>2. t1.proposal[s.sender] = d
      BY <1>1, <2>4 DEF proposal, Tables
    <3>3. Held(tb, x) /\ x.digest = s.digest
      BY <1>1, <2>7, <3>1, <3>2
    <3>4. old # None
      BY <3>3 DEF Held, Holds
    <3>5. Still(tb, r.tb)
      BY <2>4, <2>5, <2>13, <3>4 DEF Still
    <3>6. Accuses(r.misbehavior, tb, s)
      BY <3>1, <3>3, ZenonT(40) DEF Accuses
    <3> QED
      BY <2>10, <2>11, <2>13, <3>5, <3>6, ZenonT(40) DEF Effect, proposal
  <2>14. CASE /\ r.summary = s.digest /\ r.misbehavior = None
              /\ Authorized(s) /\ Takes(t1, r.tb, s)
    <3>1. Takes(tb, r.tb, s)
      BY <2>4, <2>5, <2>7, <2>8, <2>14, Zenon DEF Takes
    <3> QED
      BY <2>10, <2>11, <2>14, <3>1 DEF Effect, proposal
  <2> QED
    BY <2>6, <2>12, <2>13, <2>14, Zenon DEF Effect
<1> QED
  BY <1>3, <1>4, <1>5, <1>6

(* The same of import_statement, which also notes who knows the statement  *)
(* and who misbehaved.                                                     *)
Imports(tb, s, r) ==
  /\ r.tb \in Tables
  /\ \A a \in Authorities : tb.known[a] \subseteq r.tb.known[a]
  /\ \/ r.tb.proposal = tb.proposal
     \/ /\ s.kind = "Candidate" /\ r.tb.votes[s.digest] # None
        /\ r.tb.proposal = [tb.proposal EXCEPT ![s.sender] = s.digest]
  /\ \/ /\ r.summary = None /\ Still(tb, r.tb) /\ r.tb.misbehavior = tb.misbehavior
        /\ Held(tb, s) \/ (s.kind # "Candidate" /\ tb.votes[s.digest] = None)
     \/ /\ r.summary = None /\ Still(tb, r.tb)
        /\ \E m \in Misbehavior : /\ Accuses(m, tb, s)
                                  /\ r.tb.misbehavior = [tb.misbehavior EXCEPT ![s.sender] = m]
     \/ /\ r.summary = s.digest /\ r.tb.misbehavior = tb.misbehavior
        /\ Authorized(s) /\ Takes(tb, r.tb, s)

LEMMA TraceNoted ==
  ASSUME NEW tb \in Tables, NEW s \in Statements, NEW a
  PROVE  LET t2 == NoteTraceSeen(tb, Trace(s), a)
         IN  /\ t2 \in Tables
             /\ t2.proposal = tb.proposal /\ t2.misbehavior = tb.misbehavior
             /\ t2.votes = tb.votes /\ t2.includable = tb.includable
             /\ \A b \in Authorities : tb.known[b] \subseteq t2.known[b]
<1> DEFINE known == [tb.known EXCEPT ![a] = @ \cup {Trace(s)}]
           t2 == NoteTraceSeen(tb, Trace(s), a)
<1>1. t2 = [tb EXCEPT !.known = known]
  BY DEF NoteTraceSeen, Tables
<1>2. Trace(s) \in Traces
  BY DEF Traces
<1>3. /\ known \in [Authorities -> SUBSET Traces]
      /\ \A b \in Authorities : tb.known[b] \subseteq known[b]
  BY <1>2, Zenon DEF Tables
<1> HIDE DEF known, t2
<1> QED
  BY <1>1, <1>3 DEF Tables, t2

Whole(r) == r = Result(r.tb, r.summary, r.misbehavior)

LEMMA WholeResults ==
  \A tb, a, d, vote : /\ Whole(ValidityVote(tb, a, d, vote)) /\ Whole(AvailabilityVote(tb, a, d))
                      /\ Whole(ImportCandidate(tb, a, d))
<1>1. ASSUME NEW t, NEW x, NEW y PROVE Whole(Result(t, x, y))
  BY DEF Whole, Result
<1>2. ASSUME NEW tb, NEW a, NEW d, NEW vote PROVE Whole(ValidityVote(tb, a, d, vote))
  <2> DEFINE data == tb.votes[d]
             cast == [b \in DOMAIN data.validity \cup {a} |->
                        IF b = a THEN vote ELSE data.validity[b]]
             new == [data EXCEPT !.validity = cast,
                                 !.bad = IF vote = "Invalid" THEN @ \cup {a} ELSE @]
             m == IF data.validity[a] = vote THEN None ELSE DoubleVote(a, d, data.validity[a], vote)
             r == ValidityVote(tb, a, d, vote)
  <2>1. \/ r = Result(tb, None, None)
        \/ r = Result(tb, None, Unauthorized(Statement(vote, d, a)))
        \/ r = Result(tb, None, m)
        \/ r = Result(Store(tb, d, new), d, None)
    BY DEF ValidityVote
  <2> HIDE DEF r, m, new
  <2> QED
    BY <2>1, <1>1 DEF r
<1>3. ASSUME NEW tb, NEW a, NEW d PROVE Whole(AvailabilityVote(tb, a, d))
  BY <1>1 DEF AvailabilityVote
<1>4. ASSUME NEW tb, NEW a, NEW d PROVE Whole(ImportCandidate(tb, a, d))
  <2> DEFINE t1 == IF tb.proposal[a] = d THEN tb
                   ELSE [tb EXCEPT !.proposal[a] = d,
                                   !.votes[d] = IF @ = None THEN NewCandidateData ELSE @]
             r == ImportCandidate(tb, a, d)
  <2>1. \/ r = Result(tb, None, Unauthorized(Statement("Candidate", d, a)))
        \/ r = Result(tb, None, MultipleCandidates(a, tb.proposal[a], d))
        \/ r = ValidityVote(t1, a, d, "Issued")
    BY DEF ImportCandidate
  <2> HIDE DEF r, t1
  <2> QED
    BY <2>1, <1>1, <1>2 DEF r
<1> QED
  BY <1>2, <1>3, <1>4

LEMMA ImportStatementEffect ==
  ASSUME NEW tb \in Tables, Proposed(tb), NEW s \in Statements, NEW from
  PROVE  Imports(tb, s, ImportStatement(tb, s, from))
<1> DEFINE q == CASE s.kind = "Candidate" -> ImportCandidate(tb, s.sender, s.digest)
                  [] s.kind = "Available" -> AvailabilityVote(tb, s.sender, s.digest)
                  [] OTHER -> ValidityVote(tb, s.sender, s.digest, s.kind)
           seen == IF from = None THEN q.tb ELSE NoteTraceSeen(q.tb, Trace(s), from)
           noted == NoteTraceSeen(seen, Trace(s), s.sender)
           r == ImportStatement(tb, s, from)
<1>1. s.kind \in Kinds /\ s.sender \in Authorities /\ s.digest \in Candidates
  BY DEF Statements
<1>2. Effect(tb, s, q)
  <2>1. CASE s.kind = "Candidate"
    BY <2>1, ImportCandidateEffect
  <2>2. CASE s.kind = "Available"
    BY <2>2, AvailabilityVoteEffect
  <2>3. CASE s.kind # "Candidate" /\ s.kind # "Available"
    <3>1. VoteOf(s) = s.kind
      BY <2>3 DEF VoteOf
    <3> QED
      BY <2>3, <3>1, ValidityVoteEffect
  <2> QED
    BY <2>1, <2>2, <2>3
<1>3. Whole(q)
  <2>1. CASE s.kind = "Candidate"
    BY <2>1, WholeResults
  <2>2. CASE s.kind = "Available"
    BY <2>2, WholeResults
  <2>3. CASE s.kind # "Candidate" /\ s.kind # "Available"
    BY <2>3, WholeResults
  <2> QED
    BY <2>1, <2>2, <2>3
<1>4. r = IF q.misbehavior # None
          THEN [q EXCEPT !.tb.misbehavior[s.sender] = q.misbehavior]
          ELSE [q EXCEPT !.tb = noted]
  BY DEF ImportStatement
<1> HIDE DEF q
<1>5. q.tb \in Tables
  BY <1>2 DEF Effect
<1>6. CASE q.misbehavior # None
  <2> DEFINE m == q.misbehavior
             misbehavior == [q.tb.misbehavior EXCEPT ![s.sender] = m]
             t2 == [q.tb EXCEPT !.misbehavior = misbehavior]
  <2>1. r = [q EXCEPT !.tb = t2]
    BY <1>3, <1>4, <1>5, <1>6 DEF Tables, Whole, Result
  <2>2. m \in Misbehavior /\ q.summary = None /\ Still(tb, q.tb) /\ Accuses(m, tb, s)
    BY <1>2, <1>6 DEF Effect
  <2>3. misbehavior \in [Authorities -> Misbehavior \cup {None}]
    BY <1>5, <2>2, Zenon DEF Tables
  <2>4. q.tb.misbehavior = tb.misbehavior
    BY <1>2 DEF Effect
  <2> HIDE DEF misbehavior
  <2>5. /\ t2 \in Tables /\ t2.misbehavior = misbehavior
        /\ t2.proposal = q.tb.proposal /\ t2.known = q.tb.known
        /\ t2.votes = q.tb.votes /\ t2.includable = q.tb.includable
    BY <1>5, <2>3 DEF Tables
  <2> HIDE DEF t2
  <2>6. r.tb = t2 /\ r.summary = None
    BY <1>3, <2>1, <2>2 DEF Whole, Result
  <2>7. Still(tb, r.tb)
    BY <2>2, <2>5, <2>6 DEF Still
  <2>8. r.tb.misbehavior = [tb.misbehavior EXCEPT ![s.sender] = m]
    BY <2>4, <2>5, <2>6 DEF misbehavior
  <2>9. \A a \in Authorities : tb.known[a] \subseteq r.tb.known[a]
    BY <1>2, <2>5, <2>6, ZenonT(40) DEF Effect
  <2>10. \/ r.tb.proposal = tb.proposal
         \/ /\ s.kind = "Candidate" /\ r.tb.votes[s.digest] # None
            /\ r.tb.proposal = [tb.proposal EXCEPT ![s.sender] = s.digest]
    BY <1>2, <2>5, <2>6, ZenonT(40) DEF Effect
  <2> QED
    BY <2>2, <2>5, <2>6, <2>7, <2>8, <2>9, <2>10, Zenon DEF Imports
<1>7. CASE q.misbehavior = None
  <2>1. r.tb = noted /\ r.summary = q.summary
    BY <1>3, <1>4, <1>7 DEF Whole, Result
  <2>2. /\ seen \in Tables /\ seen.proposal = q.tb.proposal
        /\ seen.misbehavior = q.tb.misbehavior
        /\ seen.votes = q.tb.votes /\ seen.includable = q.tb.includable
        /\ \A b \in Authorities : q.tb.known[b] \subseteq seen.known[b]
    BY <1>5, TraceNoted, ZenonT(40)
  <2> HIDE DEF seen
  <2>3. /\ noted \in Tables /\ noted.proposal = seen.proposal
        /\ noted.misbehavior = seen.misbehavior
        /\ noted.votes = seen.votes /\ noted.includable = seen.includable
        /\ \A b \in Authorities : seen.known[b] \subseteq noted.known[b]
    BY <2>2, TraceNoted
  <2> HIDE DEF noted
  <2>4. /\ r.tb \in Tables /\ r.tb.proposal = q.tb.proposal
        /\ r.tb.misbehavior = tb.misbehavior
        /\ r.tb.votes = q.tb.votes /\ r.tb.includable = q.tb.includable
        /\ \A b \in Authorities : tb.known[b] \subseteq r.tb.known[b]
    BY <1>2, <2>1, <2>2, <2>3, Zenon DEF Effect
  <2>5. \/ r.tb.proposal = tb.proposal
        \/ /\ s.kind = "Candidate" /\ r.tb.votes[s.digest] # None
           /\ r.tb.proposal = [tb.proposal EXCEPT ![s.sender] = s.digest]
    BY <1>2, <2>4, Zenon DEF Effect
  <2>6. CASE q.summary = None /\ Still(tb, q.tb)
             /\ (Held(tb, s) \/ (s.kind # "Candidate" /\ tb.votes[s.digest] = None))
    BY <2>1, <2>4, <2>5, <2>6, Zenon DEF Imports, Still
  <2>7. CASE q.summary = s.digest /\ Authorized(s) /\ Takes(tb, q.tb, s)
    <3>1. Takes(tb, r.tb, s)
      BY <2>4, <2>7, Zenon DEF Takes, Held, CandidateIncludable
    <3> QED
      BY <2>1, <2>4, <2>5, <2>7, <3>1, Zenon DEF Imports
  <2> QED
    BY <1>2, <1>7, <2>6, <2>7, OptionAssumption DEF Effect
<1> QED
  BY <1>6, <1>7

-----------------------------------------------------------------------------
(* Counting. *)

LEMMA OneMore ==
  ASSUME NEW S, IsFiniteSet(S), NEW d, d \notin S
  PROVE  IsFiniteSet(S \cup {d}) /\ Cardinality(S \cup {d}) = Cardinality(S) + 1
BY FS_AddElement

LEMMA OneLess ==
  ASSUME NEW S, IsFiniteSet(S), NEW d \in S
  PROVE  Cardinality(S \ {d}) = Cardinality(S) - 1 /\ Cardinality(S) > 0
<1>1. IsFiniteSet(S \ {d}) /\ d \notin S \ {d} /\ S = (S \ {d}) \cup {d}
  BY FS_Subset
<1>2. Cardinality(S) = Cardinality(S \ {d}) + 1
  BY <1>1, OneMore
<1> QED
  BY <1>1, <1>2, FS_CardinalityType

(* Votes on one candidate do not change whether another can be included.   *)
LEMMA OthersStay ==
  ASSUME NEW tb, NEW t2, NEW e, t2.votes[e] = tb.votes[e]
  PROVE  CandidateIncludable(t2, e) = CandidateIncludable(tb, e)
BY DEF CandidateIncludable

LEMMA CountsStay ==
  ASSUME NEW tb \in Tables, NEW t2 \in Tables, Counts(tb), Still(tb, t2)
  PROVE  Counts(t2)
<1>1. \A g \in Groups : Includable(t2, g) = Includable(tb, g)
  BY DEF Includable, Still, CandidateIncludable
<1> QED
  BY <1>1 DEF Counts, Still

LEMMA CountsFollow ==
  ASSUME NEW tb \in Tables, NEW t2 \in Tables, Counts(tb),
         NEW s \in Statements, Takes(tb, t2, s)
  PROVE  Counts(t2)
<1> DEFINE d == s.digest
           was == CandidateIncludable(tb, d)
           is == CandidateIncludable(t2, d)
<1>1. d \in Candidates /\ GroupOf[d] \in Groups
  BY CandidatesAssumption DEF Statements
<1>2. \A e \in Candidates \ {d} : CandidateIncludable(t2, e) = CandidateIncludable(tb, e)
  BY OthersStay DEF Takes
<1> SUFFICES ASSUME NEW g \in Groups
             PROVE  t2.includable[g] = Cardinality(Includable(t2, g))
  BY DEF Counts
<1> DEFINE S == Includable(tb, g)
           n == tb.includable[g]
<1>3. n = Cardinality(S) /\ IsFiniteSet(S) /\ n \in Nat
  <2>1. IsFiniteSet(S)
    BY CandidatesAssumption, FS_Subset DEF Includable
  <2> QED
    BY <2>1 DEF Counts, Tables
<1>4. CASE g # GroupOf[d]
  <2>1. Includable(t2, g) = S
    BY <1>2, <1>4 DEF Includable
  <2>2. t2.includable[g] = n
    BY <1>1, <1>4 DEF Takes, Tables
  <2> QED
    BY <1>3, <2>1, <2>2
<1>5. CASE g = GroupOf[d]
  <2>1. t2.includable[g] = UpdateIncludableCount(n, was, is)
    BY <1>1, <1>5 DEF Takes, Tables
  <2>2. was \in BOOLEAN /\ is \in BOOLEAN
    BY DEF CandidateIncludable
  <2>3. CASE was = is
    <3>1. Includable(t2, g) = S
      BY <1>2, <2>3 DEF Includable
    <3>2. UpdateIncludableCount(n, was, is) = n
      BY <2>2, <2>3 DEF UpdateIncludableCount
    <3> QED
      BY <1>3, <2>1, <3>1, <3>2
  <2>4. CASE ~was /\ is
    <3>1. Includable(t2, g) = S \cup {d} /\ d \notin S
      BY <1>1, <1>2, <1>5, <2>4 DEF Includable
    <3>2. UpdateIncludableCount(n, was, is) = n + 1
      BY <2>4 DEF UpdateIncludableCount
    <3>3. Cardinality(S \cup {d}) = Cardinality(S) + 1
      BY <1>3, <3>1, OneMore
    <3> QED
      BY <1>3, <2>1, <3>1, <3>2, <3>3
  <2>5. CASE was /\ ~is
    <3>1. Includable(t2, g) = S \ {d} /\ d \in S
      BY <1>1, <1>2, <1>5, <2>5 DEF Includable
    <3>2. Cardinality(S \ {d}) = Cardinality(S) - 1 /\ Cardinality(S) > 0
      BY <1>3, <3>1, OneLess
    <3>3. UpdateIncludableCount(n, was, is) = n - 1
      BY <1>3, <2>5, <3>2 DEF UpdateIncludableCount
    <3> QED
      BY <1>3, <2>1, <3>1, <3>2, <3>3
  <2> QED
    BY <2>2, <2>3, <2>4, <2>5, ZenonT(40)
<1> QED
  BY <1>4, <1>5

(* A tracker that is told of a candidate's change keeps up with the table. *)
LEMMA TrackerFollows ==
  ASSUME NEW tr \in Trackers, tr.live, NEW tb, NEW t2, NEW d \in Candidates,
         Waits(tr, tb), \A e \in Candidates \ {d} : t2.votes[e] = tb.votes[e]
  PROVE  LET u == UpdateCandidate(tr, d, CandidateIncludable(t2, d))
         IN  u \in Trackers /\ (u.live => Waits(u, t2))
<1> DEFINE D == DOMAIN tr.tracking
           is == CandidateIncludable(t2, d)
           u == UpdateCandidate(tr, d, is)
<1>1. /\ D \subseteq Candidates /\ tr.tracking \in [D -> BOOLEAN]
      /\ tr.count \in Nat /\ tr.live \in BOOLEAN /\ is \in BOOLEAN
  BY DEF Trackers, CandidateIncludable
<1>2. \A e \in Candidates \ {d} : CandidateIncludable(t2, e) = CandidateIncludable(tb, e)
  BY OthersStay
<1>3. CASE d \notin D
  <2>1. u = TryComplete(tr)
    BY <1>3 DEF UpdateCandidate
  <2>2. /\ u = [tr EXCEPT !.live = u.live] /\ u.live \in BOOLEAN
        /\ u.tracking = tr.tracking /\ u.count = tr.count
    BY <1>1, <2>1 DEF TryComplete, Trackers
  <2>3. u \in Trackers
    BY <2>2 DEF Trackers
  <2>4. Waits(u, t2)
    BY <1>1, <1>2, <1>3, <2>2 DEF Waits
  <2> QED
    BY <2>3, <2>4
<1>4. CASE d \in D
  <2> DEFINE old == tr.tracking[d]
             tracking == [tr.tracking EXCEPT ![d] = is]
             count == IF ~old /\ is THEN tr.count + 1
                      ELSE IF old /\ ~is THEN tr.count - 1
                      ELSE tr.count
             v == [tr EXCEPT !.tracking = tracking, !.count = count]
             S == {e \in D : tr.tracking[e]}
             T == {e \in D : tracking[e]}
  <2>1. u = TryComplete(v)
    BY <1>4 DEF UpdateCandidate, Trackers
  <2>2. tracking \in [D -> BOOLEAN] /\ tracking[d] = is /\ \A e \in D \ {d} : tracking[e] = tr.tracking[e]
    BY <1>1, <1>4
  <2>3. IsFiniteSet(S) /\ tr.count = Cardinality(S) /\ old \in BOOLEAN
    <3>1. IsFiniteSet(S)
      BY <1>1, CandidatesAssumption, FS_Subset, ZenonT(40)
    <3> QED
      BY <1>1, <1>4, <3>1 DEF Waits
  <2>4. count = Cardinality(T)
    <3>1. CASE old = is
      BY <1>4, <2>2, <2>3, <3>1, ZenonT(40)
    <3>2. CASE ~old /\ is
      <4>1. T = S \cup {d} /\ d \notin S
        BY <1>4, <2>2, <3>2
      <4>2. Cardinality(S \cup {d}) = Cardinality(S) + 1
        BY <2>3, <4>1, OneMore
      <4> QED
        BY <2>3, <3>2, <4>1, <4>2
    <3>3. CASE old /\ ~is
      <4>1. T = S \ {d} /\ d \in S
        BY <1>4, <2>2, <3>3
      <4>2. Cardinality(S \ {d}) = Cardinality(S) - 1
        BY <2>3, <4>1, OneLess
      <4> QED
        BY <2>3, <3>3, <4>1, <4>2
    <3> QED
      BY <1>1, <2>3, <3>1, <3>2, <3>3
  <2>5. count \in Nat
    <3>1. IsFiniteSet(T)
      BY <1>1, CandidatesAssumption, FS_Subset
    <3> QED
      BY <2>4, <3>1, FS_CardinalityType
  <2> HIDE DEF count, tracking
  <2>6. tracking \in UNION {[S1 -> BOOLEAN] : S1 \in SUBSET Candidates}
    BY <1>1, <2>2
  <2>7. v \in Trackers /\ v.tracking = tracking /\ v.count = count
    BY <2>5, <2>6, Zenon DEF Trackers
  <2>8. /\ u \in Trackers /\ u.tracking = tracking /\ u.count = count
        /\ u.live => u.count # Cardinality(D)
    <3> HIDE DEF v
    <3>1. u = [v EXCEPT !.live = v.live /\ v.count # Cardinality(DOMAIN v.tracking)]
      BY <2>1 DEF TryComplete, Trackers
    <3>2. DOMAIN v.tracking = D
      BY <2>2, <2>7
    <3> QED
      BY <2>7, <3>1, <3>2, ZenonT(40) DEF Trackers
  <2>9. \A e \in D : tracking[e] = CandidateIncludable(t2, e)
    BY <1>1, <1>2, <2>2 DEF Waits
  <2>10. DOMAIN tracking = D
    BY <2>2
  <2> QED
    BY <2>4, <2>8, <2>9, <2>10 DEF Waits
<1> QED
  BY <1>3, <1>4

-----------------------------------------------------------------------------
(* What the table holds was said, before and after an import. *)

LEMMA TwoElements ==
  ASSUME NEW x, NEW y, x # y
  PROVE  Cardinality({x, y}) = 2
<1>1. {x, y} = {x} \cup {y} /\ y \notin {x}
  OBVIOUS
<1>2. IsFiniteSet({x}) /\ Cardinality({x}) = 1
  BY FS_Singleton, ZenonT(40)
<1> QED
  BY <1>1, <1>2, OneMore

(* The statements that a table holds after an import. *)
LEMMA HeldAfter ==
  ASSUME NEW tb \in Tables, NEW s \in Statements, NEW r, Imports(tb, s, r)
  PROVE  \A x \in Statements :
           Held(r.tb, x) <=> Held(tb, x) \/ (r.summary = s.digest /\ x = s)
<1>1. s.digest \in Candidates /\ s.digest # None
  BY CandidatesAssumption DEF Statements
<1> SUFFICES ASSUME NEW x \in Statements
             PROVE  Held(r.tb, x) <=> Held(tb, x) \/ (r.summary = s.digest /\ x = s)
  OBVIOUS
<1>2. CASE r.summary = None /\ Still(tb, r.tb)
  BY <1>1, <1>2 DEF Held, Still
<1>3. CASE r.summary = s.digest /\ Takes(tb, r.tb, s)
  <2>1. CASE x.digest = s.digest
    BY <1>3, <2>1 DEF Takes
  <2>2. CASE x.digest # s.digest
    <3>1. x.digest \in Candidates \ {s.digest}
      BY <2>2 DEF Statements
    <3> QED
      BY <1>3, <2>2, <3>1 DEF Takes, Held
  <2> QED
    BY <2>1, <2>2
<1> QED
  BY <1>2, <1>3 DEF Imports

LEMMA ImportIssued ==
  ASSUME NEW tb \in Tables, NEW s \in Statements, NEW r, Imports(tb, s, r),
         Issued(tb), Proposed(tb)
  PROVE  Issued(r.tb) /\ Proposed(r.tb)
<1>1. s.digest \in Candidates /\ s.digest # None /\ s.sender \in Authorities
  BY CandidatesAssumption DEF Statements
<1>2. \A d \in Candidates : tb.votes[d] # None => r.tb.votes[d] # None
  BY ZenonT(40) DEF Imports, Still, Takes
<1>3. Issued(r.tb)
  <2> SUFFICES ASSUME NEW d \in Candidates, r.tb.votes[d] # None
               PROVE  \E a \in Authorities : Held(r.tb, Statement("Candidate", d, a))
    BY DEF Issued
  <2>1. \A a \in Authorities : Statement("Candidate", d, a) \in Statements
    BY DEF Statements, Statement, Kinds
  <2>2. CASE tb.votes[d] # None
    <3>1. PICK a \in Authorities : Held(tb, Statement("Candidate", d, a))
      BY <2>2 DEF Issued
    <3> QED
      BY <2>1, <3>1, HeldAfter
  <2>3. CASE tb.votes[d] = None
    <3>1. r.summary = s.digest /\ Takes(tb, r.tb, s)
      BY <1>1, <2>3, ZenonT(40) DEF Imports, Still
    <3>2. d = s.digest /\ s.kind = "Candidate"
      BY <2>3, <3>1 DEF Takes
    <3>3. s = Statement("Candidate", d, s.sender)
      BY <3>2 DEF Statements, Statement
    <3>4. Held(r.tb, s)
      BY <3>1, HeldAfter
    <3> QED
      BY <1>1, <3>3, <3>4, ZenonT(40)
  <2> QED
    BY <2>2, <2>3
<1>4. Proposed(r.tb)
  <2> SUFFICES ASSUME NEW a \in Authorities, r.tb.proposal[a] # None
               PROVE  r.tb.votes[r.tb.proposal[a]] # None
    BY DEF Proposed
  <2>1. CASE r.tb.proposal[a] = tb.proposal[a]
    <3>1. tb.proposal[a] \in Candidates /\ tb.votes[tb.proposal[a]] # None
      BY <2>1 DEF Proposed, Tables
    <3> QED
      BY <1>2, <2>1, <3>1
  <2>2. CASE r.tb.proposal[a] # tb.proposal[a]
    <3>1. /\ r.tb.votes[s.digest] # None
          /\ r.tb.proposal = [tb.proposal EXCEPT ![s.sender] = s.digest]
      BY <2>2 DEF Imports
    <3>2. r.tb.proposal[a] = s.digest
      BY <2>2, <3>1, ZenonT(40) DEF Tables
    <3> QED
      BY <3>1, <3>2, ZenonT(40)
  <2> QED
    BY <2>1, <2>2
<1> QED
  BY <1>3, <1>4

(* The statements heard and those in time, with one more. *)
Hears(tb, s, H, T, H2, T2) ==
  /\ H \subseteq Statements /\ T \subseteq H
  /\ H2 = H \cup {s}
  /\ T2 = IF s.kind = "Candidate" \/ tb.votes[s.digest] # None THEN T \cup {s} ELSE T

LEMMA ImportTruthful ==
  ASSUME NEW tb \in Tables, NEW s \in Statements, NEW r, Imports(tb, s, r),
         NEW H, NEW T, NEW H2, NEW T2, Hears(tb, s, H, T, H2, T2),
         Truthful(tb, H, T)
  PROVE  Truthful(r.tb, H2, T2)
<1>1. s.digest \in Candidates /\ s.digest # None /\ s.sender \in Authorities
  BY CandidatesAssumption DEF Statements
<1>2. \A x \in Statements :
        Held(r.tb, x) <=> Held(tb, x) \/ (r.summary = s.digest /\ x = s)
  BY HeldAfter, ZenonT(40)
<1>3. H \subseteq H2 /\ T \subseteq T2 /\ s \in H2 /\ T2 \subseteq T \cup {s} /\ T2 \subseteq Statements
  BY DEF Hears
<1>4. \A a \in Authorities : r.tb.proposal[a] # None =>
        Statement("Candidate", r.tb.proposal[a], a) \in H2
  <2> SUFFICES ASSUME NEW a \in Authorities, r.tb.proposal[a] # None
               PROVE  Statement("Candidate", r.tb.proposal[a], a) \in H2
    OBVIOUS
  <2>1. CASE r.tb.proposal[a] = tb.proposal[a]
    BY <1>3, <2>1 DEF Truthful
  <2>2. CASE r.tb.proposal[a] # tb.proposal[a]
    <3>1. /\ s.kind = "Candidate"
          /\ r.tb.proposal = [tb.proposal EXCEPT ![s.sender] = s.digest]
      BY <2>2, ZenonT(40) DEF Imports
    <3>2. a = s.sender /\ r.tb.proposal[a] = s.digest
      BY <2>2, <3>1 DEF Tables
    <3>3. s = Statement("Candidate", s.digest, s.sender)
      BY <3>1, ZenonT(40) DEF Statements, Statement
    <3> QED
      BY <1>3, <3>2, <3>3
  <2> QED
    BY <2>1, <2>2
<1>5. ASSUME NEW x \in Statements, Held(r.tb, x)
      PROVE  x \in T2 /\ Authorized(x)
  <2>1. CASE Held(tb, x)
    BY <1>3, <2>1 DEF Truthful
  <2>2. CASE r.summary = s.digest /\ x = s
    <3>1. Authorized(s) /\ Takes(tb, r.tb, s)
      BY <1>1, <2>2, ZenonT(40) DEF Imports
    <3>2. s \in T2
      BY <3>1 DEF Takes, Hears
    <3> QED
      BY <2>2, <3>1, <3>2
  <2> QED
    BY <1>2, <1>5, <2>1, <2>2
<1>6. ASSUME NEW x \in T2, Authorized(x), r.tb.misbehavior[x.sender] = None
      PROVE  Held(r.tb, x)
  <2>1. x \in Statements /\ x.sender \in Authorities
    BY <1>3 DEF Statements
  <2>2. tb.misbehavior[x.sender] = None
    <3>1. CASE r.tb.misbehavior = tb.misbehavior
      BY <1>6, <3>1, ZenonT(40)
    <3>2. CASE \E m \in Misbehavior : r.tb.misbehavior = [tb.misbehavior EXCEPT ![s.sender] = m]
      BY <1>6, <2>1, <3>2, OptionAssumption, ZenonT(40) DEF Tables
    <3> QED
      BY <3>1, <3>2, ZenonT(40) DEF Imports
  <2>3. CASE x \in T
    BY <1>2, <1>6, <2>1, <2>2, <2>3 DEF Truthful
  <2>4. CASE x \notin T
    <3>1. x = s /\ (s.kind = "Candidate" \/ tb.votes[s.digest] # None)
      BY <1>6, <2>4 DEF Hears
    <3>2. CASE Held(tb, s)
      BY <1>2, <2>1, <3>1, <3>2
    <3>3. CASE r.summary = s.digest
      BY <1>2, <2>1, <3>1, <3>3, ZenonT(40)
    <3>4. CASE \E m \in Misbehavior : r.tb.misbehavior = [tb.misbehavior EXCEPT ![s.sender] = m]
      BY <1>1, <1>6, <3>1, <3>4, OptionAssumption DEF Tables
    <3> QED
      BY <3>1, <3>2, <3>3, <3>4, ZenonT(40) DEF Imports
  <2> QED
    BY <2>3, <2>4
<1> QED
  BY <1>4, <1>5, <1>6 DEF Truthful

LEMMA ImportReported ==
  ASSUME NEW tb \in Tables, NEW s \in Statements, NEW r, Imports(tb, s, r),
         NEW H, NEW T, NEW H2, NEW T2, Hears(tb, s, H, T, H2, T2),
         Truthful(tb, H, T), Reported(tb, H)
  PROVE  Reported(r.tb, H2)
<1>1. s.digest \in Candidates /\ s.digest # None /\ s.sender \in Authorities
  BY CandidatesAssumption DEF Statements
<1>2. H \subseteq H2 /\ s \in H2 /\ T \subseteq H
  BY DEF Hears
<1>3. \A a \in Authorities : tb.misbehavior[a] # None => Proves(tb.misbehavior[a], a, H2)
  BY <1>2, ZenonT(40) DEF Reported, Proves
<1>4. CASE r.tb.misbehavior = tb.misbehavior
  BY <1>3, <1>4 DEF Reported
<1>5. ASSUME NEW m \in Misbehavior, Accuses(m, tb, s)
      PROVE  Proves(m, s.sender, H2)
  <2>1. CASE m.proof = {s} /\ ~Authorized(s)
    BY <1>2, <2>1, ZenonT(40) DEF Proves
  <2>2. ASSUME NEW x \in Statements, m.proof = {x, s}, x # s, x.sender = s.sender,
               \/ Held(tb, x) /\ x.digest = s.digest
               \/ x = Statement("Candidate", tb.proposal[s.sender], s.sender)
        PROVE  Proves(m, s.sender, H2)
    <3>1. x \in H
      <4>1. CASE Held(tb, x)
        BY <1>2, <4>1 DEF Truthful
      <4>2. CASE x = Statement("Candidate", tb.proposal[s.sender], s.sender)
        <5>1. x.digest = tb.proposal[s.sender] /\ x.digest \in Candidates
          BY <4>2 DEF Statement, Statements
        <5> QED
          BY <1>1, <4>2, <5>1, CandidatesAssumption, ZenonT(40) DEF Truthful
      <4> QED
        BY <2>2, <4>1, <4>2
    <3>2. Cardinality({x, s}) = 2
      BY <2>2, TwoElements, ZenonT(40)
    <3> QED
      BY <1>2, <2>2, <3>1, <3>2, ZenonT(40) DEF Proves
  <2> QED
    BY <1>5, <2>1, <2>2, ZenonT(40) DEF Accuses
<1>6. ASSUME NEW m \in Misbehavior, Accuses(m, tb, s),
             r.tb.misbehavior = [tb.misbehavior EXCEPT ![s.sender] = m]
      PROVE  Reported(r.tb, H2)
  <2> SUFFICES ASSUME NEW a \in Authorities, r.tb.misbehavior[a] # None
               PROVE  Proves(r.tb.misbehavior[a], a, H2)
    BY ZenonT(40) DEF Reported
  <2>1. CASE a = s.sender
    <3>1. r.tb.misbehavior[a] = m
      BY <1>1, <1>6, <2>1, ZenonT(40) DEF Tables
    <3> QED
      BY <1>5, <1>6, <2>1, <3>1, ZenonT(40)
  <2>2. CASE a # s.sender
    <3>1. r.tb.misbehavior[a] = tb.misbehavior[a]
      BY <1>6, <2>2 DEF Tables
    <3> QED
      BY <1>3, <3>1, ZenonT(40)
  <2> QED
    BY <2>1, <2>2
<1> QED
  BY <1>4, <1>6, Zenon DEF Imports

-----------------------------------------------------------------------------
(* Batches. *)

(* The statements of each class are those that the table holds. *)
LEMMA Classes ==
  ASSUME NEW tb \in Tables, NEW d \in Candidates
  PROVE  /\ Issuances(tb, d) = {x \in Statements :
              x.digest = d /\ x.kind = "Candidate" /\ Held(tb, x)}
         /\ Verdicts(tb, d) = {x \in Statements :
              x.digest = d /\ x.kind \in {"Valid", "Invalid"} /\ Held(tb, x)}
         /\ Availabilities(tb, d) = {x \in Statements :
              x.digest = d /\ x.kind = "Available" /\ Held(tb, x)}
<1> DEFINE data == tb.votes[d]
<1>1. CASE data = None
  <2>1. \A x : x.digest = d => ~Held(tb, x)
    BY <1>1 DEF Held, Holds
  <2> QED
    BY <1>1, <2>1 DEF Issuances, Verdicts, Availabilities
<1>2. CASE data # None
  <2>1. /\ data \in CandidateData /\ DOMAIN data.validity \subseteq Authorities
        /\ data.validity \in [DOMAIN data.validity -> {"Issued", "Valid", "Invalid"}]
        /\ data.availability \subseteq Authorities
    BY <1>2 DEF CandidateData, Tables
  <2>2. ASSUME NEW kind \in Kinds, NEW a \in Authorities
        PROVE  LET x == Statement(kind, d, a)
               IN  /\ x \in Statements /\ x.kind = kind /\ x.digest = d /\ x.sender = a
                   /\ Held(tb, x) <=> IF kind = "Available" THEN a \in data.availability
                                      ELSE /\ a \in DOMAIN data.validity
                                           /\ data.validity[a] = IF kind = "Candidate" THEN "Issued" ELSE kind
    BY <1>2 DEF Statement, Statements, Held, Holds
  <2>3. \A x \in Statements : x.digest = d =>
          x = Statement(x.kind, d, x.sender) /\ x.kind \in Kinds /\ x.sender \in Authorities
    BY DEF Statement, Statements
  <2>4. Issuances(tb, d) = {x \in Statements :
          x.digest = d /\ x.kind = "Candidate" /\ Held(tb, x)}
    <3>1. ASSUME NEW x \in Issuances(tb, d)
          PROVE  x \in Statements /\ x.digest = d /\ x.kind = "Candidate" /\ Held(tb, x)
      <4>1. PICK a \in DOMAIN data.validity : data.validity[a] = "Issued" /\ x = Statement("Candidate", d, a)
        BY <1>2 DEF Issuances
      <4> QED
        BY <2>1, <2>2, <4>1 DEF Kinds
    <3>2. ASSUME NEW x \in Statements, x.digest = d, x.kind = "Candidate", Held(tb, x)
          PROVE  x \in Issuances(tb, d)
      <4>1. x.sender \in DOMAIN data.validity /\ data.validity[x.sender] = "Issued"
        BY <3>2 DEF Held, Holds
      <4> QED
        BY <1>2, <2>3, <3>2, <4>1 DEF Issuances
    <3> QED
      BY <3>1, <3>2, ZenonT(40)
  <2>5. Verdicts(tb, d) = {x \in Statements :
          x.digest = d /\ x.kind \in {"Valid", "Invalid"} /\ Held(tb, x)}
    <3>1. ASSUME NEW x \in Verdicts(tb, d)
          PROVE  x \in Statements /\ x.digest = d /\ x.kind \in {"Valid", "Invalid"} /\ Held(tb, x)
      <4>1. PICK a \in DOMAIN data.validity :
              data.validity[a] # "Issued" /\ x = Statement(data.validity[a], d, a)
        BY <1>2 DEF Verdicts
      <4>2. data.validity[a] \in {"Valid", "Invalid"} /\ a \in Authorities
        BY <2>1, <4>1
      <4> QED
        BY <2>2, <4>1, <4>2 DEF Kinds
    <3>2. ASSUME NEW x \in Statements, x.digest = d, x.kind \in {"Valid", "Invalid"}, Held(tb, x)
          PROVE  x \in Verdicts(tb, d)
      <4>1. x.sender \in DOMAIN data.validity /\ data.validity[x.sender] = x.kind
        BY <3>2 DEF Held, Holds
      <4>2. x.kind # "Issued"
        BY <3>2
      <4> QED
        BY <1>2, <2>3, <3>2, <4>1, <4>2 DEF Verdicts
    <3> QED
      BY <3>1, <3>2, ZenonT(40)
  <2>6. Availabilities(tb, d) = {x \in Statements :
          x.digest = d /\ x.kind = "Available" /\ Held(tb, x)}
    <3>1. ASSUME NEW x \in Availabilities(tb, d)
          PROVE  x \in Statements /\ x.digest = d /\ x.kind = "Available" /\ Held(tb, x)
      <4>1. PICK a \in data.availability : x = Statement("Available", d, a)
        BY <1>2 DEF Availabilities
      <4> QED
        BY <2>1, <2>2, <4>1 DEF Kinds
    <3>2. ASSUME NEW x \in Statements, x.digest = d, x.kind = "Available", Held(tb, x)
          PROVE  x \in Availabilities(tb, d)
      <4>1. x.sender \in data.availability
        BY <3>2 DEF Held, Holds
      <4> QED
        BY <1>2, <2>3, <3>2, <4>1 DEF Availabilities
    <3> QED
      BY <3>1, <3>2
  <2> QED
    BY <2>4, <2>5, <2>6
<1> QED
  BY <1>1, <1>2

LEMMA StoredIsHeld ==
  ASSUME NEW tb \in Tables
  PROVE  Stored(tb) = {x \in Statements : Held(tb, x)}
<1>1. ASSUME NEW x \in Stored(tb) PROVE x \in Statements /\ Held(tb, x)
  <2>1. PICK d \in Candidates : x \in Issuances(tb, d) \cup Verdicts(tb, d) \cup Availabilities(tb, d)
    BY DEF Stored
  <2> QED
    BY <2>1, Classes
<1>2. ASSUME NEW x \in Statements, Held(tb, x) PROVE x \in Stored(tb)
  <2>1. x.digest \in Candidates /\ x.kind \in {"Candidate", "Valid", "Invalid", "Available"}
    BY DEF Statements, Kinds
  <2>2. x \in Issuances(tb, x.digest) \cup Verdicts(tb, x.digest) \cup Availabilities(tb, x.digest)
    BY <1>2, <2>1, Classes
  <2> QED
    BY <2>1, <2>2 DEF Stored
<1> QED
  BY <1>1, <1>2

(* The candidate of a statement is in the batch, or known to a. *)
Preceded(tb, batch, s, a) ==
  \E t \in Statements : /\ Held(tb, t)
                        /\ t.kind = "Candidate" /\ t.digest = s.digest
                        /\ t \in batch \/ Trace(t) \in tb.known[a]

(* A batch with a vote has the candidate, unless all targets know it. *)
LEMMA BatchInOrder ==
  ASSUME NEW tb \in Tables, Issued(tb), NEW targets, NEW batch \in Batches(tb, targets),
         NEW s \in batch, NEW a \in targets
  PROVE  Preceded(tb, batch, s, a)
<1> DEFINE d == s.digest
<1>1. batch \subseteq Sendable(tb, targets)
  BY DEF Batches
<1>2. Sendable(tb, targets) \subseteq Stored(tb)
  BY ZenonT(40) DEF Sendable
<1>3. s \in Statements /\ Held(tb, s) /\ d \in Candidates
  BY <1>1, <1>2, StoredIsHeld, ZenonT(40) DEF Statements
<1>4. CASE s.kind = "Candidate"
  BY <1>3, <1>4 DEF Preceded
<1>5. CASE s.kind # "Candidate"
  <2>1. tb.votes[d] # None
    BY <1>3 DEF Held, Holds
  <2>2. PICK b \in Authorities : Held(tb, Statement("Candidate", d, b))
    BY <1>3, <2>1 DEF Issued
  <2> DEFINE t == Statement("Candidate", d, b)
  <2>3. t \in Statements /\ t.kind = "Candidate" /\ t.digest = d
    BY <1>3 DEF Statement, Statements, Kinds
  <2> HIDE DEF t
  <2>4. t \in Issuances(tb, d) /\ t \in Stored(tb)
    BY <1>3, <2>2, <2>3, Classes, StoredIsHeld DEF t
  <2>5. s \in Verdicts(tb, d) \/ s \in Availabilities(tb, d)
    BY <1>3, <1>5, Classes DEF Statements, Kinds
  <2>6. Issuances(tb, d) \cap Sendable(tb, targets) \subseteq batch
    BY <1>3, <2>5, ZenonT(40) DEF Batches
  <2>7. CASE t \in Sendable(tb, targets)
    BY <1>3, <2>2, <2>3, <2>4, <2>6, <2>7, ZenonT(40) DEF t, Preceded
  <2>8. CASE t \notin Sendable(tb, targets)
    <3>1. Trace(t) \in tb.known[a]
      BY <2>4, <2>8 DEF Sendable
    <3> QED
      BY <1>3, <2>2, <2>3, <3>1 DEF t, Preceded
  <2> QED
    BY <2>7, <2>8
<1> QED
  BY <1>4, <1>5

-----------------------------------------------------------------------------
(* The invariant is inductive. *)

LEMMA InitInv == Init => Inv
<1> SUFFICES ASSUME Init PROVE Inv
  OBVIOUS
<1>1. /\ table.proposal = [a \in Authorities |-> None]
      /\ table.known = [a \in Authorities |-> {}]
      /\ table.misbehavior = [a \in Authorities |-> None]
      /\ table.votes = [d \in Candidates |-> None]
      /\ table.includable = [g \in Groups |-> 0]
  BY ZenonT(40) DEF Init, NewTable
<1>2. table \in Tables
  BY DEF Init, NewTable, Tables
<1>3. Types
  BY <1>2 DEF Init, Types
<1>4. Counts(table)
  <2> SUFFICES ASSUME NEW g \in Groups
               PROVE  table.includable[g] = Cardinality(Includable(table, g))
    BY DEF Counts
  <2>1. Includable(table, g) = {}
    BY <1>1 DEF Includable, CandidateIncludable
  <2> QED
    BY <1>1, <2>1, FS_EmptySet
<1>5. TrackersInv
  BY DEF Init, TrackersInv
<1>6. \A s \in Statements : ~Held(table, s)
  BY <1>1 DEF Held, Holds, Statements
<1>7. Issued(table) /\ Proposed(table)
  BY <1>1, ZenonT(40) DEF Issued, Proposed
<1>8. Truthful(table, heard, timely)
  BY <1>1, <1>6 DEF Truthful, Init
<1>9. Reported(table, heard)
  BY <1>1, ZenonT(40) DEF Reported
<1>10. CandidateBeforeVotes
  BY DEF CandidateBeforeVotes, Init
<1>11. ChecksInv
  BY DEF ChecksInv, Init
<1> QED
  BY <1>3, <1>4, <1>5, <1>7, <1>8, <1>9, <1>10, <1>11 DEF Inv

(* A relation between statements sent and known that only grows. *)
LEMMA StillBeforeVotes ==
  ASSUME CandidateBeforeVotes, sent' = sent, heard \subseteq heard',
         \A a \in Authorities : table.known[a] \subseteq table'.known[a]
  PROVE  CandidateBeforeVotes'
BY DEF CandidateBeforeVotes

LEMMA FunctionIsSeq ==
  ASSUME NEW S, NEW n \in Nat, NEW f \in [1..n -> S]
  PROVE  f \in Seq(S) /\ Len(f) = n /\ DOMAIN f = 1..n
OBVIOUS

LEMMA ImportInv ==
  ASSUME Inv, NEW s \in Voices, NEW from \in Sources, ImportRemote(s, from)
  PROVE  Inv'
<1> DEFINE r == ImportStatement(table, s, from)
           d == r.summary
<1>1. s \in Statements /\ s.digest \in Candidates
  BY VoicesAssumption DEF Statements
<1>2. table \in Tables /\ Proposed(table) /\ Types
  BY DEF Inv, Types
<1>3. Imports(table, s, r)
  BY <1>1, <1>2, ImportStatementEffect
<1>4. table' = r.tb /\ Heard(s) /\ sent' = sent
  BY ZenonT(40) DEF ImportRemote
<1>5. IF d = None
      THEN UNCHANGED <<trackers, producers, started, checked_validity, checked_availability>>
      ELSE /\ trackers' = UpdateTrackers(r.tb, d)
           /\ checked_validity' = IF CheckingValidity(d)
                                  THEN checked_validity \cup {d} ELSE checked_validity
           /\ checked_availability' = IF CheckingAvailability(d)
                                      THEN checked_availability \cup {d}
                                      ELSE checked_availability
           /\ StartWork(d)
  BY DEF ImportRemote
<1>17. d = r.summary
  BY ZenonT(40)
<1> HIDE DEF r, d
<1>6. Hears(table, s, heard, timely, heard', timely')
  BY <1>2, <1>4, ZenonT(40) DEF Heard, Hears, Types
<1>7. Issued(table)' /\ Proposed(table)'
  <2>1. Issued(r.tb) /\ Proposed(r.tb)
    BY <1>1, <1>2, <1>3, ImportIssued DEF Inv
  <2> QED
    BY <1>4, <2>1, Zenon DEF Issued, Proposed, Held, Holds
<1>8. Truthful(table, heard, timely)'
  <2>1. Truthful(r.tb, heard', timely')
    BY <1>1, <1>2, <1>3, <1>6, ImportTruthful DEF Inv
  <2> QED
    BY <1>4, <2>1
<1>9. Reported(table, heard)'
  <2>1. Reported(r.tb, heard')
    BY <1>1, <1>2, <1>3, <1>6, ImportReported DEF Inv
  <2> QED
    BY <1>4, <2>1
<1>10. Counts(table)'
  <2>1. r.tb \in Tables /\ (Still(table, r.tb) \/ Takes(table, r.tb, s))
    BY <1>3, ZenonT(40) DEF Imports
  <2>2. Counts(r.tb)
    BY <1>1, <1>2, <2>1, CountsStay, CountsFollow DEF Inv
  <2> QED
    BY <1>4, <2>2
<1>11. CandidateBeforeVotes'
  <2>1. heard \subseteq heard'
    BY <1>4 DEF Heard
  <2>2. \A a \in Authorities : table.known[a] \subseteq table'.known[a]
    BY <1>3, <1>4, Zenon DEF Imports
  <2> QED
    BY <1>4, <2>1, <2>2, StillBeforeVotes DEF Inv
<1>12. (d = None /\ Still(table, r.tb)) \/ (d = s.digest /\ Takes(table, r.tb, s))
  BY <1>3, <1>17, Zenon DEF Imports
<1>13. None \notin Candidates
  BY CandidatesAssumption
<1>14. trackers' \in Seq(Trackers) /\ TrackersInv'
  <2>1. trackers \in Seq(Trackers) /\ TrackersInv
    BY <1>2 DEF Inv, Types
  <2>2. CASE d = None
    <3>1. trackers' = trackers /\ r.tb.votes = table.votes
      BY <1>1, <1>5, <1>12, <1>13, <2>2, Zenon DEF Still
    <3>2. \A e : CandidateIncludable(table', e) = CandidateIncludable(table, e)
      BY <1>4, <3>1, OthersStay
    <3> QED
      BY <2>1, <3>1, <3>2, ZenonT(40) DEF TrackersInv, Waits
  <2>3. CASE d = s.digest /\ Takes(table, r.tb, s)
    <3>1. d # None /\ d \in Candidates
      BY <1>1, <1>13, <2>3
    <3>2. trackers' = [i \in 1..Len(trackers) |->
            IF trackers[i].live THEN UpdateCandidate(trackers[i], d, CandidateIncludable(r.tb, d))
            ELSE trackers[i]]
      BY <1>5, <3>1, ZenonT(40) DEF UpdateTrackers
    <3>3. \A e \in Candidates \ {d} : r.tb.votes[e] = table.votes[e]
      BY <2>3 DEF Takes
    <3>4. ASSUME NEW i \in 1..Len(trackers)
          PROVE  trackers'[i] \in Trackers /\ (trackers'[i].live => Waits(trackers'[i], r.tb))
      <4>1. trackers[i] \in Trackers /\ (trackers[i].live => Waits(trackers[i], table))
        <5>1. trackers[i] \in Trackers /\ i \in DOMAIN trackers
          BY <2>1
        <5> QED
          BY <2>1, <5>1, ZenonT(40) DEF TrackersInv
      <4>2. CASE trackers[i].live
        <5>1. trackers'[i] = UpdateCandidate(trackers[i], d, CandidateIncludable(r.tb, d))
          BY <3>2, <4>2
        <5> QED
          BY <3>1, <3>3, <4>1, <4>2, <5>1, TrackerFollows
      <4>3. CASE ~trackers[i].live
        <5>1. trackers'[i] = trackers[i]
          BY <3>2, <4>3
        <5> QED
          BY <4>1, <4>3, <5>1
      <4> QED
        BY <4>2, <4>3
    <3>5. Len(trackers) \in Nat
      BY <2>1
    <3>6. trackers' \in [1..Len(trackers) -> Trackers]
      BY <3>2, <3>4
    <3>7. trackers' \in Seq(Trackers) /\ DOMAIN trackers' = 1..Len(trackers)
      BY <3>5, <3>6, FunctionIsSeq
    <3>8. \A i \in DOMAIN trackers' : trackers'[i].live => Waits(trackers'[i], table')
      BY <1>4, <3>4, <3>7
    <3> QED
      BY <3>7, <3>8, Zenon DEF TrackersInv, Waits
  <2> QED
    BY <1>12, <2>2, <2>3
<1>15. /\ ChecksInv'
       /\ started' \in [Candidates -> [validity : Nat, availability : Nat]]
       /\ checked_validity' \subseteq Candidates /\ checked_availability' \subseteq Candidates
  <2>1. CASE d = None
    BY <1>2, <1>5, <2>1 DEF Inv, Types, ChecksInv
  <2>2. CASE d \in Candidates
    <3> DEFINE v == CheckingValidity(d)
               a == CheckingAvailability(d)
    <3>1. d # None
      BY <1>13, <2>2
    <3>2. /\ started' = [started EXCEPT ![d].validity = IF v THEN @ + 1 ELSE @,
                                        ![d].availability = IF a THEN @ + 1 ELSE @]
          /\ checked_validity' = IF v THEN checked_validity \cup {d} ELSE checked_validity
          /\ checked_availability' = IF a THEN checked_availability \cup {d}
                                     ELSE checked_availability
      BY <1>5, <3>1 DEF StartWork
    <3>3. /\ v => IsMember(d) /\ d \notin checked_validity
          /\ a => IsGuarantor(d) /\ d \notin checked_availability
      BY DEF CheckingValidity, CheckingAvailability
    <3> HIDE DEF v, a
    <3> DEFINE x == IF v THEN started[d].validity + 1 ELSE started[d].validity
               y == IF a THEN started[d].availability + 1 ELSE started[d].availability
    <3>4. started \in [Candidates -> [validity : Nat, availability : Nat]]
      BY <1>2 DEF Types
    <3>5. /\ started' \in [Candidates -> [validity : Nat, availability : Nat]]
          /\ started'[d].validity = x /\ started'[d].availability = y
          /\ \A e \in Candidates \ {d} : started'[e] = started[e]
      <4> DEFINE w == [started[d] EXCEPT !.validity = x, !.availability = y]
      <4>1. started[d] \in [validity : Nat, availability : Nat] /\ x \in Nat /\ y \in Nat
        BY <2>2, <3>4
      <4>2. started' = [started EXCEPT ![d] = w]
        BY <2>2, <3>2, <3>4, Zenon
      <4> HIDE DEF x, y
      <4>3. w \in [validity : Nat, availability : Nat] /\ w.validity = x /\ w.availability = y
        BY <4>1, ZenonT(40)
      <4> HIDE DEF w
      <4> QED
        BY <2>2, <3>4, <4>2, <4>3
    <3>6. checked_validity' \subseteq Candidates /\ checked_availability' \subseteq Candidates
      BY <1>2, <2>2, <3>2 DEF Types
    <3>7. ASSUME NEW e \in Candidates
          PROVE  /\ started'[e].validity = IF e \in checked_validity' THEN 1 ELSE 0
                 /\ started'[e].availability = IF e \in checked_availability' THEN 1 ELSE 0
                 /\ e \in checked_validity' => IsMember(e)
                 /\ e \in checked_availability' => IsGuarantor(e)
      <4>1. /\ started[e].validity = IF e \in checked_validity THEN 1 ELSE 0
            /\ started[e].availability = IF e \in checked_availability THEN 1 ELSE 0
            /\ e \in checked_validity => IsMember(e)
            /\ e \in checked_availability => IsGuarantor(e)
        BY ZenonT(40) DEF Inv, ChecksInv
      <4> QED
        BY <2>2, <3>2, <3>3, <3>5, <4>1
    <3> QED
      BY <3>5, <3>6, <3>7, ZenonT(40) DEF ChecksInv, IsMember, IsGuarantor
  <2> QED
    BY <1>1, <1>12, <2>1, <2>2, ZenonT(40)
<1>16. Types'
  <2>1. table' \in Tables
    BY <1>3, <1>4, ZenonT(40) DEF Imports
  <2>2. heard' \subseteq Statements /\ timely' \subseteq heard'
    BY <1>1, <1>2, <1>4, ZenonT(40) DEF Heard, Types
  <2> QED
    BY <1>2, <1>4, <1>14, <1>15, <2>1, <2>2 DEF Types
<1> QED
  BY <1>7, <1>8, <1>9, <1>10, <1>11, <1>14, <1>15, <1>16 DEF Inv

(* The tracker that track_includability makes. *)
LEMMA TrackWaits ==
  ASSUME NEW tb, NEW S \in SUBSET Candidates
  PROVE  Track(tb, S) \in Trackers /\ (Track(tb, S).live => Waits(Track(tb, S), tb))
<1> DEFINE tracking == [d \in S |-> CandidateIncludable(tb, d)]
           In == {d \in S : CandidateIncludable(tb, d)}
           tr == Track(tb, S)
           l == Cardinality(In) # Cardinality(S)
<1>1. tr = [tracking |-> tracking, count |-> Cardinality(In), live |-> l]
  <2> DEFINE c == Cardinality(In)
  <2>1. DOMAIN tracking = S
    OBVIOUS
  <2>2. tr = TryComplete([tracking |-> tracking, count |-> c, live |-> TRUE])
    BY Zenon DEF Track
  <2> HIDE DEF c, tracking, tr
  <2>3. tr = [tracking |-> tracking, count |-> c, live |-> TRUE /\ c # Cardinality(S)]
    BY <2>1, <2>2 DEF TryComplete
  <2>4. (TRUE /\ c # Cardinality(S)) = (c # Cardinality(S))
    OBVIOUS
  <2> QED
    BY <2>3, <2>4, Zenon DEF c
<1>2. IsFiniteSet(S) /\ IsFiniteSet(In)
  BY CandidatesAssumption, FS_Subset
<1>3. Cardinality(In) \in Nat
  BY <1>2, FS_CardinalityType
<1>4. \A d \in S : CandidateIncludable(tb, d) \in BOOLEAN
  BY DEF CandidateIncludable
<1>5. tracking \in [S -> BOOLEAN] /\ DOMAIN tracking = S
  BY <1>4
<1>6. \A d \in S : tracking[d] = CandidateIncludable(tb, d)
  OBVIOUS
<1>8. l \in BOOLEAN
  OBVIOUS
<1> DEFINE c == Cardinality(In)
<1> HIDE DEF tracking, tr, c
<1>7. tracking \in UNION {[D -> BOOLEAN] : D \in SUBSET Candidates}
  BY <1>5
<1>9. tr \in Trackers
  <2>1. tr = [tracking |-> tracking, count |-> c, live |-> l] /\ c \in Nat
    BY <1>1, <1>3, Zenon DEF c
  <2> HIDE DEF l
  <2> QED
    BY <2>1, <1>7, <1>8 DEF Trackers
<1>10. {d \in DOMAIN tracking : tracking[d]} = In
  BY <1>5, <1>6
<1>11. tr.tracking = tracking /\ tr.count = Cardinality(In) /\ tr.live = l
  BY <1>1
<1>12. tr.live => Waits(tr, tb)
  BY <1>1, <1>5, <1>6, <1>10, <1>11, Zenon DEF Waits
<1> QED
  BY <1>9, <1>12 DEF tr

LEMMA TrackInv ==
  ASSUME Inv, NEW S \in SUBSET Candidates, TrackIncludability(S)
  PROVE  Inv'
<1> DEFINE new == Track(table, S)
<1>1. new \in Trackers /\ (new.live => Waits(new, table))
  BY TrackWaits
<1>2. trackers' = Append(trackers, new) /\ trackers \in Seq(Trackers)
  BY DEF TrackIncludability, Inv, Types
<1>3. UNCHANGED <<table, proposed_digest, checked_validity, checked_availability,
                  producers, finished, started, signed, heard, timely, sent>>
  BY DEF TrackIncludability
<1> HIDE DEF new
<1>4. trackers' \in Seq(Trackers)
  BY <1>1, <1>2
<1>5. \A i \in DOMAIN trackers' : trackers'[i] = new \/ (i \in DOMAIN trackers /\ trackers'[i] = trackers[i])
  BY <1>1, <1>2
<1>6. \A i \in DOMAIN trackers' : trackers'[i].live => Waits(trackers'[i], table)
  BY <1>1, <1>5 DEF Inv, TrackersInv
<1>7. TrackersInv'
  BY <1>3, <1>6 DEF TrackersInv, Waits
<1>8. Types'
  BY <1>3, <1>4 DEF Inv, Types
<1>9. ChecksInv' /\ CandidateBeforeVotes'
  BY <1>3, ZenonT(40) DEF Inv, ChecksInv, CandidateBeforeVotes
<1> QED
  BY <1>3, <1>7, <1>8, <1>9 DEF Inv

(* Filling a batch changes what the targets are known to know. *)
LEMMA BatchInv ==
  ASSUME Inv, NEW targets \in Targets, NEW batch \in Batches(table, targets),
         FillBatch(targets, batch)
  PROVE  Inv'
<1> DEFINE known == [a \in Authorities |->
             IF a \in targets THEN table.known[a] \cup {Trace(s) : s \in batch}
             ELSE table.known[a]]
<1>1. /\ table' = [table EXCEPT !.known = known]
      /\ sent' = [a \in Authorities |->
                    IF a \in targets THEN sent[a] \cup batch ELSE sent[a]]
  BY DEF FillBatch, NoteSent
<1>2. UNCHANGED <<proposed_digest, checked_validity, checked_availability, trackers,
                  producers, finished, started, signed, heard, timely>>
  BY ZenonT(40) DEF FillBatch
<1>3. table \in Tables /\ Types
  BY DEF Inv, Types
<1>4. ASSUME NEW s \in batch PROVE s \in Statements /\ Held(table, s)
  <2>1. batch \subseteq Sendable(table, targets) /\ Sendable(table, targets) \subseteq Stored(table)
    BY ZenonT(40) DEF Batches, Sendable
  <2> QED
    BY <1>3, <2>1, StoredIsHeld
<1>5. known \in [Authorities -> SUBSET Traces]
  BY <1>3, <1>4, ZenonT(40) DEF Tables, Traces
<1>6. \A a \in Authorities : table.known[a] \subseteq known[a]
  OBVIOUS
<1>7. \A a \in Authorities \cap targets : batch \subseteq sent'[a]
  BY <1>1
<1>8. \A a \in Authorities : sent[a] \subseteq sent'[a]
  BY <1>1
<1> HIDE DEF known
<1>9. /\ table' \in Tables /\ table'.known = known
      /\ table'.votes = table.votes /\ table'.includable = table.includable
      /\ table'.proposal = table.proposal /\ table'.misbehavior = table.misbehavior
  BY <1>1, <1>3, <1>5 DEF Tables
<1>10. sent' \in [Authorities -> SUBSET Statements]
  BY <1>1, <1>3, <1>4 DEF Types
<1>11. Types'
  BY <1>2, <1>3, <1>9, <1>10 DEF Types
<1>12. Counts(table)'
  <2>1. Counts(table')
    BY <1>3, <1>9, CountsStay, ZenonT(40) DEF Inv, Still
  <2> QED
    BY <2>1
<1>13. TrackersInv'
  <2>1. \A e : CandidateIncludable(table', e) = CandidateIncludable(table, e)
    BY <1>9, OthersStay
  <2> QED
    BY <1>2, <2>1 DEF Inv, TrackersInv, Waits
<1>14. \A s : Held(table', s) = Held(table, s)
  BY <1>9 DEF Held
<1>15. Issued(table)' /\ Proposed(table)'
  BY <1>9, <1>14, Zenon DEF Inv, Issued, Proposed
<1>16. Truthful(table, heard, timely)'
  BY <1>2, <1>9, <1>14, Zenon DEF Inv, Truthful
<1>17. Reported(table, heard)'
  BY <1>2, <1>9, ZenonT(40) DEF Inv, Reported
<1>18. CandidateBeforeVotes'
  <2> SUFFICES ASSUME NEW a \in Authorities, NEW s \in sent'[a]
               PROVE  \E t \in sent'[a] \cup heard' :
                        /\ t.kind = "Candidate" /\ t.digest = s.digest
                        /\ t \in sent'[a] \/ Trace(t) \in table'.known[a]
    BY ZenonT(40) DEF CandidateBeforeVotes
  <2>1. CASE s \in sent[a]
    <3>1. PICK t \in sent[a] \cup heard :
            /\ t.kind = "Candidate" /\ t.digest = s.digest
            /\ t \in sent[a] \/ Trace(t) \in table.known[a]
      BY <2>1, Zenon DEF Inv, CandidateBeforeVotes
    <3> QED
      BY <1>2, <1>6, <1>8, <1>9, <3>1
  <2>2. CASE s \notin sent[a]
    <3>1. a \in targets /\ s \in batch
      BY <1>1, <2>2
    <3>2. PICK t \in Statements : /\ Held(table, t)
                                  /\ t.kind = "Candidate" /\ t.digest = s.digest
                                  /\ t \in batch \/ Trace(t) \in table.known[a]
      <4>1. Issued(table)
        BY Zenon DEF Inv
      <4>2. table \in Tables /\ batch \in Batches(table, targets) /\ s \in batch /\ a \in targets
        BY <1>3, <3>1
      <4>3. Preceded(table, batch, s, a)
        BY <4>1, <4>2, BatchInOrder, ZenonT(40)
      <4> QED
        BY <4>3, ZenonT(40) DEF Preceded
    <3>3. t \in heard
      BY <1>3, <3>2, Zenon DEF Inv, Truthful, Types
    <3> QED
      BY <1>2, <1>6, <1>7, <1>9, <3>1, <3>2, <3>3, Zenon
  <2> QED
    BY <2>1, <2>2, ZenonT(40)
<1>19. ChecksInv'
  BY <1>2, ZenonT(40) DEF Inv, ChecksInv
<1> QED
  BY <1>11, <1>12, <1>13, <1>15, <1>16, <1>17, <1>18, <1>19 DEF Inv

LEMMA UnchangedInv ==
  ASSUME Inv, UNCHANGED <<table, checked_validity, checked_availability, trackers,
                          started, heard, timely, sent>>
  PROVE  Inv'
<1>1. Types' /\ TrackersInv' /\ CandidateBeforeVotes' /\ ChecksInv'
  BY ZenonT(40) DEF Inv, Types, TrackersInv, CandidateBeforeVotes, ChecksInv
<1> QED
  BY <1>1 DEF Inv

LEMMA NextInv == Inv /\ [Next]_vars => Inv'
<1> SUFFICES ASSUME Inv, [Next]_vars PROVE Inv'
  OBVIOUS
<1>1. ASSUME NEW s \in Voices, NEW from \in Sources, ImportRemote(s, from)
      PROVE  Inv'
  BY <1>1, ImportInv
<1>2. ASSUME NEW targets \in Targets, NEW batch \in Batches(table, targets),
             FillBatch(targets, batch)
      PROVE  Inv'
  BY <1>2, BatchInv
<1>3. ASSUME NEW d \in Candidates, SignAndImport(d)
      PROVE  Inv'
  BY <1>3, UnchangedInv DEF SignAndImport
<1>4. ASSUME NEW S \in SUBSET Candidates, TrackIncludability(S)
      PROVE  Inv'
  BY <1>4, TrackInv
<1>5. ASSUME NEW w \in producers, NEW b \in BOOLEAN, NEW e \in BOOLEAN, NEW good \in BOOLEAN,
             PollProducer(w, b, e, good)
      PROVE  Inv'
  BY <1>5, UnchangedInv DEF PollProducer, shared
<1>6. ASSUME NEW w \in producers, FailProducer(w)
      PROVE  Inv'
  BY <1>6, UnchangedInv DEF FailProducer, shared
<1>7. CASE UNCHANGED vars
  BY <1>7, UnchangedInv DEF vars, shared
<1> QED
  BY <1>1, <1>2, <1>3, <1>4, <1>5, <1>6, <1>7 DEF Next

LEMMA InvHolds == Spec => []Inv
BY InitInv, NextInv, PTL DEF Spec

-----------------------------------------------------------------------------
(* Digests are ordered: there is a least among any. *)
LEMMA Order == \E R : IsWellFoundedOn(R, Nat) /\ \A x, y \in Nat : x < y => <<x, y>> \in R
<1>1. \A x, y \in Nat : x < y => <<x, y>> \in OpToRel(<, Nat)
  BY DEF OpToRel
<1> QED
  BY <1>1, NatLessThanWellFounded, Zenon

LEMMA Least ==
  ASSUME NEW S, S \subseteq Nat, S # {}
  PROVE  \E x \in S : \A y \in S : x <= y
<1>1. PICK R : IsWellFoundedOn(R, Nat) /\ \A x, y \in Nat : x < y => <<x, y>> \in R
  BY Order
<1>2. IsWellFoundedOn(R, Nat)
  BY <1>1
<1>3. PICK x \in S : \A y \in S : ~(<<y, x>> \in R)
  BY <1>2, WFMin, Zenon
<1>4. \A y \in S : ~(y < x)
  BY <1>1, <1>3, ZenonT(40)
<1>5. \A y \in S : x \in Nat /\ y \in Nat
  OBVIOUS
<1> QED
  BY <1>4, <1>5

(* proposed_candidates, from the counts. *)
LEMMA ProposedPerGroup ==
  ASSUME Counts(table), NEW g \in Groups,
         NEW P, P = {d \in ProposedCandidates(table) : GroupOf[d] = g}
  PROVE  /\ table.includable[g] > 0 <=> P # {}
         /\ \A d, e \in P : d = e /\ CandidateIncludable(table, d)
<1> DEFINE S == Includable(table, g)
<1>1. table.includable[g] = Cardinality(S) /\ S \subseteq Candidates
  BY DEF Counts, Includable
<1>2. IsFiniteSet(S) /\ S \subseteq Nat
  BY <1>1, CandidatesAssumption, FS_Subset, ZenonT(40)
<1>3. table.includable[g] \in Nat /\ (table.includable[g] = 0 <=> S = {})
  BY <1>1, <1>2, FS_CardinalityType, FS_EmptySet, ZenonT(40)
<1>4. P = IF table.includable[g] > 0 THEN {d \in S : \A e \in S : d <= e} ELSE {}
  BY ZenonT(40) DEF ProposedCandidates, Includable
<1> HIDE DEF S
<1>5. CASE S = {}
  BY <1>3, <1>4, <1>5
<1>6. CASE S # {}
  <2>1. PICK d \in S : \A e \in S : d <= e
    BY <1>2, <1>6, Least
  <2>2. \A x, y \in P : x = y
    BY <1>2, <1>4
  <2>3. P # {} /\ table.includable[g] > 0
    BY <1>3, <1>4, <1>6, <2>1
  <2>4. \A x \in P : CandidateIncludable(table, x)
    BY <1>4 DEF S, Includable
  <2> QED
    BY <2>2, <2>3, <2>4
<1> QED
  BY <1>5, <1>6

(* The count of includable candidates that Table keeps per group is exact  *)
(* after every import, one candidate is proposed for each group with a     *)
(* count, and a tracker that has not been told yet waits for a candidate   *)
(* that is not includable: no wake-up is missed.                           *)
THEOREM IncludableTrackedHolds == Spec => []IncludableTracked
<1>1. Inv => IncludableTracked
  <2> SUFFICES ASSUME Inv PROVE IncludableTracked
    BY ZenonT(40)
  <2>1. IncludableCountExact
    BY DEF Inv, Counts, Includable, IncludableCountExact
  <2>2. TrackersCurrent
    <3> SUFFICES ASSUME NEW i \in 1..Len(trackers), trackers[i].live
                 PROVE  LET tr == trackers[i]
                        IN  /\ \A d \in DOMAIN tr.tracking :
                                 tr.tracking[d] = CandidateIncludable(table, d)
                            /\ \E d \in DOMAIN tr.tracking : ~CandidateIncludable(table, d)
      BY DEF TrackersCurrent
    <3> DEFINE tr == trackers[i]
    <3>1. i \in DOMAIN trackers
      BY DEF Inv, Types
    <3>2. Waits(tr, table)
      BY <3>1 DEF Inv, TrackersInv
    <3>3. ~\A d \in DOMAIN tr.tracking : tr.tracking[d]
      <4> SUFFICES ASSUME \A d \in DOMAIN tr.tracking : tr.tracking[d] PROVE FALSE
        OBVIOUS
      <4>1. {d \in DOMAIN tr.tracking : tr.tracking[d]} = DOMAIN tr.tracking
        OBVIOUS
      <4> QED
        BY <3>2, <4>1, ZenonT(40) DEF Waits
    <3> QED
      BY <3>2, <3>3 DEF Waits
  <2>3. OneProposedPerGroup
    BY ProposedPerGroup, Zenon DEF Inv, OneProposedPerGroup
  <2> QED
    BY <2>1, <2>2, <2>3 DEF IncludableTracked
<1> QED
  BY <1>1, InvHolds, PTL

(* Table::import_statement keeps the votes that were cast by those who may *)
(* cast them, all of them until an authority misbehaves, and reports only  *)
(* misbehavior that the statements heard prove.                            *)
THEOREM StatementsTrueHolds == Spec => []StatementsTrue
<1>1. Inv => StatementsTrue
  <2> SUFFICES ASSUME Inv PROVE StatementsTrue
    BY ZenonT(40)
  <2>1. ReportsAreTrue
    BY DEF Inv, Reported, Proves, ReportsAreTrue
  <2>2. Stored(table) = {x \in Statements : Held(table, x)}
    BY StoredIsHeld DEF Inv, Types
  <2>3. timely \subseteq Statements
    BY DEF Inv, Types
  <2>4. VotesAreHeard
    BY <2>2, <2>3, Zenon DEF Inv, Truthful, VotesAreHeard
  <2> QED
    BY <2>1, <2>4 DEF StatementsTrue
<1> QED
  BY <1>1, InvHolds, PTL

(* fill_batch never sends a vote to an authority that has not been sent,   *)
(* or known to have, a statement that issues the candidate; and no import  *)
(* starts the check of a candidate again, or one that is not this          *)
(* authority's.                                                            *)
THEOREM RelayedAndCheckedHolds == Spec => []RelayedAndChecked
<1>1. Inv => RelayedAndChecked
  <2> SUFFICES ASSUME Inv PROVE RelayedAndChecked
    OBVIOUS
  <2>1. CheckedOnce
    <3> SUFFICES ASSUME NEW d \in Candidates
                 PROVE  /\ started[d].validity <= IF IsMember(d) THEN 1 ELSE 0
                        /\ started[d].availability <= IF IsGuarantor(d) THEN 1 ELSE 0
      BY DEF CheckedOnce
    <3>1. /\ started[d].validity = IF d \in checked_validity THEN 1 ELSE 0
          /\ started[d].availability = IF d \in checked_availability THEN 1 ELSE 0
          /\ d \in checked_validity => IsMember(d)
          /\ d \in checked_availability => IsGuarantor(d)
      BY Zenon DEF Inv, ChecksInv
    <3> QED
      BY <3>1
  <2> QED
    BY <2>1, ZenonT(40) DEF Inv, RelayedAndChecked
<1> QED
  BY <1>1, InvHolds, PTL
=============================================================================
