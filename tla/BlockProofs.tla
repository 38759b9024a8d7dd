---------------------------- MODULE BlockProofs ----------------------------
(***************************************************************************)
(* Proofs about what goes into a block and when it is voted for: the       *)
(* transactions that a proposer takes from the pool (ProposeBlock), the    *)
(* candidates that evaluation and runtime accept and the groups that       *)
(* check them (Parachains), and the waiting of the authorities that        *)
(* evaluate it (Evaluation).                                               *)
(***************************************************************************)
EXTENDS ProposeBlock, Parachains, Evaluation, SequenceTheorems, FiniteSetTheorems,
        WellFoundedInduction, TLAPS

-----------------------------------------------------------------------------
(* Evaluation: nobody votes for a block before it is time. *)

(* What the code fixes: durations are not negative, timers count whole     *)
(* milliseconds, and a clock may be ahead of the common one.               *)
Clocks ==
  /\ SECOND \in Nat \ {0} /\ MILLI \in Nat \ {0} /\ AllowEmpty \in Nat
  /\ IsFiniteSet(Candidates)
  /\ Skews \subseteq [Authorities -> Nat]
  /\ None \notin Nat /\ None \notin BOOLEAN

(* The state has its fields. *)
Shape(s) ==
  s = [seed |-> s.seed, skew |-> s.skew, now |-> s.now, started |-> s.started, inc |-> s.inc,
       round |-> s.round, counted |-> s.counted, proposal |-> s.proposal, voting |-> s.voting,
       vote |-> s.vote, falls |-> s.falls, together |-> s.together]

Typed(s) ==
  /\ s.now \in Nat
  /\ s.skew \in [Authorities -> Nat]
  /\ s.started \in [Authorities -> Nat \cup {None}]
  /\ s.inc \in [Authorities -> SUBSET Candidates]
  /\ s.proposal # None => s.proposal.heads \subseteq Candidates /\ s.proposal.timestamp \in Nat
  /\ s.voting \in [Authorities -> [until : Nat, includable : BOOLEAN] \cup {None}]
  /\ s.vote \in [Authorities -> BOOLEAN \cup {None}]

(* An authority that evaluates the proposal waits until its clock shows    *)
(* the timestamp and the candidates are enough, and the tracker has sent   *)
(* only if all of them were includable.                                    *)
Timed(s, a) ==
  /\ s.proposal # None /\ s.started[a] # None
  /\ s.proposal.timestamp * SECOND <= s.voting[a].until + s.skew[a]
  /\ s.voting[a].until - s.started[a] + MILLI - 1 >= Timing!ValidAfter(Dynamic, Cardinality(s.proposal.heads))
  /\ s.voting[a].includable => a \in s.together

Good(s) ==
  /\ Shape(s) /\ Typed(s)
  /\ \A a \in Authorities : s.voting[a] # None => Timed(s, a)

-----------------------------------------------------------------------------
(* Division rounds down ...                                                *)
LEMMA Divided ==
  ASSUME NEW x \in Nat, NEW s \in Nat \ {0}
  PROVE  (x \div s) \in Nat /\ (x \div s) * s <= x /\ x < (x \div s) * s + s
  OBVIOUS

(* ... and no further than to the multiple below.                          *)
LEMMA Multiplied ==
  ASSUME NEW x \in Nat, NEW y \in Nat, NEW s \in Nat \ {0}, y * s <= x
  PROVE  y <= x \div s
<1> DEFINE q == x \div s
<1>1. q \in Nat /\ y * s < (q + 1) * s
  BY Divided
<1> HIDE DEF q
<1>2. ~(y >= q + 1)
  BY <1>1
<1> QED
  BY <1>1, <1>2 DEF q

(* When a number of candidates is enough is a number. *)
LEMMA ValidAfterType ==
  ASSUME Clocks, NEW n \in Nat
  PROVE  Timing!ValidAfter(Dynamic, n) \in Nat
<1>1. Cardinality(Candidates) \in Nat /\ AllowEmpty \in Nat
  BY FS_CardinalityType DEF Clocks
<1> DEFINE c == Cardinality(Candidates)
<1>2. Dynamic.y \in Nat /\ Dynamic.m \in Nat
  <2>1. CASE c = 0
    BY <2>1 DEF Dynamic, Timing!NewDynamicInclusion
  <2>2. CASE c # 0
    <3>1. (AllowEmpty \div c) \in Nat
      BY <1>1, <2>2, Divided
    <3> QED
      BY <1>1, <2>2, <3>1 DEF Dynamic, Timing!NewDynamicInclusion
  <2> QED
    BY <2>1, <2>2
<1> DEFINE y == Dynamic.y
           m == Dynamic.m
           p == m * n
<1>3. p \in Nat /\ y \in Nat
  BY <1>2
<1>4. Timing!ValidAfter(Dynamic, n) = IF y >= p THEN y - p ELSE 0
  BY DEF Timing!ValidAfter
<1> HIDE DEF y, p
<1> QED
  BY <1>3, <1>4

(* The included candidates can be counted.                                 *)
LEMMA HeadsCounted ==
  ASSUME Clocks, NEW S, S \subseteq Candidates
  PROVE  Cardinality(S) \in Nat
  BY FS_Subset, FS_CardinalityType DEF Clocks

(* What TemporaryDelay waits for. *)
LEMMA DelayEnough ==
  ASSUME Clocks, Typed(e), NEW a \in Authorities, e.proposal # None, e.started[a] # None,
         NEW until, until = e.now + TemporaryDelay(a, e.proposal)
  PROVE  /\ until \in Nat
         /\ e.proposal.timestamp * SECOND <= until + e.skew[a]
         /\ until - e.started[a] + MILLI - 1 >= Timing!ValidAfter(Dynamic, Cardinality(e.proposal.heads))
<1> DEFINE ts == e.proposal.timestamp
           now == e.now
           skew == e.skew[a]
           cur == CurrentTimestamp(a)
           va == Timing!ValidAfter(Dynamic, Cardinality(e.proposal.heads))
           el == Elapsed(a)
           td == TimestampDelay(a, e.proposal)
           cd == CountDelay(a, e.proposal)
<1>1. ts \in Nat /\ now \in Nat /\ skew \in Nat /\ e.started[a] \in Nat /\ el \in Int /\ el = now - e.started[a]
  BY DEF Typed, Elapsed
<1>2. va \in Nat
  BY HeadsCounted, ValidAfterType DEF Typed
<1>3. cur \in Nat /\ cur * SECOND <= now + skew
  <2>1. now + skew \in Nat /\ SECOND \in Nat \ {0}
    BY <1>1 DEF Clocks
  <2>2. cur = (now + skew) \div SECOND
    BY DEF CurrentTimestamp
  <2> HIDE DEF now, skew, cur
  <2> QED
    BY <2>1, <2>2, Divided
<1>4. td = IF ts > cur THEN (ts - cur) * SECOND ELSE 0
  BY DEF TimestampDelay
<1>5. cd = IF el >= va THEN 0 ELSE ((va - el) \div MILLI) * MILLI
  BY DEF CountDelay, Timing!AcceptableIn, Timing!Acceptable
<1>6. until = now + (IF td > cd THEN td ELSE cd)
  BY DEF TemporaryDelay
<1> HIDE DEF ts, now, skew, cur, va, el, td, cd
<1>7. td \in Nat /\ ts * SECOND <= now + td + skew
  <2>1. CASE ts > cur
    <3>1. (ts - cur) * SECOND \in Nat /\ (ts - cur) * SECOND + cur * SECOND = ts * SECOND
      BY <1>1, <1>3, <2>1 DEF Clocks
    <3> DEFINE x == (ts - cur) * SECOND
               y == cur * SECOND
               z == ts * SECOND
    <3>2. td = x /\ x \in Nat /\ x + y = z /\ y <= now + skew /\ y \in Int /\ z \in Int
      BY <1>1, <1>3, <1>4, <2>1, <3>1 DEF Clocks
    <3> HIDE DEF x, y
    <3> QED
      BY <1>1, <3>2
  <2>2. CASE ~(ts > cur)
    <3>1. ts <= cur /\ ts * SECOND <= cur * SECOND /\ ts * SECOND \in Nat /\ cur * SECOND \in Nat
      BY <1>1, <1>3, <2>2 DEF Clocks
    <3> DEFINE y == cur * SECOND
               z == ts * SECOND
    <3>2. z <= y /\ y <= now + skew /\ y \in Nat /\ z \in Nat /\ td = 0
      BY <1>3, <1>4, <2>2, <3>1
    <3> HIDE DEF y, z
    <3>3. z <= now + td + skew /\ td \in Nat
      BY <1>1, <3>2
    <3> QED
      BY <3>3 DEF z
  <2> QED
    BY <2>1, <2>2
<1>8. cd \in Nat /\ now + cd - e.started[a] + MILLI - 1 >= va
  <2>1. CASE el >= va
    BY <1>1, <1>2, <1>5, <2>1 DEF Clocks
  <2>2. CASE ~(el >= va)
    <3>1. va - el \in Nat
      BY <1>1, <1>2, <2>2
    <3> DEFINE w == va - el
               q == (w \div MILLI) * MILLI
    <3>2. (w \div MILLI) \in Nat /\ q + MILLI > w
      BY <3>1, Divided, ZenonT(40) DEF Clocks
    <3>3. q \in Nat
      BY <3>2 DEF Clocks
    <3>4. cd = q
      BY <1>5, <2>2
    <3> HIDE DEF q
    <3> QED
      BY <1>1, <1>2, <3>2, <3>3, <3>4 DEF Clocks
  <2> QED
    BY <2>1, <2>2
<1>9. ts * SECOND \in Nat
  BY <1>1 DEF Clocks
<1> DEFINE z == ts * SECOND
<1>10. z \in Nat /\ z <= now + td + skew
  BY <1>7, <1>9
<1> HIDE DEF z
<1>11. until \in Nat /\ z <= until + skew /\ until - e.started[a] + MILLI - 1 >= va
  BY <1>1, <1>2, <1>6, <1>7, <1>8, <1>10 DEF Clocks
<1> QED
  BY <1>11 DEF z, ts, skew, va
-----------------------------------------------------------------------------
(* Nothing of the evaluations changes. *)
LEMMA GoodStays ==
  ASSUME NEW s, Good(s), NEW t, Shape(t), Typed(t),
         t.skew = s.skew, t.voting = s.voting, t.together = s.together,
         s.proposal # None => t.proposal = s.proposal,
         \A a \in Authorities : s.started[a] # None => t.started[a] = s.started[a]
  PROVE  Good(t)
<1>1. ASSUME NEW a \in Authorities, t.voting[a] # None PROVE Timed(t, a)
  <2>1. Timed(s, a)
    BY <1>1 DEF Good
  <2>2. s.proposal # None /\ s.started[a] # None
    BY <2>1, ZenonT(40) DEF Timed
  <2>3. t.proposal = s.proposal /\ t.started[a] = s.started[a]
    BY <2>2
  <2> QED
    BY <2>1, <2>3 DEF Timed
<1> QED
  BY <1>1 DEF Good

(* The tracker sends when all candidates are includable. *)
LEMMA TrackerGood ==
  ASSUME NEW s, Good(s), NEW a \in Authorities
  PROVE  /\ Good(TrackerUpdated(s, a))
         /\ TrackerUpdated(s, a).vote = s.vote
<1>1. CASE TrackerUpdated(s, a) = s
  BY <1>1
<1>2. CASE TrackerUpdated(s, a) # s
  <2> DEFINE x == [s.voting[a] EXCEPT !.includable = TRUE]
             w == [s.voting EXCEPT ![a] = x]
             g == s.together \cup {a}
             t == [s EXCEPT !.voting = w, !.together = g]
  <2>1. s.voting[a] # None /\ TrackerUpdated(s, a) = t
    BY <1>2 DEF TrackerUpdated
  <2>2. Shape(s) /\ Typed(s) /\ Timed(s, a)
    BY <2>1 DEF Good
  <2>3. s.voting[a] \in [until : Nat, includable : BOOLEAN]
    BY <2>1, <2>2 DEF Typed
  <2>4. x \in [until : Nat, includable : BOOLEAN] /\ x.until = s.voting[a].until
    BY <2>3
  <2>5. /\ w \in [Authorities -> [until : Nat, includable : BOOLEAN] \cup {None}]
        /\ w[a] = x /\ \A b \in Authorities \ {a} : w[b] = s.voting[b]
    BY <2>2, <2>4 DEF Typed
  <2> HIDE DEF x, w, g
  <2> DEFINE r == [s EXCEPT !.voting = w]
  <2>a. t = [r EXCEPT !.together = g]
    OBVIOUS
  <2>b. Shape(r) /\ r.skew = s.skew /\ r.now = s.now /\ r.started = s.started /\ r.inc = s.inc
        /\ r.proposal = s.proposal /\ r.voting = w /\ r.vote = s.vote
    BY <2>2 DEF Shape
  <2> HIDE DEF r, t
  <2>6. Shape(t) /\ t.skew = s.skew /\ t.now = s.now /\ t.started = s.started /\ t.inc = s.inc
        /\ t.proposal = s.proposal /\ t.voting = w /\ t.vote = s.vote /\ t.together = g
    BY <2>a, <2>b DEF Shape
  <2>7. Typed(t)
    BY <2>2, <2>5, <2>6 DEF Typed
  <2>8. ASSUME NEW b \in Authorities, t.voting[b] # None PROVE Timed(t, b)
    <3>1. CASE b = a
      BY <2>2, <2>4, <2>5, <2>6, <3>1, Zenon DEF Timed, g
    <3>2. CASE b # a
      <4>1. t.voting[b] = s.voting[b] /\ Timed(s, b)
        BY <2>5, <2>6, <2>8, <3>2, Zenon DEF Good
      <4> QED
        BY <2>6, <4>1, Zenon DEF Timed, g
    <3> QED
      BY <3>1, <3>2
  <2> QED
    BY <2>1, <2>6, <2>7, <2>8 DEF Good
<1> QED
  BY <1>1, <1>2

(* What an authority votes. *)
VotesLater(s, t) ==
  \A a \in Authorities : s.vote[a] = None => t.vote[a] # TRUE

LEMMA SameVotes ==
  ASSUME Clocks, NEW s, NEW t, t.vote = s.vote
  PROVE  VotesLater(s, t)
  BY DEF VotesLater, Clocks

(* Time passes.                                                            *)
LEMMA TickGood ==
  ASSUME Clocks, Good(e), Tick
  PROVE  Good(e') /\ VotesLater(e, e')
<1> DEFINE n == e.now + 1
<1>1. n \in Nat /\ Shape(e) /\ e' = [e EXCEPT !.now = n]
  BY DEF Good, Typed, Tick
<1> HIDE DEF n
<1>2. Shape(e') /\ e'.skew = e.skew /\ e'.now = n /\ e'.started = e.started /\ e'.inc = e.inc
      /\ e'.proposal = e.proposal /\ e'.voting = e.voting /\ e'.vote = e.vote /\ e'.together = e.together
  BY <1>1 DEF Shape
<1>3. Typed(e')
  BY <1>1, <1>2 DEF Good, Typed
<1> QED
  BY <1>2, <1>3, GoodStays, SameVotes

(* An authority starts on the round.                                       *)
LEMMA InitProposerGood ==
  ASSUME Clocks, Good(e), NEW a \in Authorities, InitProposer(a)
  PROVE  Good(e') /\ VotesLater(e, e')
<1> DEFINE n == [e.started EXCEPT ![a] = e.now]
<1>1. Shape(e) /\ Typed(e) /\ e' = [e EXCEPT !.started = n] /\ e.started[a] = None
  BY DEF Good, InitProposer
<1>2. n \in [Authorities -> Nat \cup {None}] /\ \A b \in Authorities : e.started[b] # None => n[b] = e.started[b]
  BY <1>1 DEF Typed
<1> HIDE DEF n
<1>3. Shape(e') /\ e'.skew = e.skew /\ e'.now = e.now /\ e'.started = n /\ e'.inc = e.inc
      /\ e'.proposal = e.proposal /\ e'.voting = e.voting /\ e'.vote = e.vote /\ e'.together = e.together
  BY <1>1 DEF Shape
<1>4. Typed(e')
  BY <1>1, <1>2, <1>3 DEF Typed
<1> QED
  BY <1>2, <1>3, <1>4, GoodStays, SameVotes, Zenon

(* The table of an authority is another. *)
LEMMA TableGood ==
  ASSUME Clocks, Good(e), NEW a \in Authorities, NEW S \in SUBSET Candidates, NEW n,
         e' = TrackerUpdated([e EXCEPT !.inc[a] = S, !.falls = n], a)
  PROVE  Good(e') /\ VotesLater(e, e')
<1> DEFINE i == [e.inc EXCEPT ![a] = S]
           s == [e EXCEPT !.inc = i, !.falls = n]
<1>1. Shape(e) /\ Typed(e) /\ e' = TrackerUpdated(s, a) /\ i \in [Authorities -> SUBSET Candidates]
  BY DEF Good, Typed
<1> HIDE DEF i
<1> DEFINE r == [e EXCEPT !.inc = i]
<1>a. s = [r EXCEPT !.falls = n]
  OBVIOUS
<1>b. Shape(r) /\ r.skew = e.skew /\ r.now = e.now /\ r.started = e.started /\ r.inc = i
      /\ r.proposal = e.proposal /\ r.voting = e.voting /\ r.vote = e.vote /\ r.together = e.together
  BY <1>1 DEF Shape
<1> HIDE DEF r, s
<1>2. Shape(s) /\ s.skew = e.skew /\ s.now = e.now /\ s.started = e.started /\ s.inc = i
      /\ s.proposal = e.proposal /\ s.voting = e.voting /\ s.vote = e.vote /\ s.together = e.together
  BY <1>a, <1>b DEF Shape
<1>3. Typed(s)
  BY <1>1, <1>2 DEF Typed
<1>4. Good(s)
  BY <1>2, <1>3, GoodStays
<1>5. Good(e') /\ e'.vote = e.vote
  BY <1>1, <1>2, <1>4, TrackerGood
<1> QED
  BY <1>5, SameVotes

(* The proposer counts the candidates and makes a block with them.         *)
LEMMA ProposerGood ==
  ASSUME Clocks, Good(e), NEW a \in Authorities, CountCandidates(a) \/ ProposeWith(a)
  PROVE  Good(e') /\ VotesLater(e, e')
<1>0. Shape(e) /\ Typed(e)
  BY DEF Good
<1>1. CASE CountCandidates(a)
  <2> DEFINE n == IncludableCount(a)
  <2>1. e' = [e EXCEPT !.counted = n]
    BY <1>1 DEF CountCandidates
  <2> HIDE DEF n
  <2>2. Shape(e') /\ e'.skew = e.skew /\ e'.now = e.now /\ e'.started = e.started /\ e'.inc = e.inc
        /\ e'.proposal = e.proposal /\ e'.voting = e.voting /\ e'.vote = e.vote /\ e'.together = e.together
    BY <1>0, <2>1 DEF Shape
  <2>3. Typed(e')
    BY <1>0, <2>2 DEF Typed
  <2> QED
    BY <2>2, <2>3, GoodStays, SameVotes, Zenon
<1>2. CASE ProposeWith(a)
  <2>1. PICK good \in BOOLEAN :
          e' = [e EXCEPT !.proposal = [heads |-> e.inc[a], timestamp |-> CurrentTimestamp(a), good |-> good]]
    BY <1>2 DEF ProposeWith, WithProposal
  <2> DEFINE p == [heads |-> e.inc[a], timestamp |-> CurrentTimestamp(a), good |-> good]
  <2>2. e.proposal = None /\ e' = [e EXCEPT !.proposal = p]
    BY <1>2, <2>1 DEF ProposeWith
  <2>3. CurrentTimestamp(a) \in Nat
    <3>1. e.now + e.skew[a] \in Nat /\ SECOND \in Nat \ {0}
      BY <1>0 DEF Typed, Clocks
    <3> QED
      BY <3>1, Divided DEF CurrentTimestamp
  <2>4. p.heads \subseteq Candidates /\ p.timestamp \in Nat
    BY <1>0, <2>3, Zenon DEF Typed
  <2> HIDE DEF p
  <2>5. Shape(e') /\ e'.skew = e.skew /\ e'.now = e.now /\ e'.started = e.started /\ e'.inc = e.inc
        /\ e'.proposal = p /\ e'.voting = e.voting /\ e'.vote = e.vote /\ e'.together = e.together
    BY <1>0, <2>2 DEF Shape
  <2>6. Typed(e')
    BY <1>0, <2>4, <2>5 DEF Typed
  <2> QED
    BY <2>2, <2>5, <2>6, GoodStays, SameVotes, ZenonT(40)
<1> QED
  BY <1>1, <1>2

(* A proposal that is evaluated is voted against, or waited with. *)
LEMMA EvaluateGood ==
  ASSUME Clocks, Good(e), NEW a \in Authorities, Evaluate(a)
  PROVE  Good(e') /\ VotesLater(e, e')
<1>1. Shape(e) /\ Typed(e) /\ e.proposal # None /\ e.started[a] # None
      /\ e.voting[a] = None /\ e.vote[a] = None
  BY DEF Good, Evaluate
<1> DEFINE until == e.now + TemporaryDelay(a, e.proposal)
<1>2. PICK inc \in SUBSET e.proposal.heads :
        \/ e' = [e EXCEPT !.vote[a] = FALSE]
        \/ e' = TrackerUpdated([e EXCEPT !.inc[a] = inc, !.voting[a] = [until |-> until, includable |-> FALSE]], a)
  BY ZenonT(40) DEF Evaluate
<1>3. CASE e' = [e EXCEPT !.vote[a] = FALSE]
  <2> DEFINE n == [e.vote EXCEPT ![a] = FALSE]
  <2>1. /\ n \in [Authorities -> BOOLEAN \cup {None}] /\ e' = [e EXCEPT !.vote = n]
        /\ n[a] = FALSE /\ \A b \in Authorities \ {a} : n[b] = e.vote[b]
    BY <1>1, <1>3 DEF Typed
  <2> HIDE DEF n
  <2>2. Shape(e') /\ e'.skew = e.skew /\ e'.now = e.now /\ e'.started = e.started /\ e'.inc = e.inc
        /\ e'.proposal = e.proposal /\ e'.voting = e.voting /\ e'.vote = n /\ e'.together = e.together
    BY <1>1, <2>1 DEF Shape
  <2>3. Typed(e')
    BY <1>1, <2>1, <2>2 DEF Typed
  <2>4. VotesLater(e, e')
    BY <2>1, <2>2 DEF VotesLater, Clocks
  <2> QED
    BY <2>2, <2>3, <2>4, GoodStays
<1>4. CASE e' = TrackerUpdated([e EXCEPT !.inc[a] = inc, !.voting[a] = [until |-> until, includable |-> FALSE]], a)
  <2>1. /\ until \in Nat
        /\ e.proposal.timestamp * SECOND <= until + e.skew[a]
        /\ until - e.started[a] + MILLI - 1 >= Timing!ValidAfter(Dynamic, Cardinality(e.proposal.heads))
    BY <1>1, DelayEnough, Zenon
  <2> HIDE DEF until
  <2> DEFINE x == [until |-> until, includable |-> FALSE]
             i == [e.inc EXCEPT ![a] = inc]
             w == [e.voting EXCEPT ![a] = x]
             r == [e EXCEPT !.inc = i]
             s == [e EXCEPT !.inc = i, !.voting = w]
  <2>2. e' = TrackerUpdated(s, a) /\ s = [r EXCEPT !.voting = w]
    BY <1>4
  <2>3. x \in [until : Nat, includable : BOOLEAN] /\ x.until = until /\ ~x.includable
    BY <2>1, Zenon
  <2>4. inc \subseteq Candidates
    BY <1>1, <1>2 DEF Typed
  <2> HIDE DEF x
  <2>5. /\ i \in [Authorities -> SUBSET Candidates]
        /\ w \in [Authorities -> [until : Nat, includable : BOOLEAN] \cup {None}]
        /\ w[a] = x /\ \A b \in Authorities \ {a} : w[b] = e.voting[b]
    BY <1>1, <2>3, <2>4 DEF Typed
  <2> HIDE DEF i, w
  <2>6. Shape(r) /\ r.skew = e.skew /\ r.now = e.now /\ r.started = e.started /\ r.inc = i
        /\ r.proposal = e.proposal /\ r.vote = e.vote /\ r.together = e.together
    BY <1>1 DEF Shape
  <2> HIDE DEF r, s
  <2>7. Shape(s) /\ s.skew = e.skew /\ s.now = e.now /\ s.started = e.started /\ s.inc = i
        /\ s.proposal = e.proposal /\ s.voting = w /\ s.vote = e.vote /\ s.together = e.together
    BY <2>2, <2>6 DEF Shape
  <2>8. Typed(s)
    BY <1>1, <2>5, <2>7, Zenon DEF Typed
  <2>9. ASSUME NEW b \in Authorities, s.voting[b] # None PROVE Timed(s, b)
    <3>1. CASE b = a
      BY <1>1, <2>1, <2>3, <2>5, <2>7, <3>1, ZenonT(40) DEF Timed
    <3>2. CASE b # a
      <4>1. s.voting[b] = e.voting[b] /\ Timed(e, b)
        BY <2>5, <2>7, <2>9, <3>2 DEF Good
      <4> QED
        BY <2>7, <4>1 DEF Timed
    <3> QED
      BY <3>1, <3>2
  <2>10. Good(s)
    BY <2>7, <2>8, <2>9, Zenon DEF Good
  <2>11. Good(e') /\ e'.vote = e.vote
    BY <2>2, <2>7, <2>10, TrackerGood, Zenon
  <2> QED
    BY <2>11, SameVotes
<1> QED
  BY <1>2, <1>3, <1>4

(* A vote is cast when the evaluation's delay is over, which is not before *)
(* it is time.                                                             *)
LEMMA VoteGood ==
  ASSUME Clocks, Good(e), NEW a \in Authorities, Vote(a)
  PROVE  /\ Good(e')
         /\ \A b \in Authorities \ {a} : e'.vote[b] = e.vote[b]
         /\ Elapsed(a) >= MinDelay
         /\ e.proposal.timestamp <= CurrentTimestamp(a)
         /\ Timing!Acceptable(Dynamic, Elapsed(a) + MILLI - 1, Cardinality(e.proposal.heads))
         /\ a \in e.together
<1> DEFINE n == [e.vote EXCEPT ![a] = TRUE]
<1>1. Shape(e) /\ Typed(e) /\ Timed(e, a) /\ e.voting[a] # None /\ e' = [e EXCEPT !.vote = n]
      /\ Elapsed(a) >= MinDelay /\ e.now >= e.voting[a].until /\ e.voting[a].includable
  BY DEF Good, Vote, PollIncludable
<1>2. n \in [Authorities -> BOOLEAN \cup {None}] /\ \A b \in Authorities \ {a} : n[b] = e.vote[b]
  BY <1>1 DEF Typed
<1> HIDE DEF n
<1>3. Shape(e') /\ e'.skew = e.skew /\ e'.now = e.now /\ e'.started = e.started /\ e'.inc = e.inc
      /\ e'.proposal = e.proposal /\ e'.voting = e.voting /\ e'.vote = n /\ e'.together = e.together
  BY <1>1 DEF Shape
<1>4. Typed(e')
  BY <1>1, <1>2, <1>3 DEF Typed
<1>5. Good(e')
  BY <1>3, <1>4, GoodStays
<1> DEFINE u == e.voting[a].until
           ts == e.proposal.timestamp
           k == e.skew[a]
           va == Timing!ValidAfter(Dynamic, Cardinality(e.proposal.heads))
<1>6. u \in Nat /\ k \in Nat /\ e.now \in Nat /\ ts \in Nat /\ e.started[a] \in Nat /\ e.proposal # None
  BY <1>1 DEF Typed, Timed
<1>7. va \in Nat
  BY <1>1, <1>6, HeadsCounted, ValidAfterType DEF Typed
<1>8. ts * SECOND <= u + k /\ u - e.started[a] + MILLI - 1 >= va /\ a \in e.together /\ e.now >= u
  BY <1>1 DEF Timed
<1> HIDE DEF u, ts, k, va
<1>9. ts * SECOND \in Nat /\ e.now + k \in Nat /\ SECOND \in Nat \ {0} /\ MILLI \in Nat
  BY <1>6 DEF Clocks
<1>10. ts * SECOND <= e.now + k
  <2> DEFINE z == ts * SECOND
  <2>1. z \in Nat /\ z <= u + k
    BY <1>8, <1>9
  <2> HIDE DEF z
  <2>2. z <= e.now + k
    BY <1>6, <1>8, <2>1
  <2> QED
    BY <2>2 DEF z
<1>11. ts <= (e.now + k) \div SECOND
  BY <1>6, <1>9, <1>10, Multiplied
<1>12. e.now - e.started[a] + MILLI - 1 >= va
  BY <1>6, <1>7, <1>8, <1>9
<1> QED
  BY <1>1, <1>2, <1>3, <1>5, <1>8, <1>11, <1>12 DEF CurrentTimestamp, Elapsed, Timing!Acceptable, ts, k, va

(* However the tables of the authorities and their clocks move, each votes *)
(* for a proposal only when it is time to (Proposer::evaluate).            *)
THEOREM VotesOnTimeHolds ==
  ASSUME Clocks
  PROVE  Spec => VotesOnTime
<1> DEFINE OnTime ==
      e' # e => \A a \in Authorities :
        e.vote[a] = None /\ e'.vote[a] = TRUE =>
          /\ Elapsed(a) >= MinDelay
          /\ e.proposal.timestamp <= CurrentTimestamp(a)
          /\ Timing!Acceptable(Dynamic, Elapsed(a) + MILLI - 1, Cardinality(e.proposal.heads))
          /\ a \in e.together
<1>1. Init => Good(e)
  <2> SUFFICES ASSUME Init PROVE Good(e)
    OBVIOUS
  <2>1. PICK seed \in Seeds, skew \in Skews, round \in 0..MaxRound :
          e = [seed |-> seed, skew |-> skew, now |-> 0, started |-> [a \in Authorities |-> None],
               inc |-> [a \in Authorities |-> {}], round |-> round, counted |-> None, proposal |-> None,
               voting |-> [a \in Authorities |-> None], vote |-> [a \in Authorities |-> None],
               falls |-> 0, together |-> {}]
    BY DEF Init
  <2>2. Shape(e) /\ e.skew = skew /\ e.now = 0 /\ e.started = [a \in Authorities |-> None]
        /\ e.inc = [a \in Authorities |-> {}] /\ e.proposal = None
        /\ e.voting = [a \in Authorities |-> None] /\ e.vote = [a \in Authorities |-> None]
    BY <2>1 DEF Shape
  <2>3. Typed(e)
    <3>1. skew \in [Authorities -> Nat]
      BY DEF Clocks
    <3>2. /\ e.started \in [Authorities -> Nat \cup {None}]
          /\ e.voting \in [Authorities -> [until : Nat, includable : BOOLEAN] \cup {None}]
          /\ e.vote \in [Authorities -> BOOLEAN \cup {None}]
      BY <2>2
    <3>3. e.inc \in [Authorities -> SUBSET Candidates]
      BY <2>2
    <3> QED
      BY <2>2, <3>1, <3>2, <3>3 DEF Typed
  <2>4. \A a \in Authorities : e.voting[a] = None
    BY <2>2
  <2> QED
    BY <2>2, <2>3, <2>4, Zenon DEF Good
<1>2. Good(e) /\ [Next]_e => Good(e)' /\ [OnTime]_e
  <2> SUFFICES ASSUME Good(e), [Next]_e PROVE Good(e') /\ (e' = e \/ OnTime)
    OBVIOUS
  <2>1. CASE UNCHANGED e
    BY <2>1
  <2>2. ASSUME Good(e') /\ VotesLater(e, e') PROVE Good(e') /\ (e' = e \/ OnTime)
    BY <2>2 DEF VotesLater
  <2>3. CASE Tick
    BY <2>2, <2>3, TickGood
  <2>4. ASSUME NEW a \in Authorities, InitProposer(a) \/ CountCandidates(a) \/ ProposeWith(a) \/ Evaluate(a)
        PROVE  Good(e') /\ (e' = e \/ OnTime)
    BY <2>2, <2>4, InitProposerGood, ProposerGood, EvaluateGood, Zenon
  <2>5. ASSUME NEW a \in Authorities, Vote(a) PROVE Good(e') /\ (e' = e \/ OnTime)
    <3>1. /\ Good(e')
          /\ \A b \in Authorities \ {a} : e'.vote[b] = e.vote[b]
          /\ Elapsed(a) >= MinDelay
          /\ e.proposal.timestamp <= CurrentTimestamp(a)
          /\ Timing!Acceptable(Dynamic, Elapsed(a) + MILLI - 1, Cardinality(e.proposal.heads))
          /\ a \in e.together
      BY <2>5, VoteGood
    <3>2. None # TRUE
      BY DEF Clocks
    <3> QED
      BY <3>1, <3>2, ZenonT(40)
  <2>6. ASSUME NEW a \in Authorities, NEW c \in Candidates, BecomesIncludable(a, c) \/ BecomesDisputed(a, c)
        PROVE  Good(e') /\ (e' = e \/ OnTime)
    <3>1. \E S \in SUBSET Candidates, n \in {e.falls, e.falls + 1} :
            e' = TrackerUpdated([e EXCEPT !.inc[a] = S, !.falls = n], a)
      <4>1. Shape(e) /\ e.inc[a] \in SUBSET Candidates
        BY DEF Good, Typed
      <4>2. CASE BecomesIncludable(a, c)
        <5> DEFINE S == e.inc[a] \cup {c}
        <5>1. S \in SUBSET Candidates /\ e' = TrackerUpdated([e EXCEPT !.inc[a] = S], a)
          BY <4>1, <4>2 DEF BecomesIncludable
        <5> HIDE DEF S
        <5>2. [e EXCEPT !.inc[a] = S] = [e EXCEPT !.inc[a] = S, !.falls = e.falls]
          BY <4>1 DEF Shape
        <5> QED
          BY <5>1, <5>2, Zenon
      <4>3. CASE BecomesDisputed(a, c)
        <5> DEFINE S == e.inc[a] \ {c}
                   n == e.falls + 1
        <5>1. S \in SUBSET Candidates /\ e' = TrackerUpdated([e EXCEPT !.inc[a] = S, !.falls = n], a)
          BY <4>1, <4>3 DEF BecomesDisputed
        <5> QED
          BY <5>1, Zenon
      <4> QED
        BY <2>6, <4>2, <4>3, ZenonT(40)
    <3>2. PICK S \in SUBSET Candidates, n \in {e.falls, e.falls + 1} :
            e' = TrackerUpdated([e EXCEPT !.inc[a] = S, !.falls = n], a)
      BY <3>1, Zenon
    <3> QED
      BY <2>2, <3>2, TableGood, Zenon
  <2> QED
    BY <2>1, <2>3, <2>4, <2>5, <2>6, Zenon DEF Next, Works
<1> QED
  BY <1>1, <1>2, PTL DEF Spec, VotesOnTime

-----------------------------------------------------------------------------
(* Lists *)

(* Less-than on the naturals is well-founded.                              *)
LEMMA Order == \E R : IsWellFoundedOn(R, Nat) /\ \A x, y \in Nat : x < y => <<x, y>> \in R
<1>1. \A x, y \in Nat : x < y => <<x, y>> \in OpToRel(<, Nat)
  BY DEF OpToRel
<1> QED
  BY <1>1, NatLessThanWellFounded, Zenon

(* The least-element principle, which stands for induction. *)
LEMMA Least ==
  ASSUME NEW S, S \subseteq Nat, S # {}
  PROVE  \E x \in S : \A y \in S : x <= y
<1>1. PICK R : IsWellFoundedOn(R, Nat) /\ \A x, y \in Nat : x < y => <<x, y>> \in R
  BY Order
<1>2. IsWellFoundedOn(R, Nat)
  BY <1>1
<1>3. PICK x \in S : \A y \in S : ~(<<y, x>> \in R)
  BY <1>2, WFMin, Zenon
<1>4. \A y \in S : ~(y < x)
  BY <1>1, <1>3, ZenonT(40)
<1>5. \A y \in S : x \in Nat /\ y \in Nat
  OBVIOUS
<1> QED
  BY <1>4, <1>5

(* The places of a SubSeq. *)
CutAfter(s, k, n, T) ==
  /\ SubSeq(s, k + 1, k + n) \in Seq(T) /\ Len(SubSeq(s, k + 1, k + n)) = n
  /\ \A j \in 1..n : SubSeq(s, k + 1, k + n)[j] = s[k + j]

(* A part of a list, from after place k.                                   *)
LEMMA Segment ==
  ASSUME NEW T, NEW s \in Seq(T), NEW k \in Nat, NEW n \in Nat, k + n <= Len(s)
  PROVE  CutAfter(s, k, n, T)
<1>1. Len(s) \in Nat /\ \A j \in 1..Len(s) : s[j] \in T
  BY LenProperties, ElementOfSeq
<1>2. k + 1 \in Int /\ k + n \in Int /\ \A j \in (k + 1)..(k + n) : s[j] \in T
  BY <1>1
<1>3. /\ SubSeq(s, k + 1, k + n) \in Seq(T)
      /\ Len(SubSeq(s, k + 1, k + n)) = IF k + 1 <= k + n THEN (k + n) - (k + 1) + 1 ELSE 0
      /\ \A j \in 1..((k + n) - (k + 1) + 1) : SubSeq(s, k + 1, k + n)[j] = s[(k + 1) + j - 1]
  BY <1>2, SubSeqProperties
<1>4. Len(SubSeq(s, k + 1, k + n)) = n
  BY <1>3
<1>5. ASSUME NEW j \in 1..n PROVE SubSeq(s, k + 1, k + n)[j] = s[k + j]
  <2>1. j \in 1..((k + n) - (k + 1) + 1) /\ (k + 1) + j - 1 = k + j
    OBVIOUS
  <2> QED
    BY <1>3, <2>1
<1> QED
  BY <1>3, <1>4, <1>5 DEF CutAfter

(* An element finds its place behind the first i. *)
Put(T, s, i, t, r) ==
  /\ r \in Seq(T) /\ Len(r) = Len(s) + 1
  /\ \A k \in 1..(Len(s) + 1) : r[k] = IF k <= i THEN s[k] ELSE IF k = i + 1 THEN t ELSE s[k - 1]

(* Cutting a list at i and putting an element between the parts.           *)
LEMMA PutBetween ==
  ASSUME NEW T, NEW s \in Seq(T), NEW t \in T, NEW i \in 0..Len(s)
  PROVE  Put(T, s, i, t, SubSeq(s, 1, i) \o <<t>> \o SubSeq(s, i + 1, Len(s)))
<1> DEFINE a == SubSeq(s, 1, i)
           b == SubSeq(s, i + 1, Len(s))
           w == a \o <<t>>
           r == w \o b
           m == Len(s) - i
<1>1. Len(s) \in Nat /\ i \in Nat /\ i <= Len(s)
  BY LenProperties
<1>2. m \in Nat /\ i + m = Len(s)
  BY <1>1
<1> HIDE DEF m
<1>3. CutAfter(s, 0, i, T) /\ CutAfter(s, i, m, T)
  BY <1>1, <1>2, Segment
<1>4. /\ a \in Seq(T) /\ Len(a) = i /\ (\A j \in 1..i : a[j] = s[j])
      /\ b \in Seq(T) /\ Len(b) = m /\ (\A j \in 1..m : b[j] = s[i + j])
  <2>1. a = SubSeq(s, 0 + 1, 0 + i) /\ b = SubSeq(s, i + 1, i + m)
    BY <1>1, <1>2
  <2>2. \A j \in 1..i : 0 + j = j
    BY <1>1
  <2> HIDE DEF a, b
  <2> QED
    BY <1>3, <2>1, <2>2, Zenon DEF CutAfter
<1>5. <<t>> \in Seq(T) /\ Len(<<t>>) = 1 /\ <<t>>[1] = t
  OBVIOUS
<1> HIDE DEF a, b
<1>6. w \in Seq(T) /\ Len(w) = i + 1 /\ \A j \in 1..(i + 1) : w[j] = IF j <= i THEN s[j] ELSE t
  <2>1. /\ a \o <<t>> \in Seq(T) /\ Len(a \o <<t>>) = Len(a) + Len(<<t>>)
        /\ \A j \in 1..(Len(a) + Len(<<t>>)) : (a \o <<t>>)[j] = IF j <= Len(a) THEN a[j] ELSE <<t>>[j - Len(a)]
    BY <1>4, <1>5, ConcatProperties
  <2> SUFFICES ASSUME NEW j \in 1..(i + 1)
               PROVE  w \in Seq(T) /\ Len(w) = i + 1 /\ w[j] = IF j <= i THEN s[j] ELSE t
    BY <1>1
  <2>2. j \in 1..(Len(a) + Len(<<t>>)) /\ (j <= i => j \in 1..i) /\ (~(j <= i) => j - i = 1)
    BY <1>1, <1>4, <1>5
  <2> QED
    BY <1>4, <1>5, <2>1, <2>2
<1> HIDE DEF w
<1>7. /\ r \in Seq(T) /\ Len(r) = (i + 1) + m
      /\ \A j \in 1..((i + 1) + m) : r[j] = IF j <= i + 1 THEN w[j] ELSE b[j - (i + 1)]
  <2>1. /\ w \o b \in Seq(T) /\ Len(w \o b) = Len(w) + Len(b)
        /\ \A j \in 1..(Len(w) + Len(b)) : (w \o b)[j] = IF j <= Len(w) THEN w[j] ELSE b[j - Len(w)]
    BY <1>4, <1>6, ConcatProperties
  <2> QED
    BY <1>4, <1>6, <2>1
<1>8. (i + 1) + m = Len(s) + 1
  BY <1>1, <1>2
<1>9. r = SubSeq(s, 1, i) \o <<t>> \o SubSeq(s, i + 1, Len(s))
  BY DEF w, a, b
<1> HIDE DEF r
<1>10. ASSUME NEW j \in 1..((i + 1) + m)
       PROVE  r[j] = IF j <= i THEN s[j] ELSE IF j = i + 1 THEN t ELSE s[j - 1]
  <2>1. CASE j <= i + 1
    <3>1. j \in 1..(i + 1) /\ (j <= i \/ j = i + 1) /\ ~(i + 1 <= i)
      BY <1>1, <1>2, <2>1
    <3> QED
      BY <1>6, <1>7, <2>1, <3>1
  <2>2. CASE ~(j <= i + 1)
    <3>1. j - (i + 1) \in 1..m /\ i + (j - (i + 1)) = j - 1 /\ ~(j <= i) /\ j # i + 1
      BY <1>1, <1>2, <2>2
    <3> QED
      BY <1>4, <1>7, <2>2, <3>1
  <2> QED
    BY <2>1, <2>2
<1> QED
  BY <1>7, <1>8, <1>9, <1>10 DEF Put

Once(s) == \A i, j \in 1..Len(s) : s[i] = s[j] => i = j

(* Putting a new element into a list without repetition.                   *)
LEMMA PutOnce ==
  ASSUME NEW T, NEW s \in Seq(T), NEW t \in T, NEW i \in 0..Len(s), NEW r, Put(T, s, i, t, r)
  PROVE  /\ Range(r) = Range(s) \cup {t}
         /\ Once(s) /\ t \notin Range(s) => Once(r)
<1> USE DEF Put
<1>1. Len(s) \in Nat /\ DOMAIN s = 1..Len(s) /\ DOMAIN r = 1..(Len(s) + 1) /\ i \in Nat /\ i <= Len(s)
  BY LenProperties
<1>2. ASSUME NEW k \in 1..(Len(s) + 1) PROVE r[k] \in Range(s) \cup {t}
  <2>1. (k <= i => k \in 1..Len(s)) /\ (~(k <= i) /\ k # i + 1 => k - 1 \in 1..Len(s))
    BY <1>1
  <2> QED
    BY <1>1, <2>1 DEF Range
<1>3. ASSUME NEW k \in 1..Len(s) PROVE s[k] \in Range(r)
  <2>1. CASE k <= i
    <3>1. k \in 1..(Len(s) + 1)
      BY <1>1
    <3> QED
      BY <1>1, <2>1, <3>1 DEF Range
  <2>2. CASE ~(k <= i)
    <3>1. k + 1 \in 1..(Len(s) + 1) /\ ~(k + 1 <= i) /\ k + 1 # i + 1 /\ (k + 1) - 1 = k
      BY <1>1, <2>2
    <3> QED
      BY <1>1, <3>1 DEF Range
  <2> QED
    BY <2>1, <2>2
<1>4. t \in Range(r)
  <2>1. i + 1 \in 1..(Len(s) + 1) /\ ~(i + 1 <= i)
    BY <1>1
  <2> QED
    BY <1>1, <2>1 DEF Range
<1>5. Range(r) = Range(s) \cup {t}
  BY <1>1, <1>2, <1>3, <1>4 DEF Range
<1>6. ASSUME Once(s), t \notin Range(s), NEW k \in 1..(Len(s) + 1), NEW l \in 1..(Len(s) + 1), r[k] = r[l]
      PROVE  k = l
  <2>1. \A x \in 1..Len(s) : s[x] # t
    BY <1>1, <1>6 DEF Range
  <2>2. ASSUME NEW x \in 1..(Len(s) + 1)
        PROVE  x = i + 1 \/ \E y \in 1..Len(s) : r[x] = s[y] /\ x = IF y <= i THEN y ELSE y + 1
    <3>1. CASE x <= i
      BY <1>1, <3>1
    <3>2. CASE ~(x <= i) /\ x # i + 1
      <4>1. x - 1 \in 1..Len(s) /\ ~(x - 1 <= i) /\ x = (x - 1) + 1
        BY <1>1, <3>2
      <4> QED
        BY <3>2, <4>1
    <3> QED
      BY <3>1, <3>2
  <2>3. r[i + 1] = t
    BY <1>1
  <2>4. CASE k = i + 1
    BY <1>6, <2>1, <2>2, <2>3, <2>4
  <2>5. CASE l = i + 1
    BY <1>6, <2>1, <2>2, <2>3, <2>5
  <2>6. CASE k # i + 1 /\ l # i + 1
    <3>1. PICK y \in 1..Len(s) : r[k] = s[y] /\ k = IF y <= i THEN y ELSE y + 1
      BY <2>2, <2>6
    <3>2. PICK z \in 1..Len(s) : r[l] = s[z] /\ l = IF z <= i THEN z ELSE z + 1
      BY <2>2, <2>6
    <3>3. y = z
      BY <1>6, <3>1, <3>2 DEF Once
    <3> QED
      BY <3>1, <3>2, <3>3
  <2> QED
    BY <2>4, <2>5, <2>6
<1> QED
  BY <1>1, <1>5, <1>6 DEF Once

LEMMA RangeIn ==
  ASSUME NEW T, NEW s \in Seq(T)
  PROVE  Range(s) \subseteq T
<1>1. DOMAIN s = 1..Len(s) /\ \A i \in 1..Len(s) : s[i] \in T
  BY LenProperties, ElementOfSeq
<1> QED
  BY <1>1 DEF Range

LEMMA Wider ==
  ASSUME NEW T, NEW U, T \subseteq U, NEW s \in Seq(T)
  PROVE  s \in Seq(U)
<1>1. Len(s) \in Nat /\ s \in [1..Len(s) -> T]
  BY LenProperties
<1>2. s \in [1..Len(s) -> U]
  BY <1>1
<1> QED
  BY <1>1, <1>2

LEMMA OnceCounted ==
  ASSUME NEW T, NEW s \in Seq(T), Once(s)
  PROVE  Cardinality(Range(s)) = Len(s)
<1>1. Len(s) \in Nat /\ DOMAIN s = 1..Len(s) /\ s \in [1..Len(s) -> T]
  BY LenProperties
<1>2. s \in [1..Len(s) -> Range(s)]
  BY <1>1 DEF Range
<1>3. s \in Injection(1..Len(s), Range(s))
  BY <1>1, <1>2 DEF Injection, IsInjective, Once
<1>4. s \in Surjection(1..Len(s), Range(s))
  BY <1>1, <1>2 DEF Surjection, Range
<1>5. ExistsBijection(1..Len(s), Range(s))
  BY <1>3, <1>4 DEF ExistsBijection, Bijection
<1>6. IsFiniteSet(1..Len(s)) /\ Cardinality(1..Len(s)) = Len(s)
  <2>1. 1 \in Int /\ Len(s) \in Int
    BY <1>1
  <2>2. IsFiniteSet(1..Len(s)) /\ Cardinality(1..Len(s)) = IF 1 > Len(s) THEN 0 ELSE Len(s) - 1 + 1
    BY <2>1, FS_Interval
  <2> QED
    BY <1>1, <2>2
<1> QED
  BY <1>5, <1>6, FS_Bijection

(* Members of a finite set of numbers are told apart by how many there are *)
(* up to them, and there is one for every number up to that of all.        *)
Rank(K, i) == Cardinality({j \in K : j <= i})

(* The elements of a finite set of numbers, by rank.                       *)
LEMMA Ranks ==
  ASSUME NEW K, K \subseteq Nat, IsFiniteSet(K)
  PROVE  /\ Cardinality(K) \in Nat
         /\ \A i \in K : Rank(K, i) \in 1..Cardinality(K)
         /\ \A i, j \in K : Rank(K, i) = Rank(K, j) => i = j
         /\ \A n \in 1..Cardinality(K) : \E i \in K : Rank(K, i) = n
<1> DEFINE f == [i \in K |-> Rank(K, i)]
           Upto(i) == {j \in K : j <= i}
<1>1. Cardinality(K) \in Nat
  BY FS_CardinalityType
<1>2. \A i \in K : Upto(i) \in SUBSET K
  OBVIOUS
<1>3. \A i \in K : IsFiniteSet(Upto(i)) /\ Cardinality(Upto(i)) \in Nat /\ Cardinality(Upto(i)) <= Cardinality(K)
  <2> SUFFICES ASSUME NEW i \in K
               PROVE  IsFiniteSet(Upto(i)) /\ Cardinality(Upto(i)) \in Nat /\ Cardinality(Upto(i)) <= Cardinality(K)
    OBVIOUS
  <2>1. Upto(i) \in SUBSET K
    BY <1>2
  <2> HIDE DEF Upto
  <2>2. IsFiniteSet(Upto(i)) /\ Cardinality(Upto(i)) <= Cardinality(K)
    BY <2>1, FS_Subset
  <2> QED
    BY <2>2, FS_CardinalityType
<1>4. \A i \in K : Cardinality(Upto(i)) # 0
  <2> SUFFICES ASSUME NEW i \in K PROVE Cardinality(Upto(i)) # 0
    OBVIOUS
  <2>1. i \in Upto(i)
    OBVIOUS
  <2>2. IsFiniteSet(Upto(i))
    BY <1>3
  <2> HIDE DEF Upto
  <2> QED
    BY <2>1, <2>2, FS_EmptySet
<1>5. \A i, j \in K : i < j => Cardinality(Upto(i)) < Cardinality(Upto(j))
  <2> SUFFICES ASSUME NEW i \in K, NEW j \in K, i < j PROVE Cardinality(Upto(i)) < Cardinality(Upto(j))
    OBVIOUS
  <2>5. i \in Nat /\ j \in Nat /\ \A k \in K : k \in Nat
    OBVIOUS
  <2>6. j <= j /\ ~(j <= i) /\ \A k \in K : k <= i => k <= j
    BY <2>5
  <2>1. Upto(i) \in SUBSET Upto(j) /\ j \in Upto(j) /\ j \notin Upto(i)
    BY <2>6, Zenon
  <2>2. Upto(i) # Upto(j)
    BY <2>1
  <2>3. IsFiniteSet(Upto(j)) /\ Cardinality(Upto(i)) \in Nat /\ Cardinality(Upto(j)) \in Nat
    BY <1>3
  <2> HIDE DEF Upto
  <2>4. Cardinality(Upto(i)) <= Cardinality(Upto(j)) /\ Cardinality(Upto(i)) # Cardinality(Upto(j))
    BY <2>1, <2>2, <2>3, FS_Subset
  <2> QED
    BY <2>3, <2>4
<1>6. \A i \in K : Rank(K, i) = Cardinality(Upto(i))
  BY DEF Rank
<1> HIDE DEF Upto
<1>7. \A i \in K : Rank(K, i) \in 1..Cardinality(K)
  BY <1>1, <1>3, <1>4, <1>6
<1>8. ASSUME NEW i \in K, NEW j \in K, Rank(K, i) = Rank(K, j) PROVE i = j
  <2>1. ~(i < j) /\ ~(j < i)
    BY <1>3, <1>5, <1>6, <1>8
  <2>2. i \in Nat /\ j \in Nat
    OBVIOUS
  <2> QED
    BY <2>1, <2>2
<1>9. f \in Injection(K, 1..Cardinality(K))
  <2>1. f \in [K -> 1..Cardinality(K)]
    BY <1>7
  <2> QED
    BY <1>8, <2>1 DEF Injection, IsInjective
<1>10. IsFiniteSet(1..Cardinality(K)) /\ Cardinality(1..Cardinality(K)) = Cardinality(K)
  <2>1. 1 \in Int /\ Cardinality(K) \in Int
    BY <1>1
  <2>2. /\ IsFiniteSet(1..Cardinality(K))
        /\ Cardinality(1..Cardinality(K)) = IF 1 > Cardinality(K) THEN 0 ELSE Cardinality(K) - 1 + 1
    BY <2>1, FS_Interval
  <2> QED
    BY <1>1, <2>2
<1>11. f \in Surjection(K, 1..Cardinality(K))
  BY <1>9, <1>10, FS_Injection
<1>12. \A n \in 1..Cardinality(K) : \E i \in K : Rank(K, i) = n
  BY <1>11, Zenon DEF Surjection
<1> QED
  BY <1>1, <1>7, <1>8, <1>12

(* What remove leaves of a pool. *)
LEMMA WithoutKeeps ==
  ASSUME NEW T, NEW ts \in Seq(T), NEW removed
  PROVE  /\ Without(ts, removed) \in Seq(T)
         /\ Range(Without(ts, removed)) = Range(ts) \ removed
         /\ Once(ts) => Once(Without(ts, removed))
<1> DEFINE kept == {i \in 1..Len(ts) : ts[i] \notin removed}
           nth(n) == CHOOSE i \in kept : Rank(kept, i) = n
           m == Cardinality(kept)
           r == [n \in 1..m |-> ts[nth(n)]]
<1>1. Without(ts, removed) = r
  BY DEF Without, Rank
<1>2. Len(ts) \in Nat /\ DOMAIN ts = 1..Len(ts) /\ \A i \in 1..Len(ts) : ts[i] \in T
  BY LenProperties, ElementOfSeq
<1>3. kept \subseteq Nat /\ IsFiniteSet(kept)
  <2>1. kept \in SUBSET (1..Len(ts)) /\ kept \subseteq Nat
    BY <1>2
  <2>2. IsFiniteSet(1..Len(ts))
    BY <1>2, FS_Interval
  <2> HIDE DEF kept
  <2> QED
    BY <2>1, <2>2, FS_Subset, Zenon
<1>4. \A i \in kept : i \in 1..Len(ts) /\ ts[i] \notin removed
  OBVIOUS
<1>5. \A i \in 1..Len(ts) : ts[i] \notin removed => i \in kept
  OBVIOUS
<1> HIDE DEF kept
<1>6. /\ m \in Nat
      /\ \A i \in kept : Rank(kept, i) \in 1..m
      /\ \A i, j \in kept : Rank(kept, i) = Rank(kept, j) => i = j
      /\ \A n \in 1..m : \E i \in kept : Rank(kept, i) = n
  BY <1>3, Ranks, Zenon
<1> HIDE DEF m
<1>7. \A n \in 1..m : nth(n) \in kept /\ Rank(kept, nth(n)) = n
  BY <1>6
<1>8. \A i \in kept : nth(Rank(kept, i)) = i
  BY <1>6
<1>9. \A n \in 1..m : r[n] = ts[nth(n)]
  OBVIOUS
<1> HIDE DEF nth
<1>10. r \in [1..m -> T]
  <2>1. \A n \in 1..m : ts[nth(n)] \in T
    BY <1>2, <1>4, <1>7
  <2> QED
    BY <2>1
<1>11. r \in Seq(T) /\ Len(r) = m /\ DOMAIN r = 1..m
  BY <1>6, <1>10
<1> HIDE DEF r
<1>12. Range(r) = Range(ts) \ removed
  <2>1. ASSUME NEW x \in Range(r) PROVE x \in Range(ts) \ removed
    <3>1. PICK n \in 1..m : x = r[n]
      BY <1>11 DEF Range
    <3> QED
      BY <1>2, <1>4, <1>7, <1>9, <3>1 DEF Range
  <2>2. ASSUME NEW x \in Range(ts) \ removed PROVE x \in Range(r)
    <3>1. PICK i \in 1..Len(ts) : x = ts[i]
      BY <1>2 DEF Range
    <3>2. i \in kept
      BY <1>5, <2>2, <3>1
    <3>3. r[Rank(kept, i)] = x /\ Rank(kept, i) \in 1..m
      BY <1>6, <1>8, <1>9, <3>1, <3>2
    <3> QED
      BY <1>11, <3>3 DEF Range
  <2> QED
    BY <2>1, <2>2
<1>13. ASSUME Once(ts), NEW n \in 1..m, NEW k \in 1..m, r[n] = r[k] PROVE n = k
  <2>1. ts[nth(n)] = ts[nth(k)] /\ nth(n) \in 1..Len(ts) /\ nth(k) \in 1..Len(ts)
    BY <1>4, <1>7, <1>9, <1>13
  <2>2. nth(n) = nth(k)
    BY <1>13, <2>1 DEF Once
  <2> QED
    BY <1>7, <2>2
<1>14. Once(ts) => Once(r)
  BY <1>11, <1>13 DEF Once
<1> QED
  BY <1>1, <1>11, <1>12, <1>14

-----------------------------------------------------------------------------
(* ProposeBlock: no transaction is lost on its way from the pool to the    *)
(* chain.                                                                  *)

Unusable(t) == Size(t) > MAX_TRANSACTIONS_SIZE \/ t \in Invalid

(* What is in the pool has been submitted, is there once and is not on the *)
(* chain; what the block takes or the authority culls comes from the pool. *)
FillingInv ==
  /\ pool \in Seq(Txs \ unseen) /\ Once(pool)
  /\ unseen \subseteq Txs
  /\ on_chain \subseteq Txs \ unseen
  /\ Range(pool) \cap on_chain = {}
  /\ \A t \in Txs \ unseen : InPool(t) \/ t \in on_chain \/ t \in culled
  /\ \A t \in culled \cup unqueue_invalid : Unusable(t)
  /\ next \in Nat \ {0}
  /\ block \in Seq(Txs \ unseen)

(* A transaction that arrives is last in the pool.                         *)
LEMMA SubmitKeeps ==
  ASSUME FillingInv, NEW t \in Txs, Submit(t)
  PROVE  FillingInv'
<1>1. stage = "idle" /\ t \in unseen /\ unseen' = unseen \ {t}
      /\ UNCHANGED <<stage, next, block, unqueue_invalid, on_chain, culled>>
  BY DEF Submit
<1>2. PICK i \in 0..Len(pool) : pool' = SubSeq(pool, 1, i) \o <<t>> \o SubSeq(pool, i + 1, Len(pool))
  BY DEF Submit
<1>3. Txs \ unseen' = (Txs \ unseen) \cup {t}
  BY <1>1
<1>4. pool \in Seq(Txs \ unseen') /\ block' \in Seq(Txs \ unseen')
  <2>1. pool \in Seq(Txs \ unseen) /\ block \in Seq(Txs \ unseen) /\ block' = block
    BY <1>1 DEF FillingInv
  <2>2. Txs \ unseen \subseteq Txs \ unseen'
    BY <1>3
  <2> QED
    BY <2>1, <2>2, Wider
<1>5. Put(Txs \ unseen', pool, i, t, pool') /\ t \in Txs \ unseen'
  <2>1. t \in Txs \ unseen'
    BY <1>3
  <2> QED
    BY <1>2, <1>4, <2>1, PutBetween
<1>6. t \notin Range(pool)
  <2>1. Range(pool) \subseteq Txs \ unseen
    BY RangeIn DEF FillingInv
  <2> QED
    BY <1>1, <2>1
<1>7. Range(pool') = Range(pool) \cup {t} /\ Once(pool')
  <2>1. Once(pool)
    BY DEF FillingInv
  <2> QED
    BY <1>4, <1>5, <1>6, <2>1, PutOnce
<1> QED
  BY <1>1, <1>3, <1>4, <1>5, <1>7 DEF FillingInv, InPool, Unusable, Put

(* What is considered stays pooled: taken, skipped or marked invalid.      *)
LEMMA ConsiderKeeps ==
  ASSUME FillingInv, Consider
  PROVE  FillingInv'
<1>1. UNCHANGED <<pool, unseen, on_chain, culled>> /\ next' = next + 1 /\ next <= Len(pool)
  BY DEF Consider
<1>2. Len(pool) \in Nat /\ \A i \in 1..Len(pool) : pool[i] \in Txs \ unseen
  BY LenProperties, ElementOfSeq DEF FillingInv
<1>3. pool[next] \in Txs \ unseen
  BY <1>1, <1>2 DEF FillingInv
<1>4. \/ unqueue_invalid' = unqueue_invalid \cup {pool[next]} /\ Unusable(pool[next]) /\ UNCHANGED block
      \/ block' = Append(block, pool[next]) /\ UNCHANGED unqueue_invalid
  BY DEF Consider, Unusable
<1>5. block' \in Seq(Txs \ unseen)
  <2>1. block \in Seq(Txs \ unseen)
    BY DEF FillingInv
  <2>2. Append(block, pool[next]) \in Seq(Txs \ unseen)
    BY <1>3, <2>1, AppendProperties, Zenon
  <2> QED
    BY <1>4, <2>1, <2>2, Zenon
<1>6. \A t \in culled \cup unqueue_invalid' : Unusable(t)
  BY <1>4 DEF FillingInv
<1>7. next' \in Nat \ {0}
  BY <1>1 DEF FillingInv
<1> QED
  BY <1>1, <1>5, <1>6, <1>7 DEF FillingInv, InPool, Unusable

(* Only the invalid ones are culled when the block is baked.               *)
LEMMA BakeKeeps ==
  ASSUME FillingInv, Bake
  PROVE  FillingInv'
<1>1. /\ pool' = Without(pool, unqueue_invalid) /\ culled' = culled \cup unqueue_invalid
      /\ UNCHANGED <<unseen, next, block, unqueue_invalid, on_chain>>
  BY DEF Bake
<1>2. pool' \in Seq(Txs \ unseen) /\ Range(pool') = Range(pool) \ unqueue_invalid /\ Once(pool')
  BY <1>1, WithoutKeeps DEF FillingInv
<1> QED
  BY <1>1, <1>2 DEF FillingInv, InPool, Unusable

(* Only the block's own transactions leave the pool on its import.         *)
LEMMA ImportKeeps ==
  ASSUME FillingInv, BlockImported
  PROVE  FillingInv'
<1>1. /\ on_chain' = on_chain \cup Range(block) /\ pool' = Without(pool, Range(block))
      /\ UNCHANGED <<unseen, next, block, unqueue_invalid, culled>>
  BY DEF BlockImported
<1>2. pool' \in Seq(Txs \ unseen) /\ Range(pool') = Range(pool) \ Range(block) /\ Once(pool')
  BY <1>1, WithoutKeeps DEF FillingInv
<1>3. Range(block) \subseteq Txs \ unseen
  BY RangeIn DEF FillingInv
<1> QED
  BY <1>1, <1>2, <1>3 DEF FillingInv, InPool, Unusable

(* No transaction is lost or included twice, for any transactions of any   *)
(* sizes and any limit (propose_with, the pool's remove and cull).         *)
THEOREM NothingLostHolds == FillingSpec => []NothingLost
<1>1. FillingInit => FillingInv
  <2> SUFFICES ASSUME FillingInit PROVE FillingInv
    OBVIOUS
  <2>1. <<>> \in Seq(Txs \ unseen) /\ Len(<<>>) = 0 /\ Range(<<>>) = {}
    BY DEF Range
  <2> QED
    BY <2>1 DEF FillingInit, FillingInv, Once
<1>2. FillingInv /\ [FillingNext]_filling => FillingInv'
  <2> SUFFICES ASSUME FillingInv, [FillingNext]_filling PROVE FillingInv'
    OBVIOUS
  <2>1. CASE StartFilling
    <3>1. <<>> \in Seq(Txs \ unseen)
      OBVIOUS
    <3> QED
      BY <2>1, <3>1 DEF StartFilling, FillingInv, InPool, Unusable
  <2>2. CASE Superseded
    BY <2>2 DEF Superseded, FillingInv, InPool, Unusable
  <2>3. CASE UNCHANGED filling
    BY <2>3 DEF filling, FillingInv, InPool, Unusable
  <2> QED
    BY <2>1, <2>2, <2>3, SubmitKeeps, ConsiderKeeps, BakeKeeps, ImportKeeps DEF FillingNext
<1>3. FillingInv => NothingLost
  <2> SUFFICES ASSUME FillingInv PROVE NothingLost
    OBVIOUS
  <2>1. Cardinality(Range(pool)) = Len(pool)
    BY OnceCounted DEF FillingInv
  <2> QED
    BY <2>1 DEF FillingInv, NothingLost, Unusable
<1> QED
  BY <1>1, <1>2, <1>3, PTL DEF FillingSpec

-----------------------------------------------------------------------------
(* Parachains: evaluation and runtime agree on the candidates of a block.  *)

Places(ids, hs, at) ==
  /\ at \in [1..Len(hs) -> 1..Len(ids)]
  /\ \A k \in 1..Len(hs) : FirstBehind(ids, IF k = 1 THEN 0 ELSE at[k - 1], hs[k], at[k])

LEMMA NotLess == \A a, b, c \in Nat : ~(a < b) /\ c < b => ~(a < c)
  OBVIOUS

LEMMA NotBoth == \A a, b \in Nat : a < b => ~(b < a)
  OBVIOUS

LEMMA Between == \A from, n \in Nat : \A i \in 1..n : \A j \in (from + 1)..(i - 1) : j \in 1..n /\ j < i
  OBVIOUS

(* A list that ascends from each element to the next one ascends, and its  *)
(* elements are at least their places.                                     *)
LEMMA StepsAscend ==
  ASSUME NEW s \in Seq(Nat), \A k \in 2..Len(s) : s[k - 1] < s[k]
  PROVE  Ascending(s)
<1> DEFINE Bad == {j \in 1..Len(s) : \E i \in 1..Len(s) : i < j /\ ~(s[i] < s[j])}
<1>1. Len(s) \in Nat /\ \A j \in 1..Len(s) : s[j] \in Nat
  BY LenProperties, ElementOfSeq
<1>2. ASSUME Bad # {} PROVE FALSE
  <2>1. Bad \subseteq Nat
    BY <1>1
  <2>2. PICK j \in Bad : \A y \in Bad : j <= y
    BY <1>2, <2>1, Least, Zenon
  <2>3. j \in 1..Len(s) /\ j \in Nat
    BY <1>1, <2>2
  <2>4. PICK i \in 1..Len(s) : i < j /\ ~(s[i] < s[j])
    BY <2>2
  <2>5. j \in 2..Len(s) /\ j - 1 \in 1..Len(s) /\ i <= j - 1
    BY <1>1, <2>3, <2>4
  <2>6. s[j - 1] < s[j] /\ s[i] \in Nat /\ s[j] \in Nat /\ s[j - 1] \in Nat
    BY <1>1, <2>3, <2>5
  <2>7. i # j - 1
    BY <2>4, <2>6
  <2>8. ~(s[i] < s[j - 1])
    BY <2>4, <2>6, NotLess, Zenon
  <2>9. i < j - 1
    BY <1>1, <2>5, <2>7
  <2>10. j - 1 \in Bad
    BY <2>5, <2>8, <2>9
  <2>11. ~(j <= j - 1)
    BY <2>3
  <2> QED
    BY <2>2, <2>10, <2>11, Zenon
<1>3. \A i, j \in 1..Len(s) : i < j => s[i] < s[j]
  BY <1>2, Zenon
<1> QED
  BY <1>3 DEF Ascending

(* Places that ascend from 1 on are at least the ranks.                    *)
LEMMA AtLeastPlace ==
  ASSUME NEW n \in Nat, NEW m \in Nat, NEW at \in [1..n -> 1..m], \A k \in 2..n : at[k - 1] < at[k]
  PROVE  n <= m
<1> DEFINE Bad == {k \in 1..n : ~(k <= at[k])}
<1>1. \A k \in 1..n : at[k] \in 1..m /\ at[k] \in Nat /\ at[k] <= m /\ 1 <= at[k]
  OBVIOUS
<1>2. ASSUME Bad # {} PROVE FALSE
  <2>1. Bad \subseteq Nat
    OBVIOUS
  <2>2. PICK k \in Bad : \A y \in Bad : k <= y
    BY <1>2, <2>1, Least
  <2>3. k \in 1..n /\ k \in Nat /\ at[k] < k /\ 1 <= at[k]
    BY <1>1, <2>2
  <2>4. k \in 2..n /\ k - 1 \in 1..n /\ k - 1 \in Nat
    BY <1>1, <2>3
  <2>5. at[k - 1] < at[k] /\ at[k - 1] \in Nat /\ at[k] \in Nat
    BY <1>1, <2>3, <2>4
  <2>6. ~(k - 1 <= at[k - 1])
    BY <2>3, <2>5
  <2>7. k - 1 \in Bad
    BY <2>4, <2>6
  <2>8. ~(k <= k - 1)
    BY <2>3
  <2> QED
    BY <2>2, <2>7, <2>8
<1>3. CASE n = 0
  BY <1>3
<1>4. CASE n # 0
  <2>1. n \in 1..n
    BY <1>4
  <2>2. n <= at[n]
    BY <1>2, <2>1
  <2> QED
    BY <1>1, <2>1, <2>2
<1> QED
  BY <1>3, <1>4

Wanted(ids, hs) == Range(hs) \subseteq Range(ids) /\ Ascending(hs)

(* What the runtime's walk along the sorted ids accepts is in order and    *)
(* registered ...                                                          *)
LEMMA WalkWanted ==
  ASSUME NEW ids \in Seq(Nat), NEW hs \in Seq(Nat), Ascending(ids), Walk(ids, hs)
  PROVE  Wanted(ids, hs)
<1>1. PICK at : Places(ids, hs, at)
  BY Zenon DEF Walk, Places
<1>2. Len(ids) \in Nat /\ Len(hs) \in Nat /\ DOMAIN ids = 1..Len(ids) /\ DOMAIN hs = 1..Len(hs)
  BY LenProperties
<1>3. \A k \in 1..Len(hs) : at[k] \in 1..Len(ids) /\ ids[at[k]] = hs[k]
  BY <1>1, Zenon DEF Places, FirstBehind
<1>4. \A k \in 2..Len(hs) : k \in 1..Len(hs) /\ k - 1 \in 1..Len(hs) /\ k # 1
  BY <1>2
<1>5. \A k \in 2..Len(hs) : at[k - 1] < at[k]
  <2> SUFFICES ASSUME NEW k \in 2..Len(hs) PROVE at[k - 1] < at[k]
    OBVIOUS
  <2>1. at[k] > at[k - 1]
    BY <1>1, <1>4 DEF Places, FirstBehind
  <2>2. at[k] \in Int /\ at[k - 1] \in Int
    BY <1>3, <1>4
  <2> QED
    BY <2>1, <2>2
<1>6. \A k \in 2..Len(hs) : hs[k - 1] < hs[k]
  BY <1>3, <1>4, <1>5 DEF Ascending
<1>7. Ascending(hs)
  BY <1>6, StepsAscend
<1>8. Range(hs) \subseteq Range(ids)
  BY <1>2, <1>3 DEF Range
<1> QED
  BY <1>7, <1>8 DEF Wanted

(* ... and the walk accepts everything that is.                            *)
LEMMA WantedWalks ==
  ASSUME NEW ids \in Seq(Nat), NEW hs \in Seq(Nat), Ascending(ids), Wanted(ids, hs)
  PROVE  Walk(ids, hs) /\ Len(hs) <= Len(ids) /\ \A k \in 2..Len(hs) : hs[k - 1] < hs[k]
<1> DEFINE at == [k \in 1..Len(hs) |-> CHOOSE i \in 1..Len(ids) : ids[i] = hs[k]]
<1>1. /\ Len(ids) \in Nat /\ Len(hs) \in Nat /\ DOMAIN ids = 1..Len(ids) /\ DOMAIN hs = 1..Len(hs)
      /\ (\A i \in 1..Len(ids) : ids[i] \in Nat) /\ (\A i \in 1..Len(hs) : hs[i] \in Nat)
  BY LenProperties, ElementOfSeq
<1>2. \A k \in 1..Len(hs) : \E i \in 1..Len(ids) : ids[i] = hs[k]
  BY <1>1, Zenon DEF Wanted, Range
<1>3. \A k \in 1..Len(hs) : at[k] \in 1..Len(ids) /\ ids[at[k]] = hs[k]
  BY <1>2, Zenon
<1>4. at \in [1..Len(hs) -> 1..Len(ids)]
  BY <1>3
<1> HIDE DEF at
<1>5. \A k \in 2..Len(hs) : k \in 1..Len(hs) /\ k - 1 \in 1..Len(hs) /\ k # 1 /\ k - 1 < k
  BY <1>1
<1>6. \A k \in 2..Len(hs) : hs[k - 1] < hs[k]
  BY <1>5 DEF Wanted, Ascending
<1>7. \A k \in 2..Len(hs) : at[k - 1] < at[k]
  <2> SUFFICES ASSUME NEW k \in 2..Len(hs) PROVE at[k - 1] < at[k]
    OBVIOUS
  <2>1. at[k] \in 1..Len(ids) /\ at[k - 1] \in 1..Len(ids) /\ ids[at[k]] = hs[k] /\ ids[at[k - 1]] = hs[k - 1]
    BY <1>3, <1>5
  <2>2. ids[at[k - 1]] < ids[at[k]] /\ ids[at[k - 1]] \in Nat /\ ids[at[k]] \in Nat
    BY <1>1, <1>6, <2>1
  <2>3. at[k] # at[k - 1]
    BY <2>2
  <2>4. ~(at[k] < at[k - 1])
    <3>1. at[k] < at[k - 1] => ids[at[k]] < ids[at[k - 1]]
      BY <2>1, Zenon DEF Ascending
    <3> QED
      BY <2>2, <3>1, NotBoth, Zenon
  <2> QED
    BY <2>1, <2>3, <2>4
<1>8. Len(hs) <= Len(ids)
  BY <1>1, <1>4, <1>7, AtLeastPlace, Zenon
<1>9. ASSUME NEW k \in 1..Len(hs)
      PROVE  FirstBehind(ids, IF k = 1 THEN 0 ELSE at[k - 1], hs[k], at[k])
  <2> DEFINE from == IF k = 1 THEN 0 ELSE at[k - 1]
  <2>1. from \in Nat /\ at[k] > from
    <3>1. CASE k = 1
      BY <1>1, <1>3, <3>1
    <3>2. CASE k # 1
      <4>1. k \in 2..Len(hs) /\ k - 1 \in 1..Len(hs)
        BY <1>1, <3>2
      <4>2. at[k - 1] < at[k] /\ at[k - 1] \in Nat /\ at[k] \in Nat
        BY <1>1, <1>3, <1>7, <4>1
      <4> QED
        BY <3>2, <4>2
    <3> QED
      BY <3>1, <3>2
  <2> HIDE DEF from
  <2>2. ASSUME NEW j \in (from + 1)..(at[k] - 1) PROVE ids[j] # hs[k]
    <3>1. at[k] \in 1..Len(ids) /\ ids[at[k]] = hs[k]
      BY <1>3
    <3>2. j \in 1..Len(ids) /\ j < at[k]
      BY <1>1, <2>1, <3>1, Between, Zenon
    <3>3. ids[j] < ids[at[k]] /\ ids[j] \in Nat /\ ids[at[k]] \in Nat
      BY <1>1, <3>1, <3>2 DEF Ascending
    <3> QED
      BY <3>1, <3>3
  <2> QED
    BY <1>3, <2>1, <2>2 DEF FirstBehind, from
<1>10. Walk(ids, hs)
  BY <1>4, <1>9, Zenon DEF Walk
<1> QED
  BY <1>6, <1>8, <1>10

Searched(ids, id, n) ==
  /\ n \in 0..Len(ids)
  /\ \A i \in 1..n : ids[i] < id
  /\ \A i \in (n + 1)..Len(ids) : id <= ids[i]

(* binary_search on an ascending list.                                     *)
LEMMA SearchFinds ==
  ASSUME NEW ids \in Seq(Nat), Ascending(ids), NEW id \in Nat
  PROVE  Searched(ids, id, BinarySearch(ids, id))
<1> DEFINE Up == {n \in 0..Len(ids) : \A i \in (n + 1)..Len(ids) : id <= ids[i]}
<1>1. Len(ids) \in Nat /\ \A i \in 1..Len(ids) : ids[i] \in Nat
  BY LenProperties, ElementOfSeq
<1>2. Up \subseteq Nat
  BY <1>1
<1>3. Len(ids) \in Up
  BY <1>1
<1>4. PICK n \in Up : \A m \in Up : n <= m
  BY <1>2, <1>3, Least, Zenon
<1>5. n \in 0..Len(ids) /\ n \in Nat /\ \A i \in (n + 1)..Len(ids) : id <= ids[i]
  BY <1>2, <1>4
<1>6. ASSUME NEW i \in 1..n PROVE ids[i] < id
  <2>1. n \in 1..Len(ids) /\ n - 1 \in 0..Len(ids) /\ ~(n <= n - 1) /\ i \in 1..Len(ids)
    BY <1>1, <1>5
  <2>2. n - 1 \notin Up
    BY <1>4, <2>1, Zenon
  <2>3. PICK j \in ((n - 1) + 1)..Len(ids) : ~(id <= ids[j])
    BY <2>1, <2>2
  <2>4. j \in n..Len(ids) /\ j \in 1..Len(ids)
    BY <1>1, <2>1
  <2>5. j = n
    <3>1. CASE j \in (n + 1)..Len(ids)
      BY <1>5, <2>3, <3>1
    <3> QED
      BY <1>5, <2>4, <3>1
  <2>6. ~(id <= ids[n]) /\ ids[n] \in Nat /\ ids[i] \in Nat
    BY <1>1, <2>1, <2>3, <2>5
  <2>7. i = n \/ i < n
    BY <1>5
  <2>8. i = n \/ ids[i] < ids[n]
    BY <2>1, <2>7 DEF Ascending
  <2>9. \A a, b, c \in Nat : ~(a <= b) /\ (c = b \/ c < b) => c < a
    OBVIOUS
  <2> QED
    BY <2>6, <2>8, <2>9, Zenon
<1>7. \E m \in 0..Len(ids) : /\ \A i \in 1..m : ids[i] < id
                            /\ \A i \in (m + 1)..Len(ids) : id <= ids[i]
  BY <1>5, <1>6, Zenon
<1> QED
  BY <1>7, Zenon DEF BinarySearch, Searched

LEMMA IdsTyped ==
  ASSUME Ids \subseteq Nat, NEW ids \in Seq(Ids)
  PROVE  /\ Len(ids) \in Nat /\ DOMAIN ids = 1..Len(ids)
         /\ (\A i \in 1..Len(ids) : ids[i] \in Ids /\ ids[i] \in Nat) /\ ids \in Seq(Nat)
<1>1. Len(ids) \in Nat /\ DOMAIN ids = 1..Len(ids) /\ ids \in [1..Len(ids) -> Ids]
  BY LenProperties
<1>2. ids \in [1..Len(ids) -> Nat]
  BY <1>1, Zenon
<1>3. ids \in Seq(Nat)
  BY <1>1, <1>2
<1> QED
  BY <1>1, <1>2, <1>3

(* register_parachain and deregister_parachain keep the ids sorted: the    *)
(* smaller ones stay in front of the place that is found.                  *)
LEMMA RemovedSorted ==
  ASSUME Ids \subseteq Nat, NEW ids \in Seq(Ids), Ascending(ids), NEW id \in Range(ids)
  PROVE  RemoveSorted(ids, id) \in Seq(Ids) /\ Ascending(RemoveSorted(ids, id))
<1> DEFINE n == BinarySearch(ids, id)
           a == SubSeq(ids, 1, n)
           b == SubSeq(ids, n + 2, Len(ids))
           s == a \o b
           m == Len(ids) - (n + 1)
<1>1. /\ Len(ids) \in Nat /\ DOMAIN ids = 1..Len(ids)
      /\ (\A i \in 1..Len(ids) : ids[i] \in Ids /\ ids[i] \in Nat) /\ ids \in Seq(Nat)
  BY IdsTyped
<1>2. PICK i \in 1..Len(ids) : ids[i] = id
  BY <1>1 DEF Range
<1>3. id \in Nat
  BY <1>1, <1>2
<1>4. Searched(ids, id, n)
  BY <1>1, <1>3, SearchFinds
<1>5. RemoveSorted(ids, id) = s
  BY DEF RemoveSorted
<1> HIDE DEF n
<1>6. n \in Nat /\ n <= Len(ids)
  BY <1>1, <1>4 DEF Searched
<1>7. ~(i <= n)
  <2>1. i <= n => i \in 1..n
    BY <1>1, <1>6
  <2>2. i <= n => ids[i] < id
    BY <1>4, <2>1 DEF Searched
  <2> QED
    BY <1>2, <1>3, <2>2
<1>8. m \in Nat /\ (n + 1) + m = Len(ids) /\ n + 2 = (n + 1) + 1 /\ n + 1 \in Nat
  BY <1>1, <1>2, <1>6, <1>7
<1>9. CutAfter(ids, 0, n, Ids) /\ CutAfter(ids, n + 1, m, Ids)
  BY <1>1, <1>6, <1>8, Segment
<1>10. /\ a \in Seq(Ids) /\ Len(a) = n /\ (\A j \in 1..n : a[j] = ids[j])
       /\ b \in Seq(Ids) /\ Len(b) = m /\ (\A j \in 1..m : b[j] = ids[(n + 1) + j])
  BY <1>6, <1>8, <1>9 DEF CutAfter
<1> HIDE DEF a, b, m
<1>11. /\ s \in Seq(Ids) /\ Len(s) = n + m
       /\ \A j \in 1..(n + m) : s[j] = IF j <= n THEN a[j] ELSE b[j - n]
  <2>1. /\ a \o b \in Seq(Ids) /\ Len(a \o b) = Len(a) + Len(b)
        /\ \A j \in 1..(Len(a) + Len(b)) : (a \o b)[j] = IF j <= Len(a) THEN a[j] ELSE b[j - Len(a)]
    BY <1>10, ConcatProperties, Zenon
  <2> QED
    BY <1>10, <2>1
<1> HIDE DEF s
<1>12. \A j \in 1..(n + m) : s[j] = IF j <= n THEN ids[j] ELSE ids[j + 1]
  <2> SUFFICES ASSUME NEW j \in 1..(n + m) PROVE s[j] = IF j <= n THEN ids[j] ELSE ids[j + 1]
    OBVIOUS
  <2>1. CASE j <= n
    <3>1. j \in 1..n
      BY <1>6, <1>8, <2>1
    <3> QED
      BY <1>10, <1>11, <2>1, <3>1
  <2>2. CASE ~(j <= n)
    <3>1. j - n \in 1..m /\ (n + 1) + (j - n) = j + 1
      BY <1>6, <1>8, <2>2
    <3> QED
      BY <1>10, <1>11, <2>2, <3>1
  <2> QED
    BY <2>1, <2>2
<1>13. ASSUME NEW j \in 1..(n + m), NEW k \in 1..(n + m), j < k PROVE s[j] < s[k]
  <2> DEFINE x == IF j <= n THEN j ELSE j + 1
             y == IF k <= n THEN k ELSE k + 1
  <2>1. x \in 1..Len(ids) /\ y \in 1..Len(ids) /\ x < y
    BY <1>6, <1>8, <1>13
  <2>2. s[j] = ids[x] /\ s[k] = ids[y]
    BY <1>12
  <2> HIDE DEF x, y
  <2> QED
    BY <2>1, <2>2 DEF Ascending
<1>14. Ascending(s)
  BY <1>11, <1>13 DEF Ascending
<1> QED
  BY <1>5, <1>11, <1>14

(* register_parachain keeps the list ascending.                            *)
LEMMA InsertedSorted ==
  ASSUME Ids \subseteq Nat, NEW ids \in Seq(Ids), Ascending(ids), NEW id \in Ids, id \notin Range(ids)
  PROVE  InsertSorted(ids, id) \in Seq(Ids) /\ Ascending(InsertSorted(ids, id))
<1> DEFINE n == BinarySearch(ids, id)
           s == InsertSorted(ids, id)
<1>1. /\ Len(ids) \in Nat /\ DOMAIN ids = 1..Len(ids)
      /\ (\A i \in 1..Len(ids) : ids[i] \in Ids /\ ids[i] \in Nat) /\ ids \in Seq(Nat)
  BY IdsTyped
<1>2. \A i \in 1..Len(ids) : ids[i] # id
  BY <1>1 DEF Range
<1>3. id \in Nat
  OBVIOUS
<1>4. Searched(ids, id, n)
  BY <1>1, <1>3, SearchFinds
<1>5. s = SubSeq(ids, 1, n) \o <<id>> \o SubSeq(ids, n + 1, Len(ids))
  BY DEF InsertSorted
<1> HIDE DEF n, s
<1>6. n \in 0..Len(ids) /\ n \in Nat /\ n <= Len(ids)
  BY <1>1, <1>4 DEF Searched
<1>7. Put(Ids, ids, n, id, s)
  BY <1>5, <1>6, PutBetween
<1>8. /\ s \in Seq(Ids) /\ Len(s) = Len(ids) + 1
      /\ \A j \in 1..(Len(ids) + 1) : s[j] = IF j <= n THEN ids[j] ELSE IF j = n + 1 THEN id ELSE ids[j - 1]
  BY <1>7 DEF Put
<1>9. ASSUME NEW j \in 1..(Len(ids) + 1), NEW k \in 1..(Len(ids) + 1), j < k PROVE s[j] < s[k]
  <2>1. CASE j = n + 1
    <3>1. k - 1 \in (n + 1)..Len(ids) /\ k - 1 \in 1..Len(ids) /\ ~(k <= n) /\ k # n + 1 /\ ~(j <= n)
      BY <1>1, <1>6, <1>9, <2>1
    <3>2. s[j] = id /\ s[k] = ids[k - 1]
      BY <1>8, <2>1, <3>1
    <3>3. id <= ids[k - 1] /\ ids[k - 1] # id /\ ids[k - 1] \in Nat
      BY <1>1, <1>2, <1>4, <3>1 DEF Searched
    <3> QED
      BY <1>3, <3>2, <3>3
  <2>2. CASE k = n + 1
    <3>1. j \in 1..n /\ j <= n /\ ~(k <= n)
      BY <1>1, <1>6, <1>9, <2>2
    <3>2. s[j] = ids[j] /\ s[k] = id
      BY <1>8, <2>2, <3>1
    <3> QED
      BY <1>4, <3>1, <3>2 DEF Searched
  <2>3. CASE j # n + 1 /\ k # n + 1
    <3> DEFINE x == IF j <= n THEN j ELSE j - 1
               y == IF k <= n THEN k ELSE k - 1
    <3>1. x \in 1..Len(ids) /\ y \in 1..Len(ids) /\ x < y
      BY <1>1, <1>6, <1>9, <2>3
    <3>2. s[j] = ids[x] /\ s[k] = ids[y]
      BY <1>8, <2>3
    <3> HIDE DEF x, y
    <3> QED
      BY <3>1, <3>2 DEF Ascending
  <2> QED
    BY <2>1, <2>2, <2>3
<1>10. Ascending(s)
  BY <1>8, <1>9 DEF Ascending
<1> QED
  BY <1>8, <1>10 DEF s

(* The state of the module: the ids are sorted, and within a block the     *)
(* candidates are those that the registered parachains let through until   *)
(* the heads are set.                                                      *)
HeadsInv ==
  /\ parachains \in Seq(Ids) /\ Ascending(parachains)
  /\ phase \in {"parent", "set_heads", "others"}
  /\ did_update = (phase = "others")
  /\ phase = "set_heads" => HeadsValid(parachains, candidates)

(* A list of heads is a list of ids.                                       *)
LEMMA ProposalsTyped ==
  ASSUME Ids \subseteq Nat, IsFiniteSet(Ids), NEW hs \in Proposals
  PROVE  hs \in Seq(Ids) /\ hs \in Seq(Nat)
<1>1. Cardinality(Ids) \in Nat
  BY FS_CardinalityType
<1>2. PICK n \in 0..Cardinality(Ids) : hs \in [1..n -> Ids]
  BY DEF Proposals
<1>3. n \in Nat
  BY <1>1
<1>4. hs \in Seq(Ids)
  BY <1>2, <1>3
<1> QED
  BY <1>4, IdsTyped

(* On an ascending list, evaluation and runtime accept the same heads.     *)
LEMMA AgreedFollows ==
  ASSUME Ids \subseteq Nat, IsFiniteSet(Ids), HeadsInv
  PROVE  HeadsAgreed
<1>1. ASSUME NEW hs \in Proposals
      PROVE  LET wanted == Range(hs) \subseteq Range(parachains) /\ Ascending(hs)
             IN (EvaluateHeads(parachains, hs) <=> wanted) /\ (HeadsValid(parachains, hs) <=> wanted)
  <2>1. parachains \in Seq(Nat) /\ hs \in Seq(Nat) /\ Ascending(parachains)
    BY IdsTyped, ProposalsTyped DEF HeadsInv
  <2>2. Walk(parachains, hs) => Wanted(parachains, hs)
    BY <2>1, WalkWanted
  <2>3. Wanted(parachains, hs) => EvaluateHeads(parachains, hs) /\ Walk(parachains, hs)
    BY <2>1, WantedWalks DEF EvaluateHeads
  <2> QED
    BY <2>2, <2>3 DEF EvaluateHeads, HeadsValid, Wanted
<1>2. WalksAgree
  BY <1>1 DEF WalksAgree
<1>3. AcceptedExecutes
  BY DEF AcceptedExecutes, HeadsInv
<1> QED
  BY <1>2, <1>3 DEF HeadsAgreed

(* Evaluation and runtime agree on the heads of every block, for any       *)
(* parachains and any number of blocks and extrinsics: the iterators of    *)
(* both accept exactly the ascending lists of registered parachains, and a *)
(* block that the authorities accepted does not run into the assertion of  *)
(* Module::execute.                                                        *)
THEOREM HeadsAgreedHolds ==
  ASSUME Ids \subseteq Nat, IsFiniteSet(Ids)
  PROVE  HeadsSpec => []HeadsAgreed
<1>1. HeadsInit => HeadsInv
  <2> SUFFICES ASSUME HeadsInit PROVE HeadsInv
    OBVIOUS
  <2>1. parachains \in Proposals /\ Ascending(parachains)
    BY DEF HeadsInit
  <2>2. parachains \in Seq(Ids)
    BY <2>1, ProposalsTyped
  <2> QED
    BY <2>1, <2>2 DEF HeadsInit, HeadsInv
<1>2. HeadsInv /\ [HeadsNext]_registry => HeadsInv'
  <2> SUFFICES ASSUME HeadsInv, [HeadsNext]_registry PROVE HeadsInv'
    OBVIOUS
  <2>1. ASSUME NEW hs \in Proposals, Accept(hs) PROVE HeadsInv'
    BY <2>1 DEF Accept, HeadsInv, EvaluateHeads, HeadsValid
  <2>2. CASE SetHeads
    BY <2>2, Zenon DEF SetHeads, HeadsInv
  <2>3. ASSUME NEW id \in Ids, RegisterParachain(id) PROVE HeadsInv'
    <3>1. id \notin Range(parachains) /\ parachains' = InsertSorted(parachains, id)
      BY <2>3 DEF RegisterParachain
    <3>2. parachains' \in Seq(Ids) /\ Ascending(parachains')
      BY <3>1, InsertedSorted DEF HeadsInv
    <3> QED
      BY <2>3, <3>2 DEF RegisterParachain, Other, HeadsInv
  <2>4. ASSUME NEW id \in Ids, DeregisterParachain(id) PROVE HeadsInv'
    <3>1. parachains' = IF id \in Range(parachains) THEN RemoveSorted(parachains, id) ELSE parachains
      BY <2>4 DEF DeregisterParachain
    <3>2. parachains' \in Seq(Ids) /\ Ascending(parachains')
      BY <3>1, RemovedSorted DEF HeadsInv
    <3> QED
      BY <2>4, <3>2 DEF DeregisterParachain, Other, HeadsInv
  <2>5. CASE Execute
    BY <2>5 DEF Execute, HeadsInv
  <2>6. CASE UNCHANGED registry
    BY <2>6 DEF registry, HeadsInv
  <2> QED
    BY <2>1, <2>2, <2>3, <2>4, <2>5, <2>6 DEF HeadsNext
<1> QED
  BY <1>1, <1>2, AgreedFollows, PTL DEF HeadsSpec

-----------------------------------------------------------------------------
(* Parachains: every group of validators can decide, for every number of   *)
(* validators and parachains and whatever the random seed is.              *)

Counts == ValidatorCounts \subseteq Nat

(* The roles of n validators. *)
Roles(n) == [Indices(n) -> Chains]

(* The shuffles keep what there is to do: a chain that has validators has  *)
(* guarantors of availability.                                             *)
RosterInv ==
  /\ validator_count \in Nat /\ shuffled \in Nat
  /\ roles_val \in Roles(validator_count) /\ roles_gua \in Roles(validator_count)
  /\ Range(roles_val) = Range(roles_gua)
  /\ Range(roles_val) \subseteq Range(active_parachains) \cup {Relay}
  /\ GroupsCanDecide

-----------------------------------------------------------------------------
LEMMA Quotient ==
  ASSUME NEW k \in Nat, NEW p \in Nat, NEW n \in Nat, k < n * p
  PROVE  (k \div p) + 1 \in 1..n
<1>1. p > 0
  BY SMT
<1> DEFINE q == k \div p
           r == k % p
<1>2. q \in Nat /\ r \in Nat /\ k = p * q + r
  BY <1>1, SMT
<1> HIDE DEF q, r
<1>3. q < n
  <2> SUFFICES ASSUME q >= n PROVE FALSE
    BY <1>2
  <2>1. PICK d \in Nat : q = n + d
    BY <1>2, SMT
  <2>2. p * q = p * n + p * d /\ p * d \in Nat
    BY <1>2, <2>1, SMT
  <2> QED
    BY <1>2, <2>2, SMT
<1> QED
  BY <1>2, <1>3 DEF q

(* What is needed of a group is at least one half of it and can be had. *)
LEMMA NeededEnough ==
  ASSUME NEW n \in Nat, n > 0
  PROVE  Needed(n) \in 1..n /\ 2 * Needed(n) >= n
  BY SMT DEF Needed

(* The roles before they are shuffled are the relay chain and the active   *)
(* parachains.                                                             *)
LEMMA OrderedRolesTyped ==
  ASSUME NEW n \in Nat, NEW ids \in Seq(Ids)
  PROVE  /\ OrderedRoles(n, ids) \in Roles(n)
         /\ Range(OrderedRoles(n, ids)) \subseteq Range(ids) \cup {Relay}
<1> DEFINE per == ValidatorsPerParachain(n, Len(ids))
           roles == OrderedRoles(n, ids)
<1>1. CASE n = 0
  BY <1>1, SMT DEF OrderedRoles, Roles, Indices, Range
<1>2. CASE n > 0
  <2>1. per \in Nat
    BY <1>2, SMT DEF ValidatorsPerParachain
  <2>2. ASSUME NEW k \in Indices(n) PROVE roles[k] \in Range(ids) \cup {Relay} /\ roles[k] \in Chains
    <3> HIDE DEF per
    <3>1. k \in Nat
      BY DEF Indices
    <3>2. roles[k] = IF k < Len(ids) * per THEN ids[(k \div per) + 1] ELSE Relay
      BY DEF OrderedRoles, per
    <3>3. CASE k < Len(ids) * per
      <4>1. (k \div per) + 1 \in DOMAIN ids
        BY <2>1, <3>1, <3>3, Quotient
      <4> HIDE DEF roles
      <4> QED
        BY <3>2, <3>3, <4>1 DEF Range, Chains
    <3> QED
      BY <3>2, <3>3 DEF Chains
  <2>3. roles = [k \in Indices(n) |-> roles[k]] /\ DOMAIN roles = Indices(n)
    BY DEF OrderedRoles
  <2> HIDE DEF roles
  <2>4. roles \in Roles(n) /\ Range(roles) \subseteq Range(ids) \cup {Relay}
    BY <2>2, <2>3 DEF Roles, Range
  <2> QED
    BY <2>4 DEF roles
<1> QED
  BY <1>1, <1>2

(* A round of the shuffle moves roles, and none is gone. *)
LEMMA SwapKeeps ==
  ASSUME NEW n \in Nat, NEW roles \in Roles(n), NEW a \in Indices(n), NEW b \in Indices(n)
  PROVE  Swap(roles, a, b) \in Roles(n) /\ Range(Swap(roles, a, b)) = Range(roles)
<1> DEFINE new == Swap(roles, a, b)
<1>1. new \in Roles(n)
  BY DEF Swap, Roles
<1>2. \A k \in Indices(n) : new[k] = IF k = b THEN roles[a] ELSE IF k = a THEN roles[b] ELSE roles[k]
  BY DEF Swap, Roles
<1>3. DOMAIN new = Indices(n) /\ DOMAIN roles = Indices(n)
  BY <1>1 DEF Roles
<1> HIDE DEF new
<1>4. Range(new) \subseteq Range(roles)
  BY <1>2, <1>3 DEF Range
<1>5. ASSUME NEW k \in Indices(n) PROVE roles[k] \in Range(new)
  <2>1. new[a] = roles[b] /\ new[b] = roles[a] /\ (k \notin {a, b} => new[k] = roles[k])
    BY <1>2
  <2> QED
    BY <1>3, <2>1 DEF Range
<1> QED
  BY <1>1, <1>3, <1>4, <1>5 DEF Range, new

(* Those with a role that somebody has are at least one and finitely many. *)
LEMMA HoldersCounted ==
  ASSUME NEW n \in Nat, NEW roles \in Roles(n), NEW id \in Range(roles)
  PROVE  Cardinality(Holders(roles, id)) \in Nat /\ Cardinality(Holders(roles, id)) > 0
<1>1. Holders(roles, id) \subseteq 0..(n - 1)
  BY DEF Holders, Roles, Indices
<1>2. IsFiniteSet(0..(n - 1))
  BY FS_Interval
<1>3. IsFiniteSet(Holders(roles, id))
  BY <1>1, <1>2, FS_Subset
<1>4. Holders(roles, id) # {}
  BY DEF Holders, Range
<1> QED
  BY <1>3, <1>4, FS_CardinalityType, FS_EmptySet

(* Every group that make_group_info returns is one of an active parachain, *)
(* has members for both duties and needs no more of them than there are    *)
(* and no less than one half, for every number of validators and           *)
(* parachains and every seed of the shuffle (calculate_duty_roster,        *)
(* make_group_info).                                                       *)
THEOREM GroupsCanDecideHolds ==
  ASSUME Counts
  PROVE  RosterSpec => []GroupsCanDecide
<1>1. RosterInit => RosterInv
  <2> SUFFICES ASSUME RosterInit PROVE RosterInv
    OBVIOUS
  <2>1. validator_count \in Nat /\ shuffled = 0
    BY DEF RosterInit, Counts
  <2>2. active_parachains \in Seq(Ids)
    <3>1. PICK n \in 0..Cardinality(Ids) : active_parachains \in [1..n -> Ids]
      BY DEF RosterInit, Proposals
    <3> QED
      BY <3>1
  <2>3. roles_val = OrderedRoles(validator_count, active_parachains) /\ roles_gua = roles_val
    BY DEF RosterInit
  <2>4. DOMAIN groups = {}
    BY DEF RosterInit
  <2> QED
    BY <2>1, <2>2, <2>3, <2>4, OrderedRolesTyped DEF RosterInv, GroupsCanDecide
<1>2. RosterInv /\ [RosterNext]_roster => RosterInv'
  <2> SUFFICES ASSUME RosterInv, [RosterNext]_roster PROVE RosterInv'
    OBVIOUS
  <2>1. CASE UNCHANGED roster
    BY <2>1 DEF RosterInv, roster, GroupsCanDecide, Done
  <2>2. CASE Shuffle
    <3> DEFINE remaining == validator_count - shuffled
    <3>1. PICK val_index \in Indices(remaining), gua_index \in Indices(remaining) :
            /\ roles_val' = Swap(roles_val, remaining - 1, val_index)
            /\ roles_gua' = Swap(roles_gua, remaining - 1, gua_index)
      BY <2>2 DEF Shuffle
    <3>2. /\ remaining - 1 \in Indices(validator_count)
          /\ val_index \in Indices(validator_count) /\ gua_index \in Indices(validator_count)
      BY <2>2 DEF RosterInv, Shuffle, Indices
    <3>3. /\ shuffled' < validator_count /\ shuffled' \in Nat
          /\ UNCHANGED <<active_parachains, validator_count, groups, local>>
      BY <2>2 DEF RosterInv, Shuffle
    <3>4. /\ roles_val' \in Roles(validator_count) /\ Range(roles_val') = Range(roles_val)
          /\ roles_gua' \in Roles(validator_count) /\ Range(roles_gua') = Range(roles_gua)
      BY <3>1, <3>2, SwapKeeps DEF RosterInv
    <3>5. GroupsCanDecide'
      BY <3>3 DEF RosterInv, GroupsCanDecide, Done
    <3> QED
      BY <3>3, <3>4, <3>5 DEF RosterInv
  <2>3. CASE MakeGroupInfo
    <3>1. UNCHANGED <<active_parachains, validator_count, roles_val, roles_gua>> /\ shuffled' = validator_count
      BY <2>3 DEF MakeGroupInfo
    <3>2. ASSUME NEW id \in DOMAIN groups'
          PROVE  /\ id \in Range(roles_val) /\ id \in Range(roles_gua)
                 /\ id \in Range(active_parachains) /\ groups'[id] = Group(id)
      BY <2>3 DEF MakeGroupInfo, RosterInv
    <3>3. GroupsCanDecide'
      <4> SUFFICES ASSUME NEW id \in DOMAIN groups'
                   PROVE  /\ id \in Range(active_parachains)
                          /\ LET g == groups'[id]
                                 w == Cardinality(g.validity_guarantors)
                                 a == Cardinality(g.availability_guarantors)
                             IN /\ w > 0 /\ a > 0
                                /\ g.needed_validity \in 1..w /\ 2 * g.needed_validity >= w
                                /\ g.needed_availability \in 1..a /\ 2 * g.needed_availability >= a
        BY <3>1 DEF GroupsCanDecide
      <4> DEFINE w == Cardinality(Holders(roles_val, id))
                 a == Cardinality(Holders(roles_gua, id))
      <4>1. w \in Nat /\ w > 0 /\ a \in Nat /\ a > 0
        BY <3>2, HoldersCounted DEF RosterInv
      <4>2. /\ Needed(w) \in 1..w /\ 2 * Needed(w) >= w
            /\ Needed(a) \in 1..a /\ 2 * Needed(a) >= a
        BY <4>1, NeededEnough
      <4>3. /\ groups'[id].validity_guarantors = Holders(roles_val, id)
            /\ groups'[id].availability_guarantors = Holders(roles_gua, id)
            /\ groups'[id].needed_validity = Needed(w)
            /\ groups'[id].needed_availability = Needed(a)
        BY <3>2 DEF Group
      <4> HIDE DEF w, a
      <4>4. /\ Cardinality(groups'[id].validity_guarantors) = w
            /\ Cardinality(groups'[id].availability_guarantors) = a
        BY <4>3 DEF w, a
      <4> QED
        BY <3>2, <4>1, <4>2, <4>3, <4>4
    <3> QED
      BY <3>1, <3>3 DEF RosterInv
  <2> QED
    BY <2>1, <2>2, <2>3 DEF RosterNext
<1>3. RosterInv => GroupsCanDecide
  BY DEF RosterInv
<1> QED
  BY <1>1, <1>2, <1>3, PTL DEF RosterSpec
=============================================================================
