----------------------------- MODULE NodeProofs -----------------------------
(***************************************************************************)
(* Proofs about what a node does between its peers and an agreement.       *)
(* Extrinsics reach the peers (Propagation); the node misses no message    *)
(* of an agreement that it keeps (Gossip), works on one agreement at a     *)
(* time (BftService) and proposes when enough parachains have a candidate  *)
(* (ProposalTiming).                                                       *)
(***************************************************************************)
EXTENDS ProposalTiming, BftService, Gossip, Propagation, FiniteSetTheorems, TLAPS

-----------------------------------------------------------------------------
(* Propagation *)

(* A status carries no extrinsics. *)
Packets ==
  {p \in [kind : {"Status", "Transactions"}, foreign : BOOLEAN, txs : SUBSET Extrinsics] :
     p.kind = "Status" => p.txs = {}}

(* t reached node y or is on its way from x, or the session is closed. *)
Reaches(session, ws, got, x, y, t) ==
  t \in got[y] \/ {x, y} \notin session \/ \E i \in DOMAIN ws[x][y] : t \in ws[x][y][i].txs

(* A node has had what it holds and what it sends; it knows something of a *)
(* peer only between being told of a session and being told of its end.    *)
Unspoilt(session, end, ws, peers, pool, got) ==
  /\ ws \in [Nodes -> [Nodes -> Seq(Packets)]]
  /\ peers \in [Nodes -> [Nodes -> (SUBSET Extrinsics) \cup {None}]]
  /\ pool \in [Nodes -> SUBSET Extrinsics] /\ got \in [Nodes -> SUBSET Extrinsics]
  /\ \A x \in Nodes : pool[x] \subseteq got[x]
  /\ \A x \in Nodes, y \in Nodes : \A i \in DOMAIN ws[x][y] : ws[x][y][i].txs \subseteq got[x]
  /\ \A x \in Nodes, y \in Nodes : peers[x][y] # None => <<x, y>> \in end
  /\ \A x \in Nodes, y \in Nodes : peers[x][y] # None =>
       \A t \in peers[x][y] : Reaches(session, ws, got, x, y, t)

Shape(s) ==
  s = [setup |-> s.setup, session |-> s.session, end |-> s.end, wire |-> s.wire, peers |-> s.peers,
       hand |-> s.hand, pool |-> s.pool, mined |-> s.mined, behind |-> s.behind, up |-> s.up,
       aborted |-> s.aborted, told |-> s.told, banned |-> s.banned, mishaps |-> s.mishaps,
       got |-> s.got, lost |-> s.lost]

Sound(s) == Shape(s) /\ Unspoilt(s.session, s.end, s.wire, s.peers, s.pool, s.got)

SpreadInv == Sound(net)

-----------------------------------------------------------------------------
(* What is no longer on the wire was on that of a session that is closed. *)
Cleared(u, w, session) ==
  \A x \in Nodes, y \in Nodes : u[x][y] = w[x][y] \/ (u[x][y] = <<>> /\ {x, y} \notin session)

(* Sessions are closed, and what is on their wires is gone. *)
LEMMA SessionsClose ==
  ASSUME NEW S, NEW T \in SUBSET S, NEW E, NEW w, NEW P, NEW pool, NEW got, Unspoilt(S, E, w, P, pool, got),
         NEW u \in [Nodes -> [Nodes -> Seq(Packets)]], Cleared(u, w, T)
  PROVE  Unspoilt(T, E, u, P, pool, got)
<1>1. ASSUME NEW x \in Nodes, NEW y \in Nodes
      PROVE  /\ \A i \in DOMAIN u[x][y] : u[x][y][i].txs \subseteq got[x]
             /\ \A t : Reaches(S, w, got, x, y, t) => Reaches(T, u, got, x, y, t)
  <2>1. CASE u[x][y] = w[x][y]
    BY <2>1, Zenon DEF Unspoilt, Reaches
  <2>2. CASE u[x][y] = <<>> /\ {x, y} \notin T
    BY <2>2 DEF Reaches
  <2> QED
    BY <2>1, <2>2, Zenon DEF Cleared
<1> QED
  BY <1>1, Zenon DEF Unspoilt

(* A session is opened between nodes that were told of the last one's end. *)
LEMMA Opens ==
  ASSUME NEW S, NEW chan, NEW E, NEW w, NEW P, NEW pool, NEW got, Unspoilt(S, E, w, P, pool, got),
         \A x \in chan, y \in chan : <<x, y>> \notin E
  PROVE  Unspoilt(S \cup {chan}, E, w, P, pool, got)
<1>1. ASSUME NEW x \in Nodes, NEW y \in Nodes, P[x][y] # None, NEW t \in P[x][y]
      PROVE  Reaches(S \cup {chan}, w, got, x, y, t)
  <2>1. <<x, y>> \in E /\ Reaches(S, w, got, x, y, t)
    BY <1>1, Zenon DEF Unspoilt
  <2>2. {x, y} # chan
    BY <2>1, Zenon
  <2> QED
    BY <2>1, <2>2 DEF Reaches
<1> QED
  BY <1>1, Zenon DEF Unspoilt

(* A node is told of a session, or a message is sent. *)
LEMMA Sends ==
  ASSUME NEW S, NEW E, NEW F, E \subseteq F, NEW w, NEW P, NEW pool, NEW got, Unspoilt(S, E, w, P, pool, got),
         NEW a \in Nodes, NEW b \in Nodes, NEW msg \in Packets, msg.txs \subseteq got[a]
  PROVE  Unspoilt(S, F, [w EXCEPT ![a][b] = Append(@, msg)], P, pool, got)
<1> DEFINE u == [w EXCEPT ![a][b] = Append(@, msg)]
<1>1. u \in [Nodes -> [Nodes -> Seq(Packets)]]
  BY DEF Unspoilt
<1>2. \A x \in Nodes, y \in Nodes : u[x][y] = IF x = a /\ y = b THEN Append(w[a][b], msg) ELSE w[x][y]
  BY Zenon DEF Unspoilt
<1>3. w[a][b] \in Seq(Packets)
  BY Zenon DEF Unspoilt
<1> HIDE DEF u
<1>4. ASSUME NEW x \in Nodes, NEW y \in Nodes
      PROVE  /\ \A i \in DOMAIN u[x][y] : u[x][y][i].txs \subseteq got[x]
             /\ \A t : Reaches(S, w, got, x, y, t) => Reaches(S, u, got, x, y, t)
  <2>1. CASE x = a /\ y = b
    <3>1. u[x][y] = Append(w[a][b], msg)
      BY <1>2, <2>1, Zenon
    <3>2. /\ DOMAIN u[x][y] = 1..(Len(w[a][b]) + 1) /\ DOMAIN w[a][b] = 1..Len(w[a][b])
          /\ Len(w[a][b]) \in Nat /\ u[x][y][Len(w[a][b]) + 1] = msg
          /\ \A i \in DOMAIN w[a][b] : u[x][y][i] = w[a][b][i]
      BY <1>3, <3>1
    <3>3. \A i \in DOMAIN u[x][y] : i \in DOMAIN w[a][b] \/ i = Len(w[a][b]) + 1
      BY <3>2
    <3>4. \A i \in DOMAIN w[a][b] : i \in DOMAIN u[x][y]
      BY <3>2
    <3>5. \A i \in DOMAIN w[a][b] : w[a][b][i].txs \subseteq got[a]
      BY Zenon DEF Unspoilt
    <3>6. \A i \in DOMAIN u[x][y] : u[x][y][i].txs \subseteq got[x]
      BY <2>1, <3>2, <3>3, <3>5, Zenon
    <3> QED
      BY <2>1, <3>2, <3>4, <3>6, Zenon DEF Reaches
  <2>2. CASE ~(x = a /\ y = b)
    <3>1. u[x][y] = w[x][y]
      BY <1>2, <2>2, Zenon
    <3>2. \A i \in DOMAIN w[x][y] : w[x][y][i].txs \subseteq got[x]
      BY Zenon DEF Unspoilt
    <3> QED
      BY <3>1, <3>2, Zenon DEF Reaches
  <2> QED
    BY <2>1, <2>2, Zenon
<1>5. Unspoilt(S, F, u, P, pool, got)
  BY <1>1, <1>4, Zenon DEF Unspoilt
<1> QED
  BY <1>5 DEF u

(* What is known of peers is forgotten before the end of the session is. *)
Forgotten(P, Q, E, F) ==
  \A x \in Nodes, y \in Nodes : Q[x][y] = None \/ (Q[x][y] = P[x][y] /\ (<<x, y>> \in E => <<x, y>> \in F))

LEMMA Forgets ==
  ASSUME NEW S, NEW E, NEW F, NEW w, NEW P, NEW pool, NEW got, Unspoilt(S, E, w, P, pool, got),
         NEW Q \in [Nodes -> [Nodes -> (SUBSET Extrinsics) \cup {None}]],
         Forgotten(P, Q, E, F)
  PROVE  Unspoilt(S, F, w, Q, pool, got)
  BY Zenon DEF Unspoilt, Forgotten

(* A node gets extrinsics, holds some of them, or drops some. *)
LEMMA Gets ==
  ASSUME NEW S, NEW E, NEW w, NEW P, NEW pool, NEW got, Unspoilt(S, E, w, P, pool, got),
         NEW had \in [Nodes -> SUBSET Extrinsics], NEW held \in [Nodes -> SUBSET Extrinsics],
         \A x \in Nodes : got[x] \subseteq had[x] /\ held[x] \subseteq had[x]
  PROVE  Unspoilt(S, E, w, P, held, had)
<1>1. ASSUME NEW x \in Nodes, NEW y \in Nodes, NEW t, Reaches(S, w, got, x, y, t)
      PROVE  Reaches(S, w, had, x, y, t)
  BY <1>1, ZenonT(40) DEF Reaches
<1> QED
  BY <1>1, Zenon DEF Unspoilt

(* A node takes the first message of a session. *)
LEMMA Takes ==
  ASSUME NEW S, NEW E, NEW w, NEW P, NEW pool, NEW got, Unspoilt(S, E, w, P, pool, got),
         NEW a \in Nodes, NEW b \in Nodes, w[b][a] # <<>>, NEW had, NEW held,
         had = [got EXCEPT ![a] = @ \cup Head(w[b][a]).txs],
         held \in [Nodes -> SUBSET Extrinsics], \A x \in Nodes : held[x] \subseteq had[x]
  PROVE  Unspoilt(S, E, [w EXCEPT ![b][a] = Tail(@)], P, held, had)
<1> DEFINE u == [w EXCEPT ![b][a] = Tail(@)]
           msg == Head(w[b][a])
<1>1. w[b][a] \in Seq(Packets)
  BY DEF Unspoilt
<1>2. /\ msg \in Packets /\ Tail(w[b][a]) \in Seq(Packets) /\ msg = w[b][a][1]
      /\ DOMAIN w[b][a] = 1..Len(w[b][a]) /\ Len(w[b][a]) \in Nat /\ Len(w[b][a]) >= 1
      /\ DOMAIN Tail(w[b][a]) = 1..(Len(w[b][a]) - 1)
      /\ \A i \in DOMAIN Tail(w[b][a]) : Tail(w[b][a])[i] = w[b][a][i + 1]
  BY <1>1
<1>3. msg.txs \in SUBSET Extrinsics
  BY <1>2, Zenon DEF Packets
<1>4. u \in [Nodes -> [Nodes -> Seq(Packets)]]
  BY <1>2, Zenon DEF Unspoilt
<1>5. \A x \in Nodes, y \in Nodes : u[x][y] = IF x = b /\ y = a THEN Tail(w[b][a]) ELSE w[x][y]
  BY Zenon DEF Unspoilt
<1> HIDE DEF u, msg
<1>6. /\ had \in [Nodes -> SUBSET Extrinsics] /\ \A x \in Nodes : got[x] \subseteq had[x]
      /\ msg.txs \subseteq had[a]
  BY <1>3, Zenon DEF Unspoilt, msg
<1>7. ASSUME NEW x \in Nodes, NEW y \in Nodes
      PROVE  /\ \A i \in DOMAIN u[x][y] : u[x][y][i].txs \subseteq had[x]
             /\ \A t : Reaches(S, w, got, x, y, t) => Reaches(S, u, had, x, y, t)
  <2>1. CASE x = b /\ y = a
    <3>1. u[x][y] = Tail(w[b][a])
      BY <1>5, <2>1, Zenon
    <3>2. \A i \in DOMAIN u[x][y] : i + 1 \in DOMAIN w[b][a] /\ u[x][y][i] = w[b][a][i + 1]
      BY <1>2, <3>1
    <3>3. \A i \in DOMAIN w[b][a] : w[b][a][i].txs \subseteq got[b]
      BY Zenon DEF Unspoilt
    <3>4. \A i \in DOMAIN u[x][y] : u[x][y][i].txs \subseteq had[x]
      BY <1>6, <2>1, <3>2, <3>3, Zenon
    <3>5. ASSUME NEW t, Reaches(S, w, got, x, y, t) PROVE Reaches(S, u, had, x, y, t)
      <4>1. CASE t \in got[y] \/ {x, y} \notin S
        BY <1>6, <4>1, Zenon DEF Reaches
      <4>2. ASSUME NEW i \in DOMAIN w[b][a], t \in w[b][a][i].txs PROVE Reaches(S, u, had, x, y, t)
        <5>1. CASE i = 1
          BY <1>2, <1>6, <2>1, <4>2, <5>1, ZenonT(40) DEF Reaches
        <5>2. CASE i # 1
          <6>1. i - 1 \in DOMAIN u[x][y] /\ (i - 1) + 1 = i
            BY <1>2, <3>1, <5>2
          <6>2. u[x][y][i - 1] = w[b][a][i]
            BY <3>2, <6>1, Zenon
          <6> QED
            BY <4>2, <6>1, <6>2, Zenon DEF Reaches
        <5> QED
          BY <5>1, <5>2, Zenon
      <4> QED
        BY <2>1, <3>5, <4>1, <4>2, Zenon DEF Reaches
    <3> QED
      BY <3>4, <3>5, Zenon
  <2>2. CASE ~(x = b /\ y = a)
    <3>1. u[x][y] = w[x][y]
      BY <1>5, <2>2, Zenon
    <3>2. \A i \in DOMAIN w[x][y] : w[x][y][i].txs \subseteq had[x]
      BY <1>6, Zenon DEF Unspoilt
    <3> QED
      BY <1>6, <3>1, <3>2, Zenon DEF Reaches
  <2> QED
    BY <2>1, <2>2, Zenon
<1>8. Unspoilt(S, E, u, P, held, had)
  BY <1>4, <1>6, <1>7, Zenon DEF Unspoilt
<1> QED
  BY <1>8 DEF u

(* A node learns that a peer knows what it has had. *)
LEMMA Learns ==
  ASSUME NEW S, NEW E, NEW w, NEW P, NEW pool, NEW got, Unspoilt(S, E, w, P, pool, got),
         NEW a \in Nodes, NEW b \in Nodes, <<a, b>> \in E, NEW more \in SUBSET got[b],
         NEW old, old = {} \/ (P[a][b] # None /\ old = P[a][b])
  PROVE  Unspoilt(S, E, w, [P EXCEPT ![a][b] = old \cup more], pool, got)
<1> DEFINE Q == [P EXCEPT ![a][b] = old \cup more]
<1>1. Q \in [Nodes -> [Nodes -> (SUBSET Extrinsics) \cup {None}]]
  BY DEF Unspoilt
<1>2. \A x \in Nodes, y \in Nodes : Q[x][y] = IF x = a /\ y = b THEN old \cup more ELSE P[x][y]
  BY Zenon DEF Unspoilt
<1> HIDE DEF Q
<1>3. ASSUME NEW x \in Nodes, NEW y \in Nodes, Q[x][y] # None
      PROVE  <<x, y>> \in E /\ \A t \in Q[x][y] : Reaches(S, w, got, x, y, t)
  <2>1. CASE x = a /\ y = b
    <3>1. \A t \in old : Reaches(S, w, got, a, b, t)
      BY Zenon DEF Unspoilt
    <3>2. \A t \in more : Reaches(S, w, got, a, b, t)
      BY Zenon DEF Reaches
    <3> QED
      BY <1>2, <2>1, <3>1, <3>2, Zenon
  <2>2. CASE ~(x = a /\ y = b)
    BY <1>2, <1>3, <2>2, Zenon DEF Unspoilt
  <2> QED
    BY <2>1, <2>2, Zenon
<1>4. Unspoilt(S, E, w, Q, pool, got)
  BY <1>1, <1>3, ZenonT(40) DEF Unspoilt
<1> QED
  BY <1>4 DEF Q

(* What is sent to the nodes in T, what the sender then takes all to know, *)
(* and that it is right about those it has a session with.                 *)
SentWire(w, a, T, more) ==
  [w EXCEPT ![a] = [y \in Nodes |-> IF y \in T THEN Append(w[a][y], Transactions(more[y])) ELSE w[a][y]]]
SentPeers(P, a, more) ==
  [P EXCEPT ![a] = [y \in Nodes |-> IF P[a][y] = None THEN None ELSE P[a][y] \cup more[y]]]
Covers(session, a, T, more) == \A y \in Nodes : more[y] = {} \/ y \in T \/ {a, y} \notin session

(* A node sends its peers what it has, to each what that one lacks. *)
LEMMA Propagates ==
  ASSUME NEW S, NEW E, NEW w, NEW P, NEW pool, NEW got, Unspoilt(S, E, w, P, pool, got),
         NEW a \in Nodes, NEW T, NEW more \in [Nodes -> SUBSET got[a]], Covers(S, a, T, more)
  PROVE  Unspoilt(S, E, SentWire(w, a, T, more), SentPeers(P, a, more), pool, got)
<1> DEFINE u == SentWire(w, a, T, more)
           Q == SentPeers(P, a, more)
<1>1. \A y \in Nodes : /\ w[a][y] \in Seq(Packets) /\ P[a][y] \in (SUBSET Extrinsics) \cup {None}
                       /\ more[y] \in SUBSET Extrinsics
  BY DEF Unspoilt
<1>2. \A y \in Nodes : Transactions(more[y]) \in Packets /\ Transactions(more[y]).txs = more[y]
  BY <1>1, ZenonT(40) DEF Transactions, Packets
<1>3. /\ u \in [Nodes -> [Nodes -> Seq(Packets)]]
      /\ \A y \in Nodes : u[a][y] = IF y \in T THEN Append(w[a][y], Transactions(more[y])) ELSE w[a][y]
      /\ \A x \in Nodes : x # a => u[x] = w[x]
  BY <1>1, <1>2 DEF Unspoilt, SentWire
<1>4. /\ Q \in [Nodes -> [Nodes -> (SUBSET Extrinsics) \cup {None}]]
      /\ \A y \in Nodes : Q[a][y] = IF P[a][y] = None THEN None ELSE P[a][y] \cup more[y]
      /\ \A x \in Nodes : x # a => Q[x] = P[x]
  BY <1>1, Zenon DEF Unspoilt, SentPeers
<1> HIDE DEF u, Q
<1>5. ASSUME NEW y \in Nodes
      PROVE  /\ \A i \in DOMAIN u[a][y] : u[a][y][i].txs \subseteq got[a]
             /\ \A t : Reaches(S, w, got, a, y, t) => Reaches(S, u, got, a, y, t)
             /\ \A t \in more[y] : Reaches(S, u, got, a, y, t)
  <2>1. \A i \in DOMAIN w[a][y] : w[a][y][i].txs \subseteq got[a]
    BY Zenon DEF Unspoilt
  <2>2. CASE y \in T
    <3> DEFINE msg == Transactions(more[y])
    <3>1. u[a][y] = Append(w[a][y], msg) /\ msg \in Packets /\ msg.txs = more[y]
      BY <1>2, <1>3, <2>2, Zenon
    <3> HIDE DEF msg
    <3>2. /\ DOMAIN u[a][y] = 1..(Len(w[a][y]) + 1) /\ DOMAIN w[a][y] = 1..Len(w[a][y])
          /\ Len(w[a][y]) \in Nat /\ u[a][y][Len(w[a][y]) + 1] = msg
          /\ \A i \in DOMAIN w[a][y] : u[a][y][i] = w[a][y][i]
      BY <1>1, <3>1
    <3>3. \A i \in DOMAIN u[a][y] : i \in DOMAIN w[a][y] \/ i = Len(w[a][y]) + 1
      BY <3>2
    <3>4. \A i \in DOMAIN w[a][y] : i \in DOMAIN u[a][y]
      BY <3>2
    <3>5. \A i \in DOMAIN u[a][y] : u[a][y][i].txs \subseteq got[a]
      BY <2>1, <3>1, <3>2, <3>3, Zenon
    <3>6. Len(w[a][y]) + 1 \in DOMAIN u[a][y]
      BY <3>2
    <3> QED
      BY <3>1, <3>2, <3>4, <3>5, <3>6, Zenon DEF Reaches
  <2>3. CASE y \notin T
    BY <1>3, <2>1, <2>3, Zenon DEF Reaches, Covers
  <2> QED
    BY <2>2, <2>3, Zenon
<1>6. ASSUME NEW x \in Nodes, NEW y \in Nodes, x # a
      PROVE  /\ \A i \in DOMAIN u[x][y] : u[x][y][i].txs \subseteq got[x]
             /\ \A t : Reaches(S, w, got, x, y, t) => Reaches(S, u, got, x, y, t)
  BY <1>3, <1>6, Zenon DEF Unspoilt, Reaches
<1>7. ASSUME NEW x \in Nodes, NEW y \in Nodes, Q[x][y] # None
      PROVE  <<x, y>> \in E /\ \A t \in Q[x][y] : Reaches(S, u, got, x, y, t)
  <2>1. CASE x = a
    <3>1. P[a][y] # None /\ Q[a][y] = P[a][y] \cup more[y]
      BY <1>4, <1>7, <2>1, ZenonT(40)
    <3>2. <<a, y>> \in E /\ \A t \in P[a][y] : Reaches(S, w, got, a, y, t)
      BY <3>1, Zenon DEF Unspoilt
    <3> QED
      BY <1>5, <2>1, <3>1, <3>2, Zenon
  <2>2. CASE x # a
    <3>1. Q[x][y] = P[x][y]
      BY <1>4, <2>2, Zenon
    <3>2. <<x, y>> \in E /\ \A t \in P[x][y] : Reaches(S, w, got, x, y, t)
      BY <1>7, <3>1, Zenon DEF Unspoilt
    <3> QED
      BY <1>6, <2>2, <3>1, <3>2, Zenon
  <2> QED
    BY <2>1, <2>2, Zenon
<1>8. \A x \in Nodes, y \in Nodes : \A i \in DOMAIN u[x][y] : u[x][y][i].txs \subseteq got[x]
  BY <1>5, <1>6, Zenon
<1>9. Unspoilt(S, E, u, Q, pool, got)
  BY <1>3, <1>4, <1>7, <1>8, ZenonT(40) DEF Unspoilt
<1> QED
  BY <1>9, Zenon DEF u, Q

-----------------------------------------------------------------------------
(* The parts of the handler. *)

LEMMA CloseSound ==
  ASSUME NEW s, Sound(s), NEW closed
  PROVE  Sound(Close(s, closed)) /\ Close(s, closed).end = s.end
<1> DEFINE T == s.session \ closed
           u == [x \in Nodes |-> [y \in Nodes |-> IF {x, y} \in closed THEN <<>> ELSE s.wire[x][y]]]
           c == Close(s, closed)
<1>1. c = [s EXCEPT !.session = T, !.wire = u]
  BY DEF Close
<1>2. \A x \in Nodes, y \in Nodes : s.wire[x][y] \in Seq(Packets) /\ <<>> \in Seq(Packets)
  BY DEF Sound, Unspoilt
<1>3. u \in [Nodes -> [Nodes -> Seq(Packets)]]
  BY <1>2, Zenon
<1>4. Cleared(u, s.wire, T)
  BY DEF Cleared
<1> HIDE DEF u
<1>5. T \in SUBSET s.session
  OBVIOUS
<1> HIDE DEF T, c
<1>6. /\ Shape(c) /\ c.session = T /\ c.end = s.end /\ c.wire = u /\ c.peers = s.peers
      /\ c.pool = s.pool /\ c.got = s.got
  BY <1>1 DEF Sound, Shape
<1>7. Unspoilt(s.session, s.end, s.wire, s.peers, s.pool, s.got)
  BY DEF Sound
<1>8. Unspoilt(T, s.end, u, s.peers, s.pool, s.got)
  BY ONLY <1>3, <1>4, <1>5, <1>7, SessionsClose, Zenon
<1>9. Sound(c)
  BY <1>6, <1>8 DEF Sound
<1> QED
  BY <1>6, <1>9 DEF c

LEMMA DisableSound ==
  ASSUME NEW s, Sound(s), NEW x, NEW y
  PROVE  Sound(DisablePeer(s, x, y))
<1> DEFINE d == DisconnectPeer(s, x, y)
           more == d.banned \cup {{x, y}}
<1>1. Sound(d)
  BY CloseSound DEF DisconnectPeer
<1>2. DisablePeer(s, x, y) = [d EXCEPT !.banned = more]
  BY DEF DisablePeer
<1> HIDE DEF d, more
<1> QED
  BY <1>1, <1>2 DEF Sound, Shape

(* on_peer_disconnected, when the end of the session is known or not. *)
LEMMA DisconnectedSound ==
  ASSUME NEW s, Sound(s), NEW x \in Nodes, NEW y \in Nodes, NEW E, E = s.end \/ E = s.end \ {<<x, y>>}
  PROVE  Sound(OnPeerDisconnected([s EXCEPT !.end = E], x, y))
<1> DEFINE r == [s EXCEPT !.end = E]
           o == OnPeerDisconnected(r, x, y)
           Q == [s.peers EXCEPT ![x][y] = None]
           hand == [s.hand EXCEPT ![x] = @ \ {y}]
<1>0. r.hand = s.hand /\ r.peers = s.peers
  BY DEF Sound, Shape
<1>1. o = [r EXCEPT !.hand = hand, !.peers = Q]
  BY <1>0 DEF OnPeerDisconnected
<1>2. Q \in [Nodes -> [Nodes -> (SUBSET Extrinsics) \cup {None}]]
  BY Zenon DEF Sound, Unspoilt
<1>3. Forgotten(s.peers, Q, s.end, E)
  BY ZenonT(40) DEF Sound, Unspoilt, Forgotten
<1> HIDE DEF Q, o, hand
<1>4. Unspoilt(s.session, E, s.wire, Q, s.pool, s.got)
  BY <1>2, <1>3, Forgets, Zenon DEF Sound
<1>5. /\ Shape(o) /\ o.session = s.session /\ o.end = E /\ o.wire = s.wire /\ o.peers = Q
      /\ o.pool = s.pool /\ o.got = s.got
  BY <1>1, Zenon DEF Sound, Shape
<1> QED
  BY <1>4, <1>5 DEF Sound, o

(* on_peer_connected *)
LEMMA ConnectedSound ==
  ASSUME NEW s, Sound(s), NEW x \in Nodes, NEW y \in Nodes
  PROVE  Sound(OnPeerConnected([s EXCEPT !.end = @ \cup {<<x, y>>}], x, y))
<1> DEFINE E == s.end \cup {<<x, y>>}
           hand == [s.hand EXCEPT ![x] = @ \cup {y}]
           r == [s EXCEPT !.end = E, !.hand = hand]
           msg == Status(r, x)
           u == [s.wire EXCEPT ![x][y] = Append(@, msg)]
           o == OnPeerConnected([s EXCEPT !.end = E], x, y)
<1>1. /\ Shape(r) /\ r.session = s.session /\ r.end = E /\ r.wire = s.wire /\ r.peers = s.peers
      /\ r.pool = s.pool /\ r.got = s.got
  <2>1. r = [s EXCEPT !.end = E, !.hand = hand]
    OBVIOUS
  <2> HIDE DEF E, hand, r
  <2> QED
    BY <2>1, Zenon DEF Sound, Shape
<1>2. o = SendMessage(r, x, y, msg)
  BY DEF OnPeerConnected, SendStatus, Sound, Shape
<1>3. msg \in Packets /\ msg.txs = {}
  BY DEF Status, Packets
<1> HIDE DEF r, msg, o, E
<1>4. Unspoilt(s.session, E, s.wire, s.peers, s.pool, s.got) /\ Unspoilt(s.session, E, u, s.peers, s.pool, s.got)
  <2>1. s.end \subseteq E
    BY DEF E
  <2>2. msg.txs \subseteq s.got[x]
    BY <1>3
  <2>3. Unspoilt(s.session, E, u, s.peers, s.pool, s.got)
    BY <1>3, <2>1, <2>2, Sends, Zenon DEF Sound
  <2>4. Unspoilt(s.session, E, s.wire, s.peers, s.pool, s.got)
    BY <2>1, Zenon DEF Sound, Unspoilt
  <2> QED
    BY <2>3, <2>4, ZenonT(40)
<1>5. CASE {x, y} \notin s.session
  BY <1>1, <1>2, <1>4, <1>5, ZenonT(40) DEF SendMessage, Sound, o, E
<1>6. CASE {x, y} \in s.session
  <2>1. o = [r EXCEPT !.wire = u]
    BY <1>1, <1>2, <1>6 DEF SendMessage, Shape
  <2> HIDE DEF u
  <2>2. /\ Shape(o) /\ o.session = s.session /\ o.end = E /\ o.wire = u /\ o.peers = s.peers
        /\ o.pool = s.pool /\ o.got = s.got
    BY <1>1, <2>1 DEF Shape
  <2>3. Sound(o)
    BY <1>4, <2>2 DEF Sound
  <2> QED
    BY <2>3 DEF o, E
<1> QED
  BY <1>5, <1>6

(* handle_packet of a status *)
LEMMA StatusSound ==
  ASSUME NEW s, Sound(s), NEW x \in Nodes, NEW y \in Nodes, <<x, y>> \in s.end, NEW status
  PROVE  Sound(OnStatusMessage(s, x, y, status))
<1>1. CASE s.peers[x][y] # None
  BY <1>1 DEF OnStatusMessage
<1>2. CASE s.peers[x][y] = None /\ status.foreign # (x \in s.setup.foreign)
  BY <1>2, DisableSound DEF OnStatusMessage
<1>3. CASE s.peers[x][y] = None /\ ~(status.foreign # (x \in s.setup.foreign))
  <2> DEFINE Q == [s.peers EXCEPT ![x][y] = {} \cup {}]
             hand == [s.hand EXCEPT ![x] = @ \ {y}]
             r == [s EXCEPT !.peers = Q, !.hand = hand]
  <2>1. OnStatusMessage(s, x, y, status) = r
    <3>1. {} \cup {} = {}
      OBVIOUS
    <3> QED
      BY <1>3, <3>1 DEF OnStatusMessage
  <2>2. r = [s EXCEPT !.peers = Q, !.hand = hand]
    OBVIOUS
  <2>3. Unspoilt(s.session, s.end, s.wire, Q, s.pool, s.got)
    <3>1. {} \in SUBSET s.got[y]
      OBVIOUS
    <3> QED
      BY <3>1, Learns, Zenon DEF Sound
  <2> HIDE DEF Q, hand, r
  <2>4. /\ Shape(r) /\ r.session = s.session /\ r.end = s.end /\ r.wire = s.wire /\ r.peers = Q
        /\ r.pool = s.pool /\ r.got = s.got
    BY <2>2, ZenonT(40) DEF Sound, Shape
  <2> QED
    BY <2>1, <2>3, <2>4, Zenon DEF Sound
<1> QED
  BY <1>1, <1>2, <1>3, Zenon

(* read: the first message on the wire is handled. *)
LEMMA ReadSound ==
  ASSUME SpreadInv, NEW x \in Nodes, NEW y \in Nodes, Read(x, y)
  PROVE  SpreadInv'
<1> DEFINE u == [net.wire EXCEPT ![y][x] = Tail(@)]
           msg == Head(net.wire[y][x])
           s == [net EXCEPT !.wire = u]
<1>1. /\ <<x, y>> \in net.end /\ net.wire[y][x] # <<>> /\ net' = HandlePacket(s, x, y, msg)
  BY DEF Read
<1>2. msg \in Packets /\ msg.txs \subseteq net.got[y]
  <2>1. net.wire[y][x] \in Seq(Packets) /\ \A i \in DOMAIN net.wire[y][x] : net.wire[y][x][i].txs \subseteq net.got[y]
    BY ZenonT(40) DEF SpreadInv, Sound, Unspoilt
  <2>2. msg = net.wire[y][x][1] /\ 1 \in DOMAIN net.wire[y][x] /\ msg \in Packets
    BY <1>1, <2>1
  <2> QED
    BY <2>1, <2>2, Zenon
<1>3. s = [net EXCEPT !.wire = u]
  OBVIOUS
<1>4. msg.txs \in SUBSET Extrinsics
  BY <1>2 DEF Packets
<1>5. Unspoilt(net.session, net.end, net.wire, net.peers, net.pool, net.got)
  BY DEF SpreadInv, Sound
<1>6. net.pool \in [Nodes -> SUBSET Extrinsics] /\ net.got \in [Nodes -> SUBSET Extrinsics]
      /\ \A z \in Nodes : net.pool[z] \subseteq net.got[z]
  BY <1>5, Zenon DEF Unspoilt
<1>7. ASSUME NEW held \in [Nodes -> SUBSET Extrinsics],
             NEW had, had = [net.got EXCEPT ![x] = @ \cup msg.txs],
             \A z \in Nodes : held[z] \subseteq had[z]
      PROVE  Unspoilt(net.session, net.end, u, net.peers, held, had)
  BY <1>1, <1>5, <1>7, Takes, Zenon
<1> HIDE DEF u, s, msg
<1>8. /\ Shape(s) /\ s.session = net.session /\ s.end = net.end /\ s.wire = u /\ s.peers = net.peers
      /\ s.pool = net.pool /\ s.got = net.got
  BY <1>3 DEF SpreadInv, Sound, Shape
<1>9. CASE msg.kind = "Status"
  <2>1. net.got = [net.got EXCEPT ![x] = @ \cup msg.txs]
    BY <1>2, <1>6, <1>9, Zenon DEF Packets
  <2>2. Sound(s)
    BY <1>6, <1>7, <1>8, <2>1, Zenon DEF Sound
  <2> QED
    BY <1>1, <1>8, <1>9, <2>2, StatusSound, Zenon DEF HandlePacket, SpreadInv
<1>10. CASE msg.kind # "Status"
  <2> DEFINE had == [net.got EXCEPT ![x] = @ \cup msg.txs]
             taken == PoolImport(s, x, msg.txs)
             seen == [s EXCEPT !.got = had]
  <2>1. net' = OnTransactions(s, x, y, msg.txs)
    BY <1>1, <1>10, Zenon DEF HandlePacket
  <2>2. had \in [Nodes -> SUBSET Extrinsics] /\ \A z \in Nodes : net.got[z] \subseteq had[z]
    BY <1>4, <1>6, Zenon
  <2>3. taken \subseteq msg.txs /\ msg.txs \subseteq had[x] /\ msg.txs \subseteq had[y]
    BY <1>2, <1>4, <1>6, <2>2, Zenon DEF PoolImport
  <2>4. [s EXCEPT !.got[x] = @ \cup msg.txs] = seen
    BY <1>8
  <2>5. seen = [s EXCEPT !.got = had]
    OBVIOUS
  <2>6. \A z \in Nodes : net.pool[z] \subseteq had[z]
    BY <1>6, <2>2, Zenon
  <2>7. Unspoilt(net.session, net.end, u, net.peers, net.pool, had)
    BY <1>6, <1>7, <2>6, ZenonT(40)
  <2>8. CASE ~IsIdle(s, x) \/ s.peers[x][y] = None
    <3> DEFINE lost == [seen.lost EXCEPT ![x] = @ \cup msg.txs]
    <3>1. net' = [seen EXCEPT !.lost = lost]
      BY <2>1, <2>4, <2>8, ZenonT(40) DEF OnTransactions
    <3> HIDE DEF had, seen, lost
    <3>2. /\ Shape(seen) /\ seen.session = net.session /\ seen.end = net.end /\ seen.wire = u
          /\ seen.peers = net.peers /\ seen.pool = net.pool /\ seen.got = had
      BY <1>8, <2>5 DEF Shape
    <3>3. /\ Shape(net') /\ net'.session = net.session /\ net'.end = net.end /\ net'.wire = u
          /\ net'.peers = net.peers /\ net'.pool = net.pool /\ net'.got = had
      BY <3>1, <3>2 DEF Shape
    <3> QED
      BY <2>7, <3>3 DEF SpreadInv, Sound
  <2>9. CASE IsIdle(s, x) /\ s.peers[x][y] # None
    <3> DEFINE held == [net.pool EXCEPT ![x] = @ \cup taken]
               lost == [seen.lost EXCEPT ![x] = @ \cup (msg.txs \ taken)]
               Q == [net.peers EXCEPT ![x][y] = net.peers[x][y] \cup taken]
    <3>1. held \in [Nodes -> SUBSET Extrinsics] /\ \A z \in Nodes : held[z] \subseteq had[z]
      BY <1>4, <1>6, <2>3, <2>6, Zenon
    <3>2. seen.pool = net.pool /\ seen.peers = net.peers
      <4> HIDE DEF had, seen
      <4> QED
        BY <1>8, <2>5 DEF Shape
    <3>3. net' = [seen EXCEPT !.pool = held, !.lost = lost, !.peers = Q]
      BY <2>1, <2>4, <2>9, <3>2 DEF OnTransactions
    <3> HIDE DEF had, seen, held, lost, taken
    <3>4. Unspoilt(net.session, net.end, u, net.peers, held, had)
      BY <1>7, <3>1, Zenon DEF had
    <3>5. Unspoilt(net.session, net.end, u, Q, held, had)
      <4>1. taken \in SUBSET had[y] /\ net.peers[x][y] # None
        BY <1>8, <2>3, <2>9, Zenon
      <4> QED
        BY <1>1, <3>4, <4>1, Learns, Zenon
    <3> HIDE DEF Q
    <3>6. /\ Shape(seen) /\ seen.session = net.session /\ seen.end = net.end /\ seen.wire = u
          /\ seen.got = had
      BY <1>8, <2>5 DEF Shape
    <3>7. /\ Shape(net') /\ net'.session = net.session /\ net'.end = net.end /\ net'.wire = u
          /\ net'.peers = Q /\ net'.pool = held /\ net'.got = had
      BY <3>3, <3>6 DEF Shape
    <3> QED
      BY <3>5, <3>7 DEF SpreadInv, Sound
  <2> QED
    BY <2>8, <2>9, Zenon
<1> QED
  BY <1>9, <1>10

(* propagate_transactions *)
LEMMA PropagateSound ==
  ASSUME SpreadInv, NEW x \in Nodes, net' = PropagateTransactions(net, x)
  PROVE  SpreadInv'
<1>1. CASE ~IsIdle(net, x)
  BY <1>1 DEF PropagateTransactions, SpreadInv
<1>2. CASE IsIdle(net, x)
  <2> DEFINE targets == {y \in Nodes : net.peers[x][y] # None /\ ToSend(net, x, y) # {}}
             reached == {y \in targets : {x, y} \in net.session}
             sent == [y \in Nodes |-> IF y \in targets THEN ToSend(net, x, y) ELSE {}]
             held == [net.pool EXCEPT ![x] = Pending(net, x)]
             Q == SentPeers(net.peers, x, sent)
             u == SentWire(net.wire, x, reached, sent)
             told == [net.told EXCEPT ![x] = @ \cup UNION {sent[y] : y \in reached}]
  <2>1. Unspoilt(net.session, net.end, net.wire, net.peers, net.pool, net.got)
    BY DEF SpreadInv, Sound
  <2>2. /\ net.pool[x] \subseteq net.got[x] /\ net.got[x] \subseteq Extrinsics
        /\ net.pool \in [Nodes -> SUBSET Extrinsics] /\ net.got \in [Nodes -> SUBSET Extrinsics]
        /\ \A z \in Nodes : net.pool[z] \subseteq net.got[z]
    BY <2>1, Zenon DEF Unspoilt
  <2>3. sent \in [Nodes -> SUBSET net.got[x]]
    BY <2>2, ZenonT(40) DEF ToSend, Pending
  <2>4. Covers(net.session, x, reached, sent)
    BY DEF Covers
  <2>5. held \in [Nodes -> SUBSET Extrinsics] /\ \A z \in Nodes : held[z] \subseteq net.got[z]
    BY <2>2 DEF Pending
  <2>6. net' = [net EXCEPT !.pool = held, !.peers = Q, !.wire = u, !.told = told]
    BY <1>2 DEF PropagateTransactions, SentPeers, SentWire
  <2> HIDE DEF sent, reached, targets
  <2>7. Unspoilt(net.session, net.end, u, Q, net.pool, net.got)
    BY <2>1, <2>3, <2>4, Propagates, Zenon
  <2> HIDE DEF held, Q, u, told
  <2>8. Unspoilt(net.session, net.end, u, Q, held, net.got)
    BY <2>2, <2>5, <2>7, Gets, Zenon
  <2>9. /\ Shape(net') /\ net'.session = net.session /\ net'.end = net.end /\ net'.wire = u /\ net'.peers = Q
        /\ net'.pool = held /\ net'.got = net.got
    BY <2>6, Zenon DEF SpreadInv, Sound, Shape
  <2> QED
    BY <2>8, <2>9 DEF SpreadInv, Sound
<1> QED
  BY <1>1, <1>2

-----------------------------------------------------------------------------
(* Steps that concern none of this. *)
LEMMA Apart ==
  ASSUME NEW s, Sound(s), NEW r, Shape(r),
         r.session = s.session, r.end = s.end, r.wire = s.wire, r.peers = s.peers,
         r.pool = s.pool, r.got = s.got
  PROVE  Sound(r)
  BY DEF Sound

LEMMA MishapSound == ASSUME NEW s, Sound(s) PROVE Sound(Mishap(s))
<1> DEFINE more == s.mishaps + 1
           r == Mishap(s)
<1>1. r = [s EXCEPT !.mishaps = more]
  BY DEF Mishap
<1> HIDE DEF more, r
<1> QED
  BY <1>1, Apart DEF Sound, Shape, r

(* devp2p's sessions *)
LEMMA SessionsSound ==
  ASSUME SpreadInv, NEW chan \in Links, Open(chan) \/ Lost(chan)
  PROVE  SpreadInv'
<1>0. Sound(net)
  BY DEF SpreadInv
<1>1. CASE Open(chan)
  <2> DEFINE T == net.session \cup {chan}
  <2>1. net' = [net EXCEPT !.session = T] /\ \A a \in chan, b \in chan : <<a, b>> \notin net.end
    BY <1>1 DEF Open
  <2>2. Unspoilt(T, net.end, net.wire, net.peers, net.pool, net.got)
    BY <1>0, <2>1, Opens DEF Sound
  <2> HIDE DEF T
  <2>3. /\ Shape(net') /\ net'.session = T /\ net'.end = net.end /\ net'.wire = net.wire /\ net'.peers = net.peers
        /\ net'.pool = net.pool /\ net'.got = net.got
    BY <1>0, <2>1 DEF Sound, Shape
  <2> QED
    BY <2>2, <2>3 DEF SpreadInv, Sound
<1>2. CASE Lost(chan)
  BY <1>0, <1>2, CloseSound, MishapSound, Zenon DEF Lost, DisconnectPeer, SpreadInv
<1> QED
  BY <1>1, <1>2

(* ... and what a node does at its end of them *)
LEMMA EndsSound ==
  ASSUME SpreadInv, NEW x \in Nodes,
         \/ NetworkStop(x)
         \/ \E y \in Nodes : Connected(x, y) \/ Disconnected(x, y) \/ HandshakeTimeout(x, y)
  PROVE  SpreadInv'
<1>0. Sound(net)
  BY DEF SpreadInv
<1>1. CASE NetworkStop(x)
  <2> DEFINE c == Close(net, {chan \in net.session : x \in chan})
             up == c.up \ {x}
             aborted == c.aborted \ {x}
  <2>1. net' = [c EXCEPT !.up = up, !.aborted = aborted]
    BY <1>1 DEF NetworkStop
  <2>2. Sound(c)
    BY <1>0, CloseSound, Zenon
  <2> HIDE DEF c, up, aborted
  <2>3. /\ Shape(net') /\ net'.session = c.session /\ net'.end = c.end /\ net'.wire = c.wire
        /\ net'.peers = c.peers /\ net'.pool = c.pool /\ net'.got = c.got
    BY <2>1, <2>2 DEF Sound, Shape
  <2> QED
    BY <2>2, <2>3, Apart DEF SpreadInv
<1>2. ASSUME NEW y \in Nodes, Connected(x, y) PROVE SpreadInv'
  BY <1>0, <1>2, ConnectedSound DEF Connected, SpreadInv
<1>3. ASSUME NEW y \in Nodes, Disconnected(x, y) PROVE SpreadInv'
  BY <1>0, <1>3, DisconnectedSound DEF Disconnected, SpreadInv
<1>4. ASSUME NEW y \in Nodes, HandshakeTimeout(x, y) PROVE SpreadInv'
  <2> DEFINE d == DisconnectPeer(net, x, y)
  <2>1. Sound(d)
    BY <1>0, CloseSound DEF DisconnectPeer
  <2>2. net' = Mishap(OnPeerDisconnected(d, x, y))
    BY <1>4, Zenon DEF HandshakeTimeout
  <2> HIDE DEF d
  <2>3. d = [d EXCEPT !.end = d.end]
    BY <2>1 DEF Sound, Shape
  <2>4. Sound(OnPeerDisconnected([d EXCEPT !.end = d.end], x, y))
    BY <2>1, DisconnectedSound
  <2> QED
    BY <2>2, <2>3, <2>4, MishapSound DEF SpreadInv
<1> QED
  BY <1>1, <1>2, <1>3, <1>4

(* The pool, the chain and the service of a node *)
LEMMA NodeSound ==
  ASSUME SpreadInv, NEW x \in Nodes,
         \/ Stop(x) \/ Start(x) \/ FallBehind(x) \/ CatchUp(x)
         \/ \E t \in Extrinsics : Submit(x, t) \/ BlockImported(x, t)
  PROVE  SpreadInv'
<1>0. Sound(net) /\ Shape(net) /\ Unspoilt(net.session, net.end, net.wire, net.peers, net.pool, net.got)
  BY DEF SpreadInv, Sound
<1>1. /\ net.pool \in [Nodes -> SUBSET Extrinsics] /\ net.got \in [Nodes -> SUBSET Extrinsics]
      /\ \A z \in Nodes : net.pool[z] \subseteq net.got[z]
      /\ net.peers \in [Nodes -> [Nodes -> (SUBSET Extrinsics) \cup {None}]]
  BY <1>0, ZenonT(40) DEF Unspoilt
<1>2. CASE Stop(x)
  <2> DEFINE Q == [net.peers EXCEPT ![x] = [y \in Nodes |-> None]]
             hand == [net.hand EXCEPT ![x] = {}]
             behind == net.behind \ {x}
             c == [net EXCEPT !.peers = Q, !.hand = hand, !.behind = behind]
             aborted == c.aborted \cup {x}
             d == [c EXCEPT !.aborted = aborted]
  <2>1. AbortProtocol(net, x) = c
    BY DEF AbortProtocol
  <2>2. net' = Mishap(d)
    BY <1>2, <2>1 DEF Stop
  <2>3. Q \in [Nodes -> [Nodes -> (SUBSET Extrinsics) \cup {None}]]
    BY <1>1, ZenonT(40)
  <2>4. Forgotten(net.peers, Q, net.end, net.end)
    BY <1>1, Zenon DEF Forgotten
  <2>5. c = [net EXCEPT !.peers = Q, !.hand = hand, !.behind = behind] /\ d = [c EXCEPT !.aborted = aborted]
    OBVIOUS
  <2> HIDE DEF Q, hand, behind, c, aborted, d
  <2>6. Unspoilt(net.session, net.end, net.wire, Q, net.pool, net.got)
    BY <1>0, <2>3, <2>4, Forgets, Zenon
  <2>7. /\ Shape(c) /\ c.session = net.session /\ c.end = net.end /\ c.wire = net.wire /\ c.peers = Q
        /\ c.pool = net.pool /\ c.got = net.got
    BY <1>0, <2>5, Zenon DEF Shape
  <2>8. /\ Shape(d) /\ d.session = net.session /\ d.end = net.end /\ d.wire = net.wire /\ d.peers = Q
        /\ d.pool = net.pool /\ d.got = net.got
    BY <2>5, <2>7, Zenon DEF Shape
  <2> QED
    BY <2>2, <2>6, <2>8, MishapSound DEF SpreadInv, Sound
<1>3. CASE Start(x) \/ CatchUp(x)
  <2> DEFINE up == net.up \cup {x}
             behind == net.behind \ {x}
  <2>1. net' = [net EXCEPT !.up = up] \/ net' = [net EXCEPT !.behind = behind]
    BY <1>3 DEF Start, CatchUp
  <2> HIDE DEF up, behind
  <2>2. /\ Shape(net') /\ net'.session = net.session /\ net'.end = net.end /\ net'.wire = net.wire
        /\ net'.peers = net.peers /\ net'.pool = net.pool /\ net'.got = net.got
    BY <1>0, <2>1 DEF Shape
  <2> QED
    BY <1>0, <2>2, Apart DEF SpreadInv
<1>4. CASE FallBehind(x)
  <2> DEFINE behind == net.behind \cup {x}
             c == [net EXCEPT !.behind = behind]
  <2>1. net' = Mishap(c) /\ c = [net EXCEPT !.behind = behind]
    BY <1>4 DEF FallBehind
  <2> HIDE DEF behind, c
  <2>2. /\ Shape(c) /\ c.session = net.session /\ c.end = net.end /\ c.wire = net.wire
        /\ c.peers = net.peers /\ c.pool = net.pool /\ c.got = net.got
    BY <1>0, <2>1 DEF Shape
  <2> QED
    BY <1>0, <2>1, <2>2, Apart, MishapSound, Zenon DEF SpreadInv
<1>5. ASSUME NEW t \in Extrinsics, Submit(x, t) PROVE SpreadInv'
  <2> DEFINE held == [net.pool EXCEPT ![x] = @ \cup {t}]
             had == [net.got EXCEPT ![x] = @ \cup {t}]
  <2>1. net' = [net EXCEPT !.pool = held, !.got = had]
    BY <1>5, ZenonT(40) DEF Submit
  <2>2. /\ held \in [Nodes -> SUBSET Extrinsics] /\ had \in [Nodes -> SUBSET Extrinsics]
        /\ \A z \in Nodes : net.got[z] \subseteq had[z] /\ held[z] \subseteq had[z]
    BY <1>1, Zenon
  <2> HIDE DEF held, had
  <2>3. Unspoilt(net.session, net.end, net.wire, net.peers, held, had)
    BY <1>0, <2>2, Gets, Zenon
  <2>4. /\ Shape(net') /\ net'.session = net.session /\ net'.end = net.end /\ net'.wire = net.wire
        /\ net'.peers = net.peers /\ net'.pool = held /\ net'.got = had
    BY <1>0, <2>1 DEF Shape
  <2> QED
    BY <2>3, <2>4 DEF SpreadInv, Sound
<1>6. ASSUME NEW t \in Extrinsics, BlockImported(x, t) PROVE SpreadInv'
  <2> DEFINE mined == [net.mined EXCEPT ![x] = @ \cup {t}]
             c == [net EXCEPT !.mined = mined]
             held == [c.pool EXCEPT ![x] = Pending(c, x)]
  <2>1. net' = [c EXCEPT !.pool = held] /\ c = [net EXCEPT !.mined = mined]
    BY <1>6, Zenon DEF BlockImported, PruneImported
  <2> HIDE DEF mined, c
  <2>2. /\ Shape(c) /\ c.session = net.session /\ c.end = net.end /\ c.wire = net.wire
        /\ c.peers = net.peers /\ c.pool = net.pool /\ c.got = net.got
    BY <1>0, <2>1 DEF Shape
  <2>3. /\ held \in [Nodes -> SUBSET Extrinsics]
        /\ \A z \in Nodes : net.got[z] \subseteq net.got[z] /\ held[z] \subseteq net.got[z]
    BY <1>1, <2>2, Zenon DEF Pending
  <2> HIDE DEF held
  <2>4. Unspoilt(net.session, net.end, net.wire, net.peers, held, net.got)
    BY <1>0, <1>1, <2>3, Gets, Zenon
  <2>5. /\ Shape(net') /\ net'.session = net.session /\ net'.end = net.end /\ net'.wire = net.wire
        /\ net'.peers = net.peers /\ net'.pool = held /\ net'.got = net.got
    BY <2>1, <2>2, Zenon DEF Shape
  <2> QED
    BY <2>4, <2>5 DEF SpreadInv, Sound
<1> QED
  BY <1>2, <1>3, <1>4, <1>5, <1>6

(* A node withholds an extrinsic from a peer only because the peer has had *)
(* it or it is on its way on the session they have, for all nodes,         *)
(* sessions, extrinsics and orders in which the ends of a session learn of *)
(* it (propagate_transactions, on_transactions, on_peer_disconnected).     *)
THEOREM KnowledgeTrueHolds == SpreadSpec => []KnowledgeTrue
<1>1. SpreadInit => SpreadInv
  <2> SUFFICES ASSUME SpreadInit PROVE SpreadInv
    OBVIOUS
  <2>1. PICK setup \in Setups :
          net = [setup |-> setup, session |-> {}, end |-> {}, wire |-> [x \in Nodes |-> [y \in Nodes |-> <<>>]],
               peers |-> [x \in Nodes |-> [y \in Nodes |-> None]], hand |-> Empty,
               pool |-> Empty, mined |-> Empty, behind |-> {}, up |-> Nodes, aborted |-> {},
               told |-> Empty, banned |-> {}, mishaps |-> 0, got |-> Empty, lost |-> Empty]
    BY Zenon DEF SpreadInit
  <2>2. /\ net.wire = [x \in Nodes |-> [y \in Nodes |-> <<>>]] /\ net.peers = [x \in Nodes |-> [y \in Nodes |-> None]]
        /\ net.pool = Empty /\ net.got = Empty
    BY <2>1, Zenon
  <2>3. Shape(net)
    <3> HIDE DEF Empty
    <3> QED
      BY <2>1, Zenon DEF Shape
  <2>4. Unspoilt(net.session, net.end, net.wire, net.peers, net.pool, net.got)
    <3>1. <<>> \in Seq(Packets) /\ DOMAIN <<>> = {}
      OBVIOUS
    <3>2. net.wire \in [Nodes -> [Nodes -> Seq(Packets)]] /\ \A x \in Nodes, y \in Nodes : net.wire[x][y] = <<>>
      BY <2>2, <3>1
    <3>3. /\ net.peers \in [Nodes -> [Nodes -> (SUBSET Extrinsics) \cup {None}]]
          /\ \A x \in Nodes, y \in Nodes : net.peers[x][y] = None
      BY <2>2
    <3>4. net.pool \in [Nodes -> SUBSET Extrinsics] /\ net.got = net.pool
      BY <2>2 DEF Empty
    <3> QED
      BY <3>1, <3>2, <3>3, <3>4, Zenon DEF Unspoilt
  <2> QED
    BY <2>3, <2>4 DEF SpreadInv, Sound
<1>2. SpreadInv /\ [SpreadNext]_net => SpreadInv'
  <2> SUFFICES ASSUME SpreadInv, [SpreadNext]_net PROVE SpreadInv'
    OBVIOUS
  <2>1. CASE UNCHANGED net
    BY <2>1 DEF SpreadInv
  <2>2. ASSUME NEW l \in Links, Open(l) \/ Lost(l) PROVE SpreadInv'
    BY <2>2, SessionsSound
  <2>3. ASSUME NEW x \in Nodes, Works(x) \/ Timeout(x) \/ Stop(x) \/ Start(x) \/ FallBehind(x) PROVE SpreadInv'
    BY <2>3, EndsSound, ReadSound, PropagateSound, NodeSound, Zenon DEF Works, Timeout
  <2>4. ASSUME NEW x \in Nodes, NEW y \in Nodes, HandshakeTimeout(x, y) PROVE SpreadInv'
    BY <2>4, EndsSound
  <2>5. ASSUME NEW x \in Nodes, NEW t \in Extrinsics, Submit(x, t) \/ BlockImported(x, t) PROVE SpreadInv'
    BY <2>5, NodeSound
  <2> QED
    BY <2>1, <2>2, <2>3, <2>4, <2>5 DEF SpreadNext
<1>3. SpreadInv => KnowledgeTrue
  BY ZenonT(40) DEF SpreadInv, Sound, Unspoilt, KnowledgeTrue, Reaches
<1> QED
  BY <1>1, <1>2, <1>3, PTL DEF SpreadSpec

-----------------------------------------------------------------------------
(* Gossip *)

(* The sink may be the one of an older block: the messages about it that   *)
(* came since then are in the stream too, as the node keeps none that it   *)
(* did not hand to the sink.                                               *)
GossipInv ==
  /\ best \in [Validators -> Nat]
  /\ messages \in [Validators -> SUBSET Messages]
  /\ sink \in [Validators -> Nat \cup {Absent}]
  /\ stream \in [Validators -> SUBSET Messages]
  /\ StreamComplete

-----------------------------------------------------------------------------
(* Steps that add no message but the node's own and leave the streams. *)
LEMMA NothingNew ==
  ASSUME GossipInv, UNCHANGED <<sink, stream>>, best' \in [Validators -> Nat],
         messages' \in [Validators -> SUBSET Messages],
         \A n \in Validators : \A m \in messages'[n] : m \in messages[n] \/ Origin[m] = n
  PROVE  GossipInv'
  BY DEF GossipInv, StreamComplete

(* A message that is handed on is the only new one, and in the stream if   *)
(* it is about its block.                                                  *)
LEMMA OneMore ==
  ASSUME GossipInv, NEW n \in Validators, NEW m \in Messages, UNCHANGED best,
         messages' = [messages EXCEPT ![n] = @ \cup {m}],
         sink' = [sink EXCEPT ![n] = IF @ = ParentOf[m] THEN @ ELSE Absent],
         stream' = [stream EXCEPT ![n] = IF sink[n] = ParentOf[m] THEN @ \cup {m} ELSE @]
  PROVE  GossipInv'
<1>1. /\ messages' \in [Validators -> SUBSET Messages]
      /\ sink' \in [Validators -> Nat \cup {Absent}]
      /\ stream' \in [Validators -> SUBSET Messages]
  BY DEF GossipInv
<1>2. ASSUME NEW k \in Validators, sink'[k] # Absent
      PROVE  {x \in messages'[k] : ParentOf[x] = sink'[k] /\ Origin[x] # k} \subseteq stream'[k]
  <2>1. CASE k # n
    BY <1>2, <2>1 DEF GossipInv, StreamComplete
  <2>2. CASE k = n
    <3>1. sink[n] = ParentOf[m] /\ sink'[n] = sink[n] /\ sink[n] # Absent
      BY <1>2, <2>2 DEF GossipInv
    <3>2. stream'[n] = stream[n] \cup {m} /\ messages'[n] = messages[n] \cup {m}
      BY <3>1 DEF GossipInv
    <3> QED
      BY <2>2, <3>1, <3>2 DEF GossipInv, StreamComplete
  <2> QED
    BY <2>1, <2>2
<1> QED
  BY <1>1, <1>2, ZenonT(40) DEF GossipInv, StreamComplete

(* The agreement that runs on a block gets every message about it that its *)
(* node keeps, whether it came before the stream was opened or after, but  *)
(* the node's own, whatever blocks are imported, connections are lost and  *)
(* messages are dropped (Consensus::bft_messages, on_bft_message).         *)
THEOREM StreamCompleteHolds == GossipSpec => []StreamComplete
<1>1. GossipInit => GossipInv
  BY DEF GossipInit, GossipInv, StreamComplete
<1>2. GossipInv /\ [GossipNext]_gossip => GossipInv'
  <2> SUFFICES ASSUME GossipInv, [GossipNext]_gossip PROVE GossipInv'
    OBVIOUS
  <2>1. CASE UNCHANGED gossip
    BY <2>1, ZenonT(40) DEF GossipInv, gossip, StreamComplete
  <2>2. ASSUME NEW n \in Validators, NEW m \in Messages, SendBftMessage(n, m) PROVE GossipInv'
    <3>1. messages' = [messages EXCEPT ![n] = @ \cup {m}] /\ Origin[m] = n
      BY <2>2 DEF SendBftMessage, RegisterAndPropagate
    <3>2. UNCHANGED <<best, sink, stream>>
      BY <2>2 DEF SendBftMessage
    <3>3. best' \in [Validators -> Nat] /\ messages' \in [Validators -> SUBSET Messages]
      BY <3>1, <3>2 DEF GossipInv
    <3>4. \A k \in Validators : \A x \in messages'[k] : x \in messages[k] \/ Origin[x] = k
      BY <3>1 DEF GossipInv
    <3> QED
      BY <3>2, <3>3, <3>4, NothingNew
  <2>3. ASSUME NEW n \in Validators, NEW p \in Validators, NEW m \in Messages, OnBftMessage(n, p, m) PROVE GossipInv'
    <3>1. CASE Ignored(n, m) /\ UNCHANGED <<best, messages, sink, stream>>
      BY <3>1, ZenonT(40) DEF GossipInv, StreamComplete
    <3>2. CASE /\ UNCHANGED best
               /\ messages' = [messages EXCEPT ![n] = @ \cup {m}]
               /\ sink' = [sink EXCEPT ![n] = IF @ = ParentOf[m] THEN @ ELSE Absent]
               /\ stream' = [stream EXCEPT ![n] = IF sink[n] = ParentOf[m] THEN @ \cup {m} ELSE @]
      BY <3>2, OneMore, Zenon
    <3> QED
      BY <2>3, <3>1, <3>2, Zenon DEF OnBftMessage, RegisterAndPropagate
  <2>4. ASSUME NEW n \in Validators, BftMessages(n) PROVE GossipInv'
    <3>1. /\ sink' = [sink EXCEPT ![n] = best[n]] /\ UNCHANGED <<best, messages>>
          /\ stream' = [stream EXCEPT ![n] = {m \in messages[n] : ParentOf[m] = best[n]}]
      BY <2>4 DEF BftMessages
    <3>2. sink' \in [Validators -> Nat \cup {Absent}] /\ stream' \in [Validators -> SUBSET Messages]
      BY <3>1 DEF GossipInv
    <3>3. StreamComplete'
      BY <3>1 DEF GossipInv, StreamComplete
    <3> QED
      BY <3>1, <3>2, <3>3 DEF GossipInv
  <2>5. ASSUME NEW n \in Validators, NEW p \in Validators, NewPeer(n, p) \/ PeerDisconnected(n, p) PROVE GossipInv'
    BY <2>5 DEF NewPeer, PeerDisconnected, GossipInv, StreamComplete
  <2>6. ASSUME NEW n \in Validators, Import(n) PROVE GossipInv'
    <3>1. best' \in [Validators -> Nat] /\ UNCHANGED <<messages, sink, stream>>
      BY <2>6 DEF Import, GossipInv
    <3> QED
      BY <3>1, NothingNew DEF GossipInv
  <2>7. ASSUME NEW n \in Validators, NEW keep \in SUBSET messages[n], CollectGarbage(n, keep),
               UNCHANGED <<best, sink, stream>>
        PROVE  GossipInv'
    <3>1. messages' = [messages EXCEPT ![n] = keep]
      BY <2>7, Zenon DEF CollectGarbage
    <3>2. messages' \in [Validators -> SUBSET Messages] /\ \A k \in Validators : messages'[k] \subseteq messages[k]
      BY <3>1 DEF GossipInv
    <3> QED
      BY <2>7, <3>2, NothingNew DEF GossipInv
  <2>8. ASSUME NEW n \in Validators, OnBlockImported(n) PROVE GossipInv'
    BY <2>7, <2>8, Zenon DEF OnBlockImported
  <2>9. ASSUME NEW n \in Validators, NEW m \in Messages, Tick(n, m) PROVE GossipInv'
    BY <2>7, <2>9, Zenon DEF Tick
  <2> QED
    BY <2>1, <2>2, <2>3, <2>4, <2>5, <2>6, <2>8, <2>9 DEF GossipNext
<1>3. GossipInv => StreamComplete
  BY DEF GossipInv
<1> QED
  BY <1>1, <1>2, <1>3, PTL DEF GossipSpec

-----------------------------------------------------------------------------
(* BftService: one agreement at a time, for any chain and any number of    *)
(* agreements and failures.                                                *)

(* The inductive invariant, of any state s of the service. *)

Futures == [parent : Nat, polled : BOOLEAN, cancel : BOOLEAN, done : BOOLEAN]
Handles == {Nil} \cup [parent : Nat, id : Nat]

States ==
  [best : Nat, notes : Seq(Nat), live : Handles, fut : Seq(Futures), stream : {Nil} \cup Nat,
   due : SUBSET Int, turn : Int, waits : {Nil} \cup Nat, prev_best : Nat, fresh : SUBSET Nat,
   errors : Nat, exit : BOOLEAN]

AgreementIds(s) == 1..Len(s.fut)

(* A handle is that of an agreement. *)
Known(s, handle) == handle # Nil => handle.id \in AgreementIds(s)

(* An agreement that was not polled yet is about to be. *)
UnpolledDue(s) ==
  \A id \in AgreementIds(s) : ~s.fut[id].polled /\ ~s.fut[id].done => id \in s.fresh \cup s.due

(* OneAgreement and WaitsForFresh of s; while the reactor waits it is in   *)
(* the turn of a task.                                                     *)
Held(s) ==
  \A id \in AgreementIds(s) : Running(s.fut[id]) /\ s.waits # id => s.live # Nil /\ s.live.id = id

Waiting(s) == s.waits # Nil => s.waits \in s.fresh \cup s.due /\ s.turn # Idle

Good(s) ==
  /\ s \in States
  /\ Known(s, s.live)
  /\ UnpolledDue(s)
  /\ Held(s)
  /\ Waiting(s)

(* A value that is neither a number nor a handle stands for nothing. *)
NilIsApart == Nil \notin Nat /\ Nil \notin [parent : Nat, id : Nat]

-----------------------------------------------------------------------------
(* One of a list of agreements is changed. *)
LEMMA FutureChanged ==
  ASSUME NEW fs \in Seq(Futures), NEW j \in 1..Len(fs), NEW f \in Futures
  PROVE  /\ [fs EXCEPT ![j] = f] \in Seq(Futures)
         /\ Len([fs EXCEPT ![j] = f]) = Len(fs)
         /\ \A id \in 1..Len(fs) : [fs EXCEPT ![j] = f][id] = IF id = j THEN f ELSE fs[id]
  OBVIOUS

(* Dropping the handle of the agreement that was replaced. *)
LEMMA DropHandleGood ==
  ASSUME NilIsApart, NEW s \in States, NEW handle \in Handles,
         s.waits = Nil, s.turn # Idle, Known(s, s.live), Known(s, handle), UnpolledDue(s),
         \A id \in AgreementIds(s) : Running(s.fut[id]) =>
            \/ s.live # Nil /\ s.live.id = id
            \/ handle # Nil /\ handle.id = id
  PROVE  Good(DropHandle(s, handle))
<1> DEFINE t == DropHandle(s, handle)
<1> USE DEF AgreementIds
<1>1. CASE handle = Nil
  BY <1>1 DEF DropHandle, Good, Held, Waiting
<1>2. CASE handle # Nil /\ s.fut[handle.id].polled
  <2> DEFINE j == handle.id
             told == [s.fut[j] EXCEPT !.cancel = TRUE]
             f == [s.fut EXCEPT ![j] = told]
  <2>1. t = [s EXCEPT !.fut = f]
    BY <1>2 DEF DropHandle
  <2>2. j \in 1..Len(s.fut) /\ s.fut \in Seq(Futures)
    BY <1>2 DEF Known, States
  <2>a. s.fut[j] \in Futures
    BY <2>2
  <2>b. /\ told \in Futures /\ told.cancel = TRUE
        /\ told.polled = s.fut[j].polled /\ told.done = s.fut[j].done
    BY <2>a, ZenonT(40) DEF Futures
  <2> HIDE DEF told
  <2>3. f \in Seq(Futures) /\ Len(f) = Len(s.fut)
    BY <2>2, <2>b, FutureChanged
  <2>c. \A id \in 1..Len(s.fut) : f[id] = IF id = j THEN told ELSE s.fut[id]
    BY <2>2, <2>b, FutureChanged
  <2> HIDE DEF f
  <2>4. \A id \in 1..Len(s.fut) :
          f[id].polled = s.fut[id].polled /\ f[id].done = s.fut[id].done
    BY <2>b, <2>c
  <2>5. /\ t \in States /\ t.fut = f /\ t.live = s.live /\ t.waits = s.waits
        /\ t.turn = s.turn /\ t.fresh = s.fresh /\ t.due = s.due
    BY <2>1, <2>3, ZenonT(40) DEF States
  <2>6. Known(t, t.live) /\ UnpolledDue(t)
    BY <2>3, <2>4, <2>5 DEF Known, UnpolledDue
  <2>7. Held(t)
    <3> SUFFICES ASSUME NEW id \in 1..Len(s.fut), Running(f[id])
                 PROVE  s.live # Nil /\ s.live.id = id
      BY <2>3, <2>5 DEF Held
    <3>1. id # j
      BY <2>b, <2>c, ZenonT(40) DEF Running
    <3> QED
      BY <3>1, <2>c, ZenonT(40)
  <2>8. Waiting(t)
    BY <2>5 DEF Waiting
  <2> QED
    BY <2>5, <2>6, <2>7, <2>8 DEF Good
<1>3. CASE handle # Nil /\ ~s.fut[handle.id].polled /\ s.fut[handle.id].done
  <2>1. t = s
    BY <1>3 DEF DropHandle
  <2>2. Held(s)
    BY <1>3 DEF Held, Running, Known
  <2> QED
    BY <2>1, <2>2 DEF Good, Waiting
<1>4. CASE handle # Nil /\ ~s.fut[handle.id].polled /\ ~s.fut[handle.id].done
  <2>1. t = [s EXCEPT !.waits = handle.id]
    BY <1>4 DEF DropHandle
  <2>2. handle.id \in Nat /\ handle.id \in 1..Len(s.fut)
    BY <1>4 DEF Known, Handles
  <2>3. /\ t \in States /\ t.fut = s.fut /\ t.live = s.live /\ t.waits = handle.id
        /\ t.turn = s.turn /\ t.fresh = s.fresh /\ t.due = s.due
    BY <2>1, <2>2, Zenon DEF States
  <2>4. Known(t, t.live) /\ UnpolledDue(t)
    BY <2>3 DEF Known, UnpolledDue
  <2>5. Held(t)
    BY <2>2, <2>3 DEF Held
  <2>6. Waiting(t)
    BY <1>4, <2>2, <2>3 DEF Waiting, UnpolledDue
  <2> QED
    BY <2>3, <2>4, <2>5, <2>6, Zenon DEF Good
<1> QED
  BY <1>1, <1>2, <1>3, <1>4

(* A state in which an agreement may be started. *)
Ready(s) == Good(s) /\ s.waits = Nil /\ s.turn # Idle

LEMMA BuildUponGood ==
  ASSUME NilIsApart, NEW s, Ready(s), NEW parent \in Nat, NEW ok \in BOOLEAN
  PROVE  Good(BuildUpon(s, parent, ok))
<1> DEFINE t == BuildUpon(s, parent, ok)
<1>0. s \in States /\ s.live \in Handles /\ s.fut \in Seq(Futures) /\ s.errors \in Nat
  BY DEF Ready, Good, States
<1>1. CASE LiveOn(s, parent)
  BY <1>1 DEF BuildUpon, Ready
<1>2. CASE ~LiveOn(s, parent) /\ parent \in Outside
  <2> DEFINE u == [s EXCEPT !.live = Nil]
  <2>1. t = DropHandle(u, s.live)
    BY <1>2 DEF BuildUpon
  <2>2. /\ u \in States /\ u.live = Nil /\ u.fut = s.fut /\ u.waits = s.waits
        /\ u.turn = s.turn /\ u.fresh = s.fresh /\ u.due = s.due
    BY <1>0, Zenon DEF States, Handles
  <2>3. Known(u, u.live) /\ Known(u, s.live) /\ UnpolledDue(u)
    BY <2>2 DEF Known, UnpolledDue, Ready, Good, AgreementIds
  <2>4. \A id \in AgreementIds(u) : Running(u.fut[id]) => s.live # Nil /\ s.live.id = id
    BY <2>2, NilIsApart DEF Held, Ready, Good, AgreementIds, NilIsApart
  <2> QED
    BY <1>0, <2>1, <2>2, <2>3, <2>4, DropHandleGood, Zenon DEF Ready
<1>3. CASE ~LiveOn(s, parent) /\ parent \notin Outside /\ ~ok
  <2> DEFINE more == s.errors + 1
             u == [s EXCEPT !.errors = more]
  <2>1. t = u
    BY <1>3 DEF BuildUpon
  <2>a. more \in Nat
    BY <1>0
  <2> HIDE DEF more
  <2>2. /\ u \in States /\ u.live = s.live /\ u.fut = s.fut /\ u.waits = s.waits
        /\ u.turn = s.turn /\ u.fresh = s.fresh /\ u.due = s.due
    BY <1>0, <2>a, Zenon DEF States
  <2> QED
    BY <2>1, <2>2 DEF Ready, Good, Known, UnpolledDue, Held, Waiting, AgreementIds
<1>4. CASE ~LiveOn(s, parent) /\ parent \notin Outside /\ ok
  <2> DEFINE n == Len(s.fut) + 1
             new == [parent |-> parent, polled |-> FALSE, cancel |-> FALSE, done |-> FALSE]
             u == [s EXCEPT !.fut = Append(s.fut, new), !.live = [parent |-> parent, id |-> n],
                            !.fresh = s.fresh \cup {n}]
  <2>1. t = DropHandle(u, s.live)
    BY <1>4 DEF BuildUpon
  <2>2. /\ n \in Nat /\ new \in Futures
        /\ Append(s.fut, new) \in Seq(Futures) /\ Len(Append(s.fut, new)) = n
        /\ Append(s.fut, new)[n] = new
        /\ \A id \in 1..Len(s.fut) : Append(s.fut, new)[id] = s.fut[id]
    BY <1>0 DEF Futures
  <2>3. s.fresh \cup {n} \in SUBSET Nat /\ [parent |-> parent, id |-> n] \in Handles
    BY <1>0, <2>2 DEF States, Handles
  <2>4. /\ u \in States /\ u.live = [parent |-> parent, id |-> n] /\ u.fut = Append(s.fut, new)
        /\ u.waits = s.waits /\ u.turn = s.turn /\ u.fresh = s.fresh \cup {n} /\ u.due = s.due
    BY <1>0, <2>2, <2>3 DEF States
  <2> HIDE DEF u, new
  <2>5. Known(u, u.live)
    BY <2>2, <2>4 DEF Known, AgreementIds
  <2>6. Known(u, s.live)
    BY <1>0, <2>2, <2>4 DEF Known, AgreementIds, Ready, Good
  <2>7. UnpolledDue(u)
    <3> SUFFICES ASSUME NEW id \in 1..n, ~u.fut[id].polled, ~u.fut[id].done
                 PROVE  id \in u.fresh \cup u.due
      BY <2>2, <2>4, ZenonT(40) DEF UnpolledDue, AgreementIds
    <3>1. CASE id = n
      BY <3>1, <2>4
    <3>2. CASE id # n
      BY <3>2, <1>0, <2>2, <2>4 DEF UnpolledDue, Ready, Good, AgreementIds
    <3> QED
      BY <3>1, <3>2
  <2>8. \A id \in AgreementIds(u) : Running(u.fut[id]) =>
            \/ u.live # Nil /\ u.live.id = id
            \/ s.live # Nil /\ s.live.id = id
    <3> SUFFICES ASSUME NEW id \in 1..n, Running(u.fut[id]), ~(s.live # Nil /\ s.live.id = id)
                 PROVE  u.live # Nil /\ u.live.id = id
      BY <2>2, <2>4 DEF AgreementIds
    <3>1. id = n
      BY <1>0, <2>2, <2>4 DEF Held, Ready, Good, AgreementIds, NilIsApart
    <3>2. u.live # Nil
      BY <2>4, <2>2 DEF NilIsApart
    <3> QED
      BY <3>1, <3>2, <2>4
  <2> QED
    BY <1>0, <2>1, <2>4, <2>5, <2>6, <2>7, <2>8, DropHandleGood, ZenonT(40) DEF Ready
<1> QED
  BY <1>1, <1>2, <1>3, <1>4

LEMMA StartBftGood ==
  ASSUME NilIsApart, NEW s, Ready(s), NEW parent \in Nat, NEW found \in BOOLEAN, NEW ok \in BOOLEAN
  PROVE  Good(StartBft(s, parent, found, ok))
<1> DEFINE t == StartBft(s, parent, found, ok)
<1>0. s \in States /\ s.errors \in Nat
  BY DEF Ready, Good, States
<1>1. CASE LiveOn(s, parent)
  BY <1>1 DEF StartBft, Ready
<1>2. CASE ~LiveOn(s, parent) /\ ~found
  <2> DEFINE more == s.errors + 1
             u == [s EXCEPT !.errors = more]
  <2>1. t = u
    BY <1>2 DEF StartBft
  <2>2. more \in Nat
    BY <1>0
  <2> HIDE DEF more
  <2>3. /\ u \in States /\ u.live = s.live /\ u.fut = s.fut /\ u.waits = s.waits
        /\ u.turn = s.turn /\ u.fresh = s.fresh /\ u.due = s.due
    BY <1>0, <2>2, ZenonT(40) DEF States
  <2> QED
    BY <2>1, <2>3 DEF Ready, Good, Known, UnpolledDue, Held, Waiting, AgreementIds
<1>3. CASE ~LiveOn(s, parent) /\ found
  <2> DEFINE u == [s EXCEPT !.stream = parent]
  <2>1. t = BuildUpon(u, parent, ok)
    BY <1>3 DEF StartBft
  <2>2. /\ u \in States /\ u.live = s.live /\ u.fut = s.fut /\ u.waits = s.waits
        /\ u.turn = s.turn /\ u.fresh = s.fresh /\ u.due = s.due
    BY <1>0 DEF States
  <2> HIDE DEF u
  <2>3. Ready(u)
    BY <2>2 DEF Ready, Good, Known, UnpolledDue, Held, Waiting, AgreementIds
  <2> QED
    BY <2>1, <2>3, BuildUponGood
<1> QED
  BY <1>1, <1>2, <1>3

(* What counts of a state is the list of agreements and the batch. *)
SameService(s, t) ==
  t.live = s.live /\ t.fut = s.fut /\ t.waits = s.waits /\ t.fresh = s.fresh

LEMMA OthersGood ==
  ASSUME NEW s, Good(s), NEW t \in States, SameService(s, t),
         \A id \in AgreementIds(s) : id \in s.due => id \in t.due,
         s.waits # Nil => s.waits \in s.fresh \cup t.due /\ t.turn # Idle
  PROVE  Good(t)
<1>1. Known(t, t.live) /\ UnpolledDue(t)
  BY DEF Good, Known, UnpolledDue, SameService, AgreementIds
<1>2. Held(t)
  BY DEF Good, Held, SameService, AgreementIds
<1>3. Waiting(t)
  BY DEF Good, Waiting, SameService
<1> QED
  BY <1>1, <1>2, <1>3 DEF Good

LEMMA ImportedSame ==
  ASSUME NEW s \in States
  PROVE  Imported(s) \in States /\ SameService(s, Imported(s))
         /\ Imported(s).due = s.due /\ Imported(s).turn = s.turn
<1>1. s.best \in Nat /\ s.best + 1 \in Nat /\ s.notes \in Seq(Nat) /\ Append(s.notes, s.best + 1) \in Seq(Nat)
  BY DEF States
<1> DEFINE nb == s.best + 1
           nn == Append(s.notes, s.best + 1)
<1>2. nb \in Nat /\ nn \in Seq(Nat)
  BY <1>1
<1>3. Imported(s) = s \/ Imported(s) = [s EXCEPT !.best = nb, !.notes = nn]
  BY DEF Imported
<1> HIDE DEF nb, nn
<1> QED
  BY <1>2, <1>3, ZenonT(40) DEF States, SameService

LEMMA ImportedGood ==
  ASSUME NEW s, Good(s)
  PROVE  Good(Imported(s))
<1>1. s \in States
  BY DEF Good
<1>2. Imported(s) \in States /\ SameService(s, Imported(s))
      /\ Imported(s).due = s.due /\ Imported(s).turn = s.turn
  BY <1>1, ImportedSame, Zenon
<1>3. s.waits # Nil => s.waits \in s.fresh \cup Imported(s).due /\ Imported(s).turn # Idle
  BY <1>2, Zenon DEF Good, Waiting
<1>4. \A id \in AgreementIds(s) : id \in s.due => id \in Imported(s).due
  BY <1>2, Zenon
<1> QED
  BY <1>2, <1>3, <1>4, OthersGood, Zenon

(* The agreement id after its turn, in which it may have finished. *)
Turned(s, id, f) == [s EXCEPT !.fut = [s.fut EXCEPT ![id] = f], !.due = s.due \ {id}]

LEMMA TurnedGood ==
  ASSUME NilIsApart, NEW s, Good(s), s.turn = Idle, NEW id \in AgreementIds(s), NEW f \in Futures,
         f.polled, f.cancel = s.fut[id].cancel, s.fut[id].done => f.done
  PROVE  Good(Turned(s, id, f))
<1> DEFINE fs == [s.fut EXCEPT ![id] = f]
           d == s.due \ {id}
           t == [s EXCEPT !.fut = fs, !.due = d]
<1>1. s \in States /\ s.fut \in Seq(Futures) /\ id \in 1..Len(s.fut) /\ s.waits = Nil
  BY DEF Good, States, Waiting, AgreementIds
<1>2. fs \in Seq(Futures) /\ Len(fs) = Len(s.fut)
  BY <1>1, FutureChanged
<1>3. \A k \in 1..Len(s.fut) : fs[k] = IF k = id THEN f ELSE s.fut[k]
  BY <1>1, FutureChanged
<1>4. d \in SUBSET Int
  BY <1>1 DEF States
<1> HIDE DEF fs, d
<1>5. /\ t \in States /\ t.fut = fs /\ t.due = d /\ t.live = s.live /\ t.waits = s.waits
      /\ t.turn = s.turn /\ t.fresh = s.fresh
  BY <1>1, <1>2, <1>4, Zenon DEF States
<1>6. Turned(s, id, f) = t
  BY DEF Turned, fs, d
<1> HIDE DEF t
<1>7. Known(t, t.live)
  BY <1>2, <1>5 DEF Good, Known, AgreementIds
<1>8. UnpolledDue(t)
  <2> SUFFICES ASSUME NEW k \in 1..Len(s.fut), ~fs[k].polled, ~fs[k].done
               PROVE  k \in s.fresh \cup d
    BY <1>2, <1>5 DEF UnpolledDue, AgreementIds
  <2>1. k # id /\ fs[k] = s.fut[k]
    BY <1>3
  <2> QED
    BY <2>1 DEF Good, UnpolledDue, AgreementIds, d
<1>9. Held(t)
  <2> SUFFICES ASSUME NEW k \in 1..Len(s.fut), Running(fs[k])
               PROVE  s.live # Nil /\ s.live.id = k
    BY <1>2, <1>5 DEF Held, AgreementIds
  <2>1. Running(s.fut[k])
    BY <1>3 DEF Running
  <2>2. s.waits # k
    BY <1>1 DEF NilIsApart
  <2> QED
    BY <2>1, <2>2 DEF Good, Held, AgreementIds
<1>10. Waiting(t)
  BY <1>1, <1>5 DEF Waiting
<1> QED
  BY <1>5, <1>6, <1>7, <1>8, <1>9, <1>10, ZenonT(40) DEF Good

LEMMA PollAgreementGood ==
  ASSUME NilIsApart, Good(v), NEW id \in Started, PollAgreement(id)
  PROVE  Good(v')
<1> DEFINE f == v.fut[id]
           sent == [f EXCEPT !.polled = TRUE]
           ended == [f EXCEPT !.polled = TRUE, !.done = TRUE]
           s == Turned(v, id, sent)
           over == Turned(v, id, ended)
<1>1. v \in States /\ v.fut \in Seq(Futures) /\ id \in 1..Len(v.fut) /\ f \in Futures /\ v.turn = Idle
  BY DEF Good, States, Started, PollAgreement
<1>2. /\ sent \in Futures /\ sent.polled /\ sent.cancel = f.cancel /\ sent.done = f.done
      /\ ended \in Futures /\ ended.polled /\ ended.cancel = f.cancel /\ ended.done
  BY <1>1, Zenon DEF Futures
<1>3. Good(s) /\ Good(over)
  BY <1>1, <1>2, TurnedGood DEF AgreementIds
<1>4. s = [v EXCEPT !.fut[id].polled = TRUE, !.due = @ \ {id}]
  BY <1>1 DEF Turned, States
<1>5. over = [s EXCEPT !.fut[id].done = TRUE]
  <2> DEFINE fs == [v.fut EXCEPT ![id] = sent]
             gs == [v.fut EXCEPT ![id] = ended]
             d == v.due \ {id}
  <2>1. ended = [sent EXCEPT !.done = TRUE]
    BY <1>1 DEF Futures
  <2>2. fs[id] = sent /\ gs = [fs EXCEPT ![id] = ended]
    BY <1>1, <1>2, FutureChanged
  <2>3. s = [v EXCEPT !.fut = fs, !.due = d] /\ over = [v EXCEPT !.fut = gs, !.due = d]
    BY DEF Turned
  <2> HIDE DEF fs, gs, d, s, over, sent, ended
  <2>4. s.fut = fs /\ over = [s EXCEPT !.fut = gs]
    BY <1>1, <2>3, Zenon DEF States
  <2> QED
    BY <2>1, <2>2, <2>4, Zenon
<1>6. \/ v' = s \/ v' = over \/ v' = Imported(over)
      \/ v' = [over EXCEPT !.errors = over.errors + 1]
  BY <1>4, <1>5 DEF PollAgreement
<1> HIDE DEF s, over
<1>7. CASE v' = Imported(over)
  BY <1>3, <1>7, ImportedGood, Zenon
<1>8. CASE v' = [over EXCEPT !.errors = over.errors + 1]
  <2> DEFINE more == over.errors + 1
  <2>a. over \in States
    BY <1>3 DEF Good
  <2>1. over \in States /\ more \in Nat
    BY <2>a DEF States
  <2>2. v' = [over EXCEPT !.errors = more]
    BY <1>8
  <2> HIDE DEF more
  <2>3. v' \in States /\ SameService(over, v') /\ v'.due = over.due /\ v'.turn = over.turn
    BY <2>1, <2>2 DEF States, SameService
  <2> QED
    BY <1>3, <2>3, OthersGood, Zenon DEF Good, Waiting
<1> QED
  BY <1>3, <1>6, <1>7, <1>8

(* The names of tasks are no agreements. *)
LEMMA Tasks ==
  /\ {Idle, NotesTask, TimerTask} \subseteq Int
  /\ NotesTask # Idle /\ TimerTask # Idle
  /\ \A id \in Nat : id >= 1 => id # NotesTask /\ id # TimerTask
  BY DEF Idle, NotesTask, TimerTask

LEMMA HandleNotificationGood ==
  ASSUME NilIsApart, Good(v), HandleNotification
  PROVE  Good(v')
<1>1. v \in States /\ v.notes \in Seq(Nat) /\ v.turn = NotesTask /\ v.waits = Nil
  BY DEF Good, States, HandleNotification
<1>2. CASE v.notes = <<>> /\ EndTurn
  <2>1. v' \in States /\ SameService(v, v') /\ v'.due = v.due
    BY <1>1, <1>2, Tasks DEF EndTurn, States, SameService
  <2> QED
    BY <1>1, <2>1, OthersGood
<1>3. CASE v.notes # <<>>
  <2> DEFINE rest == Tail(v.notes)
             s == [v EXCEPT !.notes = rest]
  <2>1. rest \in Seq(Nat) /\ Head(v.notes) \in Nat
    BY <1>1, <1>3
  <2> HIDE DEF rest
  <2>2. s \in States /\ SameService(v, s) /\ s.due = v.due /\ s.turn = v.turn
    BY <1>1, <2>1, Zenon DEF States, SameService
  <2>3. Ready(s)
    <3> HIDE DEF s
    <3>1. Good(s)
      BY <1>1, <2>2, OthersGood
    <3> QED
      BY <1>1, <2>2, <3>1, Tasks DEF Ready, SameService
  <2>4. PICK found \in BOOLEAN, ok \in BOOLEAN : v' = StartBft(s, Head(v.notes), found, ok)
    BY <1>3 DEF HandleNotification, rest
  <2> QED
    BY <2>1, <2>3, <2>4, StartBftGood
<1> QED
  BY <1>2, <1>3 DEF HandleNotification

LEMMA TimedGood ==
  ASSUME NilIsApart, Good(v), Timed
  PROVE  Good(v')
<1>1. v \in States /\ v.best \in Nat /\ v.turn = TimerTask /\ v.waits = Nil
  BY DEF Good, States, Timed
<1>2. CASE v' = [v EXCEPT !.prev_best = v.best, !.turn = Idle]
  <2>1. v' \in States /\ SameService(v, v') /\ v'.due = v.due
    BY <1>1, <1>2, Tasks DEF States, SameService
  <2> QED
    BY <1>1, <2>1, OthersGood
<1>3. CASE v.best = v.prev_best
  <2>1. Ready(v)
    BY <1>1, Tasks DEF Ready
  <2>2. PICK found \in BOOLEAN, ok \in BOOLEAN :
          LET s == StartBft(v, v.best, found, ok)
          IN  v' = IF s.waits = Nil THEN [s EXCEPT !.turn = Idle] ELSE s
    BY <1>3 DEF Timed
  <2> DEFINE s == StartBft(v, v.best, found, ok)
  <2>3. Good(s)
    BY <1>1, <2>1, StartBftGood
  <2>4. v' = IF s.waits = Nil THEN [s EXCEPT !.turn = Idle] ELSE s
    BY <2>2
  <2> HIDE DEF s
  <2>5. CASE s.waits = Nil
    <3>a. s \in States
      BY <2>3 DEF Good
    <3>1. v' \in States /\ SameService(s, v') /\ v'.due = s.due
      BY <2>4, <2>5, <3>a, Tasks DEF States, SameService
    <3> QED
      BY <2>3, <2>5, <3>1, OthersGood
  <2> QED
    BY <2>3, <2>4, <2>5
<1> QED
  BY <1>2, <1>3 DEF Timed

LEMMA NewBatchGood ==
  ASSUME NilIsApart, Good(v), NEW timer \in SUBSET {TimerTask}, NewBatch(timer)
  PROVE  Good(v')
<1> DEFINE running == {id \in Started : ~v.fut[id].done}
           owed == {id \in Started : ~v.fut[id].done /\ (~v.fut[id].polled \/ v.fut[id].cancel)}
           heard == IF v.notes = <<>> THEN {} ELSE {NotesTask}
<1>1. PICK more \in SUBSET running :
        v' = [v EXCEPT !.fresh = {}, !.due = owed \cup more \cup timer \cup heard]
  BY Zenon DEF NewBatch
<1>2. owed \cup more \cup timer \cup heard \in SUBSET Int
  <2>1. Started \subseteq Int
    BY DEF Started
  <2> QED
    BY <2>1, Tasks, Zenon
<1> DEFINE d == owed \cup more \cup timer \cup heard
<1>3. owed \subseteq d
  OBVIOUS
<1>4. v \in States /\ v.waits = Nil
  BY DEF Good, NewBatch, Waiting
<1>5. d \in SUBSET Int /\ v' = [v EXCEPT !.fresh = {}, !.due = d]
  BY <1>1, <1>2
<1>6. \A id \in Started : ~v.fut[id].polled /\ ~v.fut[id].done => id \in d
  OBVIOUS
<1> HIDE DEF d, owed, running, heard
<1>7. /\ v' \in States /\ v'.fresh = {} /\ v'.due = d /\ v'.live = v.live /\ v'.fut = v.fut
      /\ v'.waits = v.waits
  BY <1>4, <1>5, Zenon DEF States
<1>8. Known(v', v'.live) /\ UnpolledDue(v')
  BY <1>6, <1>7, ZenonT(40) DEF Good, Known, UnpolledDue, AgreementIds, Started
<1>9. Held(v') /\ Waiting(v')
  BY <1>4, <1>7 DEF Good, Held, Waiting, AgreementIds
<1> QED
  BY <1>7, <1>8, <1>9, Zenon DEF Good

LEMMA ExitGood ==
  ASSUME NilIsApart, Good(v), Exit
  PROVE  Good(v')
<1> DEFINE fs == [j \in DOMAIN v.fut |-> [v.fut[j] EXCEPT !.done = TRUE]]
<1>1. v \in States /\ v.fut \in Seq(Futures) /\ v.waits = Nil /\ v' = [v EXCEPT !.fut = fs]
  BY DEF Good, States, Exit, Waiting
<1>2. \A j \in 1..Len(v.fut) : v.fut[j] \in Futures
  BY <1>1
<1>3. \A j \in 1..Len(v.fut) :
        [v.fut[j] EXCEPT !.done = TRUE] \in Futures /\ [v.fut[j] EXCEPT !.done = TRUE].done
  BY <1>2, Zenon DEF Futures
<1>4. DOMAIN fs = 1..Len(v.fut) /\ \A j \in 1..Len(v.fut) : fs[j] \in Futures /\ fs[j].done
  BY <1>1, <1>3
<1> HIDE DEF fs
<1>5. Len(v.fut) \in Nat /\ fs = [j \in 1..Len(v.fut) |-> fs[j]]
  BY <1>1, <1>4 DEF fs
<1>6. fs \in Seq(Futures) /\ Len(fs) = Len(v.fut)
  BY <1>4, <1>5
<1>7. /\ v' \in States /\ v'.fut = fs /\ v'.live = v.live /\ v'.waits = v.waits
  BY <1>1, <1>6 DEF States
<1>8. Known(v', v'.live) /\ UnpolledDue(v') /\ Held(v') /\ Waiting(v')
  BY <1>1, <1>4, <1>6, <1>7 DEF Good, Known, UnpolledDue, Held, Waiting, Running, AgreementIds
<1> QED
  BY <1>7, <1>8 DEF Good

LEMMA RestGood ==
  ASSUME Good(v), ImportBlock \/ Drop \/ Polls(NotesTask) \/ Polls(TimerTask)
  PROVE  Good(v')
<1>1. v \in States
  BY DEF Good
<1>2. CASE ImportBlock
  <2>1. v' = Imported(v)
    BY <1>2 DEF ImportBlock
  <2> QED
    BY <2>1, ImportedGood, Zenon
<1>3. CASE Drop
  <2>1. v' \in States /\ SameService(v, v') /\ v'.due = v.due /\ v'.turn = v.turn
    BY <1>1, <1>3, Zenon DEF Drop, States, SameService
  <2> QED
    BY <2>1, OthersGood, Zenon DEF Good, Waiting
<1>4. ASSUME NEW task \in {NotesTask, TimerTask}, Polls(task) PROVE Good(v')
  <2> DEFINE d == v.due \ {task}
  <2>1. task \in Int /\ d \in SUBSET Int /\ v' = [v EXCEPT !.turn = task, !.due = d]
    BY <1>1, <1>4 DEF Polls, NotesTask, TimerTask, States
  <2>2. \A id \in AgreementIds(v) : id \in v.due => id \in d
    BY DEF AgreementIds, NotesTask, TimerTask
  <2>3. v.waits = Nil
    BY <1>4 DEF Polls, Good, Waiting
  <2> HIDE DEF d
  <2>4. v' \in States /\ SameService(v, v') /\ v'.due = d
    BY <1>1, <2>1, Zenon DEF States, SameService
  <2> QED
    BY <2>2, <2>3, <2>4, OthersGood
<1> QED
  BY <1>2, <1>3, <1>4

-----------------------------------------------------------------------------
(* However many blocks come and agreements are started, fail or end, a     *)
(* node works on one agreement at a time, and its reactor waits only for   *)
(* one that was not polled since it was spawned (build_upon,               *)
(* AgreementHandle::drop).                                                 *)
THEOREM OneAtATimeHolds ==
  ASSUME NilIsApart
  PROVE  ServiceSpec => []OneAtATime
<1>1. ServiceInit => Good(v)
  <2> SUFFICES ASSUME ServiceInit PROVE Good(v)
    OBVIOUS
  <2>1. <<>> \in Seq(Nat) /\ <<>> \in Seq(Futures) /\ Len(<<>>) = 0
    OBVIOUS
  <2>2. v \in States
    BY <2>1, Tasks, ZenonT(40) DEF ServiceInit, States, Handles
  <2>3. v.live = Nil /\ v.fut = <<>> /\ v.waits = Nil
    BY DEF ServiceInit
  <2> QED
    BY <2>1, <2>2, <2>3 DEF Good, Known, UnpolledDue, Held, Waiting, AgreementIds
<1>2. Good(v) /\ [ServiceNext]_v => Good(v)'
  <2> SUFFICES ASSUME Good(v), [ServiceNext]_v PROVE Good(v')
    OBVIOUS
  <2>1. CASE UNCHANGED v
    BY <2>1
  <2>2. CASE Reactor
    BY <2>2, RestGood, HandleNotificationGood, TimedGood, ExitGood, PollAgreementGood DEF Reactor
  <2>3. CASE ImportBlock \/ Drop
    BY <2>3, RestGood
  <2>4. CASE \E timer \in SUBSET {TimerTask} : NewBatch(timer)
    BY <2>4, NewBatchGood
  <2> QED
    BY <2>1, <2>2, <2>3, <2>4 DEF ServiceNext
<1>3. Good(v) => OneAtATime
  BY DEF Good, OneAtATime, OneAgreement, WaitsForFresh, Held, Waiting, AgreementIds, Started
<1> QED
  BY <1>1, <1>2, <1>3, PTL DEF ServiceSpec

-----------------------------------------------------------------------------
(* ProposalTiming: a proposal is neither made too early nor held back, for *)
(* every number of parachains, every duration and every unit of the        *)
(* timers.                                                                 *)

Durations ==
  /\ Initials \subseteq Nat /\ AllowEmpty \subseteq Nat /\ MaxTime \in Nat
  /\ MinDelay \in Nat /\ MILLI \in Nat \ {0}

Inclusions == [y : Nat, m : Nat, initial : Nat, allow_empty : Nat]

(* The timer is right for the count that it was set for, at all times: it  *)
(* is over at most a millisecond too early, and is over when that many are *)
(* enough.                                                                 *)
TimingInv ==
  /\ dynamic \in Inclusions
  /\ now \in Nat /\ included \in Nat /\ last_included \in Nat /\ deadline \in Nat
  /\ minimum_passed \in BOOLEAN
  /\ deadline + MILLI - 1 >= ValidAfter(dynamic, last_included)
  /\ deadline <= now \/ deadline <= ValidAfter(dynamic, last_included)
  /\ minimum_passed => now >= MinDelay

-----------------------------------------------------------------------------
(* A timer in whole milliseconds is less than one too short. *)
LEMMA RoundedDown ==
  ASSUME NEW x \in Nat, NEW unit \in Nat \ {0}
  PROVE  /\ (x \div unit) * unit \in Nat
         /\ (x \div unit) * unit <= x /\ x < (x \div unit) * unit + unit
<1> DEFINE q == x \div unit
           r == x % unit
<1>1. q \in Nat /\ r \in 0..(unit - 1) /\ x = unit * q + r
  BY SMT
<1> HIDE DEF q, r
<1>2. q * unit = unit * q /\ q * unit \in Nat
  BY <1>1, SMT
<1>3. q * unit \in Nat /\ q * unit <= x /\ x < q * unit + unit
  BY <1>1, <1>2, SMT
<1> QED
  BY <1>3 DEF q

LEMMA ValidAfterTyped ==
  ASSUME NEW d \in Inclusions, NEW n \in Nat
  PROVE  ValidAfter(d, n) \in Nat
<1>1. d.y \in Nat /\ d.m \in Nat
  BY DEF Inclusions
<1>2. d.m * n \in Nat
  BY <1>1, SMT
<1> QED
  BY <1>1, <1>2, SMT DEF ValidAfter

(* The timer set at time t for n candidates. *)
LEMMA TimerRight ==
  ASSUME Durations, NEW d \in Inclusions, NEW t \in Nat, NEW n \in Nat
  PROVE  /\ t + AcceptableIn(d, t, n) \in Nat
         /\ t + AcceptableIn(d, t, n) + MILLI - 1 >= ValidAfter(d, n)
         /\ t + AcceptableIn(d, t, n) <= t \/ t + AcceptableIn(d, t, n) <= ValidAfter(d, n)
<1> DEFINE after == ValidAfter(d, n)
           in == AcceptableIn(d, t, n)
<1>1. after \in Nat /\ MILLI \in Nat \ {0}
  BY ValidAfterTyped DEF Durations
<1>2. CASE t >= after
  <2>1. in = 0
    BY <1>2 DEF AcceptableIn, Acceptable
  <2> HIDE DEF after, in
  <2>2. t + in \in Nat /\ t + in + MILLI - 1 >= after /\ t + in <= t
    BY <1>1, <1>2, <2>1
  <2> QED
    BY <2>2 DEF after, in
<1>3. CASE t < after
  <2>1. in = ((after - t) \div MILLI) * MILLI
    BY <1>1, <1>3 DEF AcceptableIn, Acceptable
  <2> HIDE DEF after, in
  <2>2. after - t \in Nat
    BY <1>1, <1>3
  <2>3. in \in Nat /\ in <= after - t /\ after - t < in + MILLI
    BY <1>1, <2>1, <2>2, RoundedDown
  <2>4. t + in \in Nat /\ t + in + MILLI - 1 >= after /\ t + in <= after
    BY <1>1, <2>2, <2>3
  <2> QED
    BY <2>4 DEF after, in
<1> QED
  BY <1>1, <1>2, <1>3

LEMMA Invariance ==
  ASSUME Durations
  PROVE  (TimingInit => TimingInv) /\ (TimingInv /\ [TimingNext]_timing => TimingInv')
<1>1. TimingInit => TimingInv
  <2> SUFFICES ASSUME TimingInit PROVE TimingInv
    OBVIOUS
  <2>1. dynamic \in Inclusions
    <3>1. PICK initial \in Initials, allow_empty \in AllowEmpty :
            dynamic = NewDynamicInclusion(initial, allow_empty)
      BY DEF TimingInit
    <3>2. initial \in Nat /\ allow_empty \in Nat
      BY DEF Durations
    <3>3. initial # 0 => allow_empty \div initial \in Nat
      BY <3>2, SMT
    <3> QED
      BY <3>1, <3>2, <3>3 DEF NewDynamicInclusion, Inclusions
  <2>2. now \in Nat /\ included \in Nat /\ last_included = included
    BY <2>1 DEF TimingInit, Durations, Inclusions
  <2>3. deadline = now + AcceptableIn(dynamic, now, included) /\ minimum_passed = FALSE
    BY DEF TimingInit
  <2> QED
    BY <2>1, <2>2, <2>3, TimerRight DEF TimingInv
<1>2. ASSUME TimingInv, [TimingNext]_timing PROVE TimingInv'
  <2> USE <1>2
  <2>0. ValidAfter(dynamic, last_included) \in Nat /\ MILLI \in Nat /\ MinDelay \in Nat
    BY ValidAfterTyped DEF TimingInv, Durations
  <2>1. CASE UNCHANGED timing
    BY <2>1 DEF TimingInv, timing, ValidAfter
  <2>2. CASE TimePasses
    <3>1. now' = now + 1 /\ UNCHANGED <<dynamic, included, last_included, deadline, minimum_passed>>
      BY <2>2 DEF TimePasses
    <3>2. ValidAfter(dynamic, last_included)' = ValidAfter(dynamic, last_included)
      BY <3>1 DEF ValidAfter
    <3> QED
      BY <2>0, <3>1, <3>2 DEF TimingInv
  <2>3. CASE CountChanges
    <3>1. included' \in Nat /\ UNCHANGED <<dynamic, now, last_included, deadline, minimum_passed>>
      BY <2>3 DEF CountChanges, TimingInv, Inclusions
    <3>2. ValidAfter(dynamic, last_included)' = ValidAfter(dynamic, last_included)
      BY <3>1 DEF ValidAfter
    <3> QED
      BY <3>1, <3>2 DEF TimingInv
  <2>4. CASE Poll
    <3>1. /\ UNCHANGED <<dynamic, now, included>>
          /\ minimum_passed' = (minimum_passed \/ now >= MinDelay)
      BY <2>4 DEF Poll
    <3>2. minimum_passed' \in BOOLEAN /\ (minimum_passed' => now' >= MinDelay)
      BY <3>1 DEF TimingInv
    <3>3. CASE UNCHANGED <<last_included, deadline>>
      <4>1. ValidAfter(dynamic, last_included)' = ValidAfter(dynamic, last_included)
        BY <3>1, <3>3 DEF ValidAfter
      <4> QED
        BY <3>1, <3>2, <3>3, <4>1 DEF TimingInv
    <3>4. CASE last_included' = included /\ deadline' = now + AcceptableIn(dynamic, now, included)
      <4>1. ValidAfter(dynamic, last_included)' = ValidAfter(dynamic, included)
        BY <3>1, <3>4 DEF ValidAfter
      <4>2. /\ deadline' \in Nat
            /\ deadline' + MILLI - 1 >= ValidAfter(dynamic, included)
            /\ deadline' <= now \/ deadline' <= ValidAfter(dynamic, included)
        BY <3>4, TimerRight DEF TimingInv
      <4> QED
        BY <3>1, <3>2, <3>4, <4>1, <4>2 DEF TimingInv
    <3> QED
      BY <2>4, <3>3, <3>4 DEF Poll
  <2> QED
    BY <2>1, <2>2, <2>3, <2>4 DEF TimingNext
<1> QED
  BY <1>1, <1>2

(* No proposal is made before the minimum delay, nor with fewer candidates *)
(* than are enough a millisecond later, though the timer may have been set *)
(* for another count; and every poll that finds enough candidates after    *)
(* the minimum delay proposes (ProposalTiming::poll, acceptable_in).       *)
THEOREM ReadyOnTimeHolds ==
  ASSUME Durations
  PROVE  TimingSpec => ReadyOnTime
<1> DEFINE A == /\ ready' /\ ~ready =>
                     now >= MinDelay /\ Acceptable(dynamic, now + MILLI - 1, included)
                /\ polled' /\ ~polled /\ now >= MinDelay /\ Acceptable(dynamic, now, included)
                     => ready'
<1>1. ASSUME TimingInv, TimingNext PROVE A
  <2> USE <1>1
  <2>0. /\ ValidAfter(dynamic, last_included) \in Nat /\ ValidAfter(dynamic, included) \in Nat
        /\ MILLI \in Nat \ {0} /\ MinDelay \in Nat /\ now \in Nat /\ deadline \in Nat
    BY ValidAfterTyped DEF TimingInv, Durations
  <2>1. CASE TimePasses \/ CountChanges
    BY <2>1 DEF TimePasses, CountChanges
  <2>2. CASE Poll
    <3>1. minimum_passed' = (now >= MinDelay) /\ ~ready
      BY <2>2 DEF Poll, TimingInv
    <3>2. CASE ~minimum_passed' /\ UNCHANGED ready
      BY <3>1, <3>2, Zenon
    <3>3. CASE minimum_passed' /\ included = last_included /\ ready' = (now >= deadline)
      <4>1. Acceptable(dynamic, now, included) => now >= deadline
        BY <2>0, <3>3 DEF TimingInv, Acceptable
      <4>2. now >= deadline => Acceptable(dynamic, now + MILLI - 1, included)
        BY <2>0, <3>3 DEF TimingInv, Acceptable
      <4> QED
        BY <3>1, <3>3, <4>1, <4>2, Zenon
    <3>4. CASE minimum_passed' /\ Acceptable(dynamic, now, included) /\ ready' = TRUE
      <4>1. Acceptable(dynamic, now + MILLI - 1, included)
        BY <2>0, <3>4 DEF Acceptable
      <4> QED
        BY <3>1, <3>4, <4>1, Zenon
    <3>5. CASE /\ minimum_passed' /\ ~Acceptable(dynamic, now, included)
               /\ deadline' = now + AcceptableIn(dynamic, now, included) /\ ready' = (now >= deadline')
      <4>1. deadline' \in Nat /\ deadline' + MILLI - 1 >= ValidAfter(dynamic, included)
        BY <3>5, TimerRight DEF TimingInv
      <4>2. now >= deadline' => Acceptable(dynamic, now + MILLI - 1, included)
        BY <2>0, <4>1 DEF Acceptable
      <4> QED
        BY <3>1, <3>5, <4>2, Zenon
    <3> QED
      BY <2>2, <3>2, <3>3, <3>4, <3>5, Zenon DEF Poll
  <2> QED
    BY <2>1, <2>2 DEF TimingNext
<1>2. TimingInv /\ [TimingNext]_timing => [A]_timing
  BY <1>1
<1> HIDE DEF A
<1>3. [][A]_timing => ReadyOnTime
  BY PTL DEF ReadyOnTime, A
<1> QED
  BY <1>2, <1>3, Invariance, PTL DEF TimingSpec
=============================================================================
