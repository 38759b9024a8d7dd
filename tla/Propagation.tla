---------------------------- MODULE Propagation -----------------------------
(***************************************************************************)
(* How extrinsics travel: the protocol handler's connections, handshakes   *)
(* and timeouts and its propagation of transactions                        *)
(* (substrate/network/src/protocol.rs), the network service that starts    *)
(* and stops it (substrate/network/src/service.rs), the adapter of the     *)
(* pool and the tasks of the node (polkadot/service/src).                  *)
(*                                                                         *)
(* Several nodes run the same code.  Sessions are devp2p's: both ends are  *)
(* told that a session is there, and that it is gone, each in its own      *)
(* time; what is on the wire when it is closed is lost.  The pool is a set *)
(* here (TransactionPool has the rest), and whether a node is catching up  *)
(* is given by its surroundings (Sync has the rest).                       *)
(***************************************************************************)
EXTENDS Integers, Sequences, FiniteSets

CONSTANTS Nodes,
          Links,        \* the pairs of nodes that may have a session
          Setups,       \* which nodes are light clients, have another genesis, have users
          Extrinsics,
          MaxMishaps,   \* bound: lost sessions, timeouts, stops, nodes that fall behind
          None

(* net: setup; session: the open sessions; end: <<x, y>> if x was told of  *)
(* its session with y; wire: the messages on the way; peers: what x knows  *)
(* of y, or None; hand: handshaking_peers; pool; mined: extrinsics in the  *)
(* chain of a node; behind: those that catch up; up: those whose network   *)
(* runs; aborted: those about to stop it; told: the extrinsics whose       *)
(* watchers were told of the broadcast; banned; mishaps; got: history,     *)
(* what reached a node or was submitted to it; lost: history, what reached *)
(* it when it would not take it.                                           *)
VARIABLE net

Empty == [x \in Nodes |-> {}]

(* Protocol::new, for every node. *)
SpreadInit ==
  \E setup \in Setups :
  net = [setup |-> setup, session |-> {}, end |-> {}, wire |-> [x \in Nodes |-> [y \in Nodes |-> <<>>]],
       peers |-> [x \in Nodes |-> [y \in Nodes |-> None]], hand |-> Empty,
       pool |-> Empty, mined |-> Empty, behind |-> {}, up |-> Nodes, aborted |-> {},
       told |-> Empty, banned |-> {}, mishaps |-> 0,
       got |-> Empty, lost |-> Empty]

-----------------------------------------------------------------------------
(* send_message; on a closed session it fails, and the peer is             *)
(* disconnected, which it is already.                                      *)
SendMessage(s, x, y, msg) ==
  IF {x, y} \in s.session THEN [s EXCEPT !.wire[x][y] = Append(@, msg)] ELSE s

(* Sessions are closed; what is on the wire is lost. *)
Close(s, closed) ==
  [s EXCEPT !.session = @ \ closed,
            !.wire = [x \in Nodes |-> [y \in Nodes |-> IF {x, y} \in closed THEN <<>> ELSE @[x][y]]]]

(* The session of a peer that is disconnected is closed. *)
DisconnectPeer(s, x, y) == Close(s, {{x, y}})

(* ... and of a disabled one not opened again. *)
DisablePeer(s, x, y) == [DisconnectPeer(s, x, y) EXCEPT !.banned = @ \cup {{x, y}}]

Status(s, x) == [kind |-> "Status", foreign |-> x \in s.setup.foreign, txs |-> {}]
Transactions(txs) == [kind |-> "Transactions", foreign |-> FALSE, txs |-> txs]

(* send_status *)
SendStatus(s, x, y) == SendMessage(s, x, y, Status(s, x))

(* on_peer_connected *)
OnPeerConnected(s, x, y) == SendStatus([s EXCEPT !.hand[x] = @ \cup {y}], x, y)

(* Mutant: what was known of the peer is kept. *)
OnPeerDisconnectedKeeps(s, x, y) == [s EXCEPT !.hand[x] = @ \ {y}]

(* on_peer_disconnected *)
OnPeerDisconnected(s, x, y) == [s EXCEPT !.hand[x] = @ \ {y}, !.peers[x][y] = None]

(* on_status_message *)
OnStatusMessage(s, x, y, status) ==
  CASE s.peers[x][y] # None -> s
    [] s.peers[x][y] = None /\ status.foreign # (x \in s.setup.foreign) -> DisablePeer(s, x, y)
    [] OTHER -> [s EXCEPT !.peers[x][y] = {}, !.hand[x] = @ \ {y}]

(* ChainSync::status: a node that is far behind is Downloading. *)
IsIdle(s, x) == x \notin s.behind

(* TransactionPoolAdapter::import: the extrinsics that a node takes or has *)
(* already; one in its chain is stale.                                     *)
PoolImport(s, x, txs) == IF x \in s.setup.light THEN {} ELSE txs \ s.mined[x]

(* on_transactions *)
OnTransactions(s, x, y, txs) ==
  LET seen == [s EXCEPT !.got[x] = @ \cup txs]
      taken == PoolImport(s, x, txs)
  IN  IF ~IsIdle(s, x) \/ s.peers[x][y] = None THEN [seen EXCEPT !.lost[x] = @ \cup txs]
      ELSE [seen EXCEPT !.pool[x] = @ \cup taken, !.lost[x] = @ \cup (txs \ taken),
                        !.peers[x][y] = @ \cup taken]

(* handle_packet, of the messages here *)
HandlePacket(s, x, y, msg) ==
  IF msg.kind = "Status" THEN OnStatusMessage(s, x, y, msg) ELSE OnTransactions(s, x, y, msg.txs)

(* TransactionPoolAdapter::transactions: what is pending; the pool is      *)
(* culled.                                                                 *)
Pending(s, x) == s.pool[x] \ s.mined[x]

(* What a peer is not known to know. *)
ToSend(s, x, y) == Pending(s, x) \ s.peers[x][y]

(* propagate_transactions, and on_broadcasted of the pool *)
PropagateTransactions(s, x) ==
  LET targets == {y \in Nodes : s.peers[x][y] # None /\ ToSend(s, x, y) # {}}
      reached == {y \in targets : {x, y} \in s.session}
      sent == [y \in Nodes |-> IF y \in targets THEN ToSend(s, x, y) ELSE {}]
  IN  IF ~IsIdle(s, x) THEN s
      ELSE [s EXCEPT
              !.pool[x] = Pending(s, x),
              !.peers[x] = [y \in Nodes |-> IF @[y] = None THEN None ELSE @[y] \cup sent[y]],
              !.wire[x] = [y \in Nodes |-> IF y \in reached THEN Append(@[y], Transactions(sent[y])) ELSE @[y]],
              !.told[x] = @ \cup UNION {sent[y] : y \in reached}]

(* abort: the service is about to stop the network. *)
AbortProtocol(s, x) == [s EXCEPT !.peers[x] = [y \in Nodes |-> None], !.hand[x] = {}, !.behind = @ \ {x}]

-----------------------------------------------------------------------------
Mishap(s) == [s EXCEPT !.mishaps = @ + 1]
MayFail == net.mishaps < MaxMishaps

(* devp2p opens a session, closes one, and stops with its sessions. *)
Open(l) ==
  /\ l \in Links \ (net.session \cup net.banned) /\ l \subseteq net.up \ net.aborted
  /\ \A x \in l, y \in l : <<x, y>> \notin net.end
  /\ net' = [net EXCEPT !.session = @ \cup {l}]

Lost(l) ==
  /\ l \in net.session
  /\ \E x \in l : \E y \in l \ {x} : net' = Mishap(DisconnectPeer(net, x, y))
  /\ MayFail

(* ProtocolHandler::connected, disconnected and read *)
Connected(x, y) ==
  /\ {x, y} \in net.session /\ <<x, y>> \notin net.end /\ x # y
  /\ net' = OnPeerConnected([net EXCEPT !.end = @ \cup {<<x, y>>}], x, y)

Disconnected(x, y) ==
  /\ {x, y} \notin net.session /\ <<x, y>> \in net.end
  /\ net' = OnPeerDisconnected([net EXCEPT !.end = @ \ {<<x, y>>}], x, y)

Read(x, y) ==
  /\ <<x, y>> \in net.end /\ net.wire[y][x] # <<>>
  /\ net' = HandlePacket([net EXCEPT !.wire[y][x] = Tail(@)], x, y, Head(net.wire[y][x]))

(* timeout with the TICK_TOKEN, maintain_peers: a handshake takes too long. *)
HandshakeTimeout(x, y) ==
  /\ y \in net.hand[x]
  /\ net' = Mishap(OnPeerDisconnected(DisconnectPeer(net, x, y), x, y))
  /\ MayFail

(* timeout with the PROPAGATE_TOKEN, or trigger_repropagate when the pool  *)
(* has a new extrinsic                                                     *)
Timeout(x) ==
  /\ x \in net.up
  /\ net' = PropagateTransactions(net, x)

(* Service::stop: abort, then the network. *)
Stop(x) ==
  /\ x \in net.up \ net.aborted
  /\ net' = Mishap([AbortProtocol(net, x) EXCEPT !.aborted = @ \cup {x}])
  /\ MayFail

NetworkStop(x) ==
  /\ x \in net.aborted
  /\ net' = [Close(net, {l \in net.session : x \in l}) EXCEPT !.up = @ \ {x}, !.aborted = @ \ {x}]

(* Service::start *)
Start(x) == x \notin net.up /\ net' = [net EXCEPT !.up = @ \cup {x}]

(* A user submits an extrinsic. *)
Submit(x, t) ==
  /\ x \in net.setup.users /\ \A y \in Nodes : t \notin net.got[y]
  /\ net' = [net EXCEPT !.pool[x] = @ \cup {t}, !.got[x] = @ \cup {t}]

(* prune_imported: the pool is culled. *)
PruneImported(s, x) == [s EXCEPT !.pool[x] = Pending(s, x)]

(* A block with t is imported, and the node's task learns of it. *)
BlockImported(x, t) ==
  /\ t \notin net.mined[x] /\ x \notin net.setup.foreign /\ \E y \in Nodes : t \in net.told[y]
  /\ net' = PruneImported([net EXCEPT !.mined[x] = @ \cup {t}], x)

(* The best block that was seen is far ahead, and is reached. *)
FallBehind(x) ==
  /\ x \notin net.behind /\ \E y \in Nodes : net.peers[x][y] # None
  /\ net' = Mishap([net EXCEPT !.behind = @ \cup {x}])
  /\ MayFail

CatchUp(x) == x \in net.behind /\ net' = [net EXCEPT !.behind = @ \ {x}]

(* What a node and its network do by themselves. *)
Works(x) ==
  \/ \E y \in Nodes : Connected(x, y) \/ Disconnected(x, y) \/ Read(x, y)
  \/ CatchUp(x) \/ NetworkStop(x)

SpreadNext ==
  \/ \E l \in Links : Open(l) \/ Lost(l)
  \/ \E x \in Nodes :
       \/ Works(x) \/ Timeout(x) \/ Stop(x) \/ Start(x) \/ FallBehind(x)
       \/ \E y \in Nodes : HandshakeTimeout(x, y)
       \/ \E t \in Extrinsics : Submit(x, t) \/ BlockImported(x, t)

(* Every node's network threads and its timer go on. *)
SpreadFairness == \A x \in Nodes : WF_net(Works(x)) /\ WF_net(Timeout(x))

SpreadSpec == SpreadInit /\ [][SpreadNext]_net /\ SpreadFairness

-----------------------------------------------------------------------------
(* A node withholds an extrinsic from a peer only because the peer has     *)
(* had it or because it is on its way on the session they have now: what   *)
(* was lost with a session is sent again on the next one                   *)
(* (known_transactions, on_peer_disconnected, abort).                      *)
KnowledgeTrue ==
  \A x \in Nodes, y \in Nodes : \A t \in IF net.peers[x][y] = None THEN {} ELSE net.peers[x][y] :
    \/ t \in net.got[y]
    \/ <<x, y>> \in net.end /\ {x, y} \notin net.session
    \/ {x, y} \in net.session /\ \E i \in DOMAIN net.wire[x][y] : t \in net.wire[x][y][i].txs

(* Over sessions that stay, an extrinsic reaches every full node, unless   *)
(* it came when the node was catching up or had a block with it            *)
(* (propagate_transactions, on_transactions).                              *)
ExtrinsicsSpread ==
  <>[](\A l \in net.session : \A x \in l, y \in l : \A t \in net.pool[x] :
         t \in net.pool[y] \cup net.mined[y] \cup net.mined[x] \cup net.lost[y])
=============================================================================
